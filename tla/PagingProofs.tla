---------------------------- MODULE PagingProofs ----------------------------
(***************************************************************************)
(* The buddy allocator keeps its promises for every memory size, every     *)
(* largest order and every region: blocks tile the region, merges touch    *)
(* only listed blocks, a refusal is never for want of a merge.  Over it,   *)
(* paging: the directory, the tables and the heap each have a frame of     *)
(* their own, no write faults before the heap's second table, and the      *)
(* address space is what vmm_init and kheap.c say, page by page.           *)
(***************************************************************************)
EXTENDS Vmm, SequenceTheorems, FiniteSetTheorems, WellFoundedInduction, TLAPS

-----------------------------------------------------------------------------
(* Powers of two.  2^k is the number of subsets of 1 .. k, which says all that
   is needed of it: one more element doubles it. *)

(* A set of numbers has a least one: what induction is made of here. *)
LEMMA LeastOf ==
  ASSUME NEW T, T \subseteq Nat, T # {}
  PROVE  \E k \in T : \A j \in T : ~(j < k)
<1>1. PICK k \in T : \A j \in T : <<j, k>> \notin OpToRel(<, Nat)
  BY NatLessThanWellFounded, WFMin
<1>. QED
  BY <1>1 DEF OpToRel

LEMMA PowerCard ==
  ASSUME NEW k \in Nat
  PROVE  /\ IsFiniteSet(SUBSET (1 .. k))
         /\ Cardinality(SUBSET (1 .. k)) = 2^k
<1>1. IsFiniteSet(1 .. k) /\ Cardinality(1 .. k) = k
  BY FS_Interval
<1>. QED
  BY <1>1, FS_SUBSET

LEMMA PowerZero == 2^0 = 1
<1>1. 1 .. 0 = {}
  OBVIOUS
<1>2. SUBSET (1 .. 0) = {{}}
  BY <1>1
<1>3. Cardinality({{}}) = 1
  BY FS_Singleton
<1>. QED
  BY <1>2, <1>3, PowerCard

LEMMA PowerNat == ASSUME NEW k \in Nat PROVE 2^k \in Nat
BY PowerCard, FS_CardinalityType

LEMMA PowerStep == ASSUME NEW k \in Nat PROVE 2^(k + 1) = 2^k + 2^k
<1>. DEFINE A == SUBSET (1 .. k)
            f == [X \in A |-> X \cup {k + 1}]
            B == {f[X] : X \in A}
<1>1. 1 .. k + 1 = (1 .. k) \cup {k + 1} /\ k + 1 \notin 1 .. k
  OBVIOUS
<1>2. ExistsBijection(A, B)
  <2>1. ASSUME NEW X \in A, NEW Y \in A, f[X] = f[Y] PROVE X = Y
    <3>1. X = (X \cup {k + 1}) \ {k + 1} /\ Y = (Y \cup {k + 1}) \ {k + 1}
      BY <1>1
    <3>. QED
      BY <2>1, <3>1
  <2>2. f \in [A -> B] /\ \A b \in B : \E X \in A : f[X] = b
    OBVIOUS
  <2>3. DOMAIN f = A
    OBVIOUS
  <2>. HIDE DEF A, f, B
  <2>4. f \in Bijection(A, B)
    BY <2>1, <2>2, <2>3 DEF Bijection, Injection, Surjection, IsInjective
  <2>. QED
    BY <2>4 DEF ExistsBijection
<1>3. IsFiniteSet(A) /\ Cardinality(A) = 2^k
  BY PowerCard
<1>4. IsFiniteSet(B) /\ Cardinality(B) = 2^k
  <2>. HIDE DEF A, B
  <2>. QED
    BY <1>2, <1>3, FS_Bijection
<1>5. SUBSET (1 .. k + 1) = A \cup B
  <2>1. ASSUME NEW X \in SUBSET (1 .. k + 1), k + 1 \in X PROVE X \in B
    <3>1. X \ {k + 1} \in A /\ X = (X \ {k + 1}) \cup {k + 1}
      BY <2>1, <1>1
    <3>2. f[X \ {k + 1}] = X
      BY <3>1
    <3>. QED
      BY <3>1, <3>2
  <2>2. ASSUME NEW X \in SUBSET (1 .. k + 1), k + 1 \notin X PROVE X \in A
    BY <2>2, <1>1
  <2>3. A \subseteq SUBSET (1 .. k + 1) /\ B \subseteq SUBSET (1 .. k + 1)
    BY <1>1
  <2>. QED
    BY <2>1, <2>2, <2>3
<1>6. A \cap B = {}
  BY <1>1
<1>7. Cardinality(A \cup B) = Cardinality(A) + Cardinality(B) - Cardinality(A \cap B)
  BY <1>3, <1>4, FS_Union
<1>8. Cardinality(A \cap B) = 0
  BY <1>6, FS_EmptySet
<1>9. Cardinality(SUBSET (1 .. k + 1)) = 2^(k + 1)
  <2>1. k + 1 \in Nat
    OBVIOUS
  <2>. QED
    BY <2>1, PowerCard
<1>10. 2^(k + 1) = 2^k + 2^k - 0
  <2>. HIDE DEF A, B
  <2>. QED
    BY <1>3, <1>4, <1>5, <1>7, <1>8, <1>9
<1>. QED
  BY <1>10, PowerNat

(* Powers are compared and divided by induction on the exponent. *)
LEMMA PowerPositive == ASSUME NEW k \in Nat PROVE 2^k > 0
<1>. DEFINE T == {j \in Nat : ~(2^j > 0)}
<1>1. SUFFICES T = {}
  OBVIOUS
<1>2. SUFFICES ASSUME T # {} PROVE FALSE
  OBVIOUS
<1>3. PICK j \in T : \A i \in T : ~(i < j)
  BY <1>2, LeastOf
<1>4. j # 0
  <2>1. ASSUME j = 0 PROVE FALSE
    <3>1. ~(2^0 > 0)
      BY <2>1
    <3>. QED
      BY <3>1, PowerZero
  <2>. QED
    BY <2>1
<1>5. j - 1 \in Nat /\ j - 1 \notin T /\ (j - 1) + 1 = j
  BY <1>3, <1>4
<1>6. 2^((j - 1) + 1) = 2^(j - 1) + 2^(j - 1)
  BY <1>5, PowerStep
<1>. QED
  BY <1>5, <1>6, PowerNat

LEMMA PowerMonotonic ==
  ASSUME NEW i \in Nat, NEW j \in Nat, i <= j
  PROVE  2^i <= 2^j
<1>. DEFINE T == {m \in Nat : ~(2^i <= 2^(i + m))}
<1>1. SUFFICES T = {}
  <2>1. j - i \in Nat /\ i + (j - i) = j
    OBVIOUS
  <2>2. j - i \notin T
    BY <1>1
  <2>. QED
    BY <2>1, <2>2
<1>2. SUFFICES ASSUME T # {} PROVE FALSE
  OBVIOUS
<1>3. PICK m \in T : \A n \in T : ~(n < m)
  BY <1>2, LeastOf
<1>4. m # 0
  BY PowerNat
<1>5. m - 1 \in Nat /\ m - 1 \notin T
  BY <1>3, <1>4
<1>6. 2^i <= 2^(i + (m - 1))
  BY <1>5
<1>7. i + (m - 1) \in Nat /\ (i + (m - 1)) + 1 = i + m
  BY <1>3, <1>5
<1>8. 2^(i + m) = 2^(i + (m - 1)) + 2^(i + (m - 1))
  BY <1>7, PowerStep
<1>9. 2^(i + (m - 1)) \in Nat /\ 2^i \in Nat
  BY <1>7, PowerNat
<1>10. 2^i <= 2^(i + m)
  BY <1>6, <1>8, <1>9
<1>. QED
  BY <1>10

(* What the proofs use of 2^k, in one place. *)
LEMMA Powers ==
  /\ \A k \in Nat : 2^k \in Nat /\ 2^k > 0 /\ 2^(k + 1) = 2^k + 2^k
  /\ \A i, j \in Nat : i <= j => 2^i <= 2^j
  /\ \A i, j \in Nat : i < j => 2^i < 2^j
<1>1. \A k \in Nat : 2^k \in Nat /\ 2^k > 0 /\ 2^(k + 1) = 2^k + 2^k
  BY PowerNat, PowerPositive, PowerStep
<1>2. \A i, j \in Nat : i <= j => 2^i <= 2^j
  BY PowerMonotonic
<1>3. ASSUME NEW i \in Nat, NEW j \in Nat, i < j PROVE 2^i < 2^j
  <2>1. i + 1 \in Nat /\ i + 1 <= j
    BY <1>3
  <2>2. 2^(i + 1) <= 2^j
    BY <2>1, <1>2
  <2>. QED
    BY <2>2, <1>1
<1>. QED
  BY <1>1, <1>2, <1>3

-----------------------------------------------------------------------------
(* Division by a block size. *)

LEMMA Division ==
  ASSUME NEW p \in Nat, NEW s \in Nat, s > 0
  PROVE  /\ p \div s \in Nat
         /\ (p \div s) * s <= p /\ p < (p \div s) * s + s
         /\ p % s = p - (p \div s) * s
OBVIOUS

LEMMA DivisionUnique ==
  ASSUME NEW s \in Nat, s > 0, NEW q \in Nat, NEW r \in Nat,
         q * s < r * s + s, r * s < q * s + s
  PROVE  q = r
<1>1. ASSUME NEW m \in Nat, NEW n \in Nat, m < n PROVE m * s + s <= n * s
  <2>1. n * s = m * s + s + (n - m - 1) * s
    OBVIOUS
  <2>2. (n - m - 1) * s >= 0
    BY <1>1
  <2>. QED
    BY <2>1, <2>2
<1>2. ~(q < r) /\ ~(r < q)
  BY <1>1
<1>. QED
  BY <1>2

LEMMA Quotient ==
  ASSUME NEW p \in Nat, NEW s \in Nat, s > 0, NEW q \in Nat,
         q * s <= p, p < q * s + s
  PROVE  p \div s = q /\ p % s = p - q * s
BY Division, DivisionUnique

LEMMA Halving ==
  ASSUME NEW q \in Nat
  PROVE  \/ q % 2 = 0 /\ q = (q \div 2) + (q \div 2)
         \/ q % 2 # 0 /\ q = (q \div 2) + (q \div 2) + 1
OBVIOUS

-----------------------------------------------------------------------------
(* Blocks: Block(p, k) is the one aligned run of 2^k pages that holds p. *)

Aligned(p, k) == p \in Nat /\ p % 2^k = 0

LEMMA BlockAround ==
  ASSUME NEW p \in Nat, NEW k \in Nat
  PROVE  /\ Aligned(Block(p, k), k)
         /\ Block(p, k) <= p /\ p < Block(p, k) + 2^k
<1>. DEFINE s == 2^k
<1>1. s \in Nat /\ s > 0
  BY Powers
<1>. HIDE DEF s
<1>2. /\ p \div s \in Nat /\ (p \div s) * s <= p /\ p < (p \div s) * s + s
  BY <1>1, Division
<1>3. (p \div s) * s \in Nat
  BY <1>1, <1>2
<1>4. ((p \div s) * s) % s = (p \div s) * s - (p \div s) * s
  BY <1>1, <1>2, <1>3, Quotient
<1>. QED
  BY <1>2, <1>3, <1>4 DEF Aligned, Block, s

LEMMA BlockUnique ==
  ASSUME NEW p \in Nat, NEW k \in Nat, NEW b, Aligned(b, k), b <= p, p < b + 2^k
  PROVE  Block(p, k) = b
<1>. DEFINE s == 2^k
<1>1. s \in Nat /\ s > 0
  BY Powers
<1>2. b \in Nat /\ b % s = 0 /\ b <= p /\ p < b + s
  BY DEF Aligned
<1>. HIDE DEF s
<1>3. b \div s \in Nat /\ b % s = b - (b \div s) * s
  BY <1>1, <1>2, Division
<1>4. (b \div s) * s \in Nat
  BY <1>1, <1>3
<1>5. b = (b \div s) * s
  BY <1>2, <1>3, <1>4
<1>6. p \div s = b \div s
  BY <1>1, <1>2, <1>3, <1>5, Quotient
<1>. QED
  BY <1>5, <1>6 DEF Block, s

(* What a caller computes as page_idx ^ (1 << order): the block of the next
   order consists of the block and its buddy, in one order or the other. *)
LEMMA Halves ==
  ASSUME NEW p \in Nat, NEW k \in Nat
  PROVE  /\ Aligned(Buddy(p, k), k)
         /\ \/ /\ Block(p, k + 1) = Block(p, k)
               /\ Buddy(p, k) = Block(p, k) + 2^k
            \/ /\ Block(p, k + 1) = Buddy(p, k)
               /\ Block(p, k) = Buddy(p, k) + 2^k
<1>. DEFINE s == 2^k
            q == p \div s
            h == q \div 2
<1>1. s \in Nat /\ s > 0 /\ 2^(k + 1) = s + s
  BY Powers
<1>2. Block(p, k) = q * s
  BY DEF Block
<1>. HIDE DEF s
<1>3. q \in Nat /\ q * s <= p /\ p < q * s + s
  BY <1>1, Division
<1>4. (q * s) \div s = q
  BY <1>1, <1>3, Quotient
<1>. HIDE DEF q
<1>5. h \in Nat
  BY <1>3
<1>6. \/ q % 2 = 0 /\ q = h + h
      \/ q % 2 # 0 /\ q = h + h + 1
  BY <1>3, Halving
<1>7. Buddy(p, k) = IF q % 2 = 0 THEN q * s + s ELSE q * s - s
  BY <1>2, <1>4 DEF Buddy, s
<1>. HIDE DEF h
<1>8. h * (s + s) = (h + h) * s /\ (h + h + 1) * s = (h + h) * s + s /\ (h + h) * s \in Nat
  BY <1>1, <1>5
<1>9. h * (s + s) <= p /\ p < h * (s + s) + (s + s)
  BY <1>1, <1>3, <1>5, <1>6, <1>8
<1>10. p \div (s + s) = h
  <2>1. s + s \in Nat /\ s + s > 0
    BY <1>1
  <2>. QED
    BY <2>1, <1>5, <1>9, Quotient
<1>11. Block(p, k + 1) = (h + h) * s
  BY <1>1, <1>8, <1>10 DEF Block
<1>12. \A r \in Nat : Aligned(r * s, k)
  <2>. TAKE r \in Nat
  <2>1. r * s \in Nat
    BY <1>1
  <2>2. (r * s) % s = r * s - r * s
    BY <1>1, <2>1, Quotient
  <2>. QED
    BY <2>1, <2>2 DEF Aligned, s
<1>13. CASE q % 2 = 0
  <2>1. Buddy(p, k) = (q + 1) * s
    BY <1>1, <1>3, <1>7, <1>13
  <2>2. Aligned(Buddy(p, k), k)
    BY <1>3, <1>12, <2>1
  <2>3. Block(p, k + 1) = Block(p, k)
    BY <1>2, <1>6, <1>11, <1>13
  <2>. QED
    BY <2>2, <2>3, <1>2, <1>7, <1>13 DEF s
<1>14. CASE q % 2 # 0
  <2>1. q = h + h + 1
    BY <1>6, <1>14
  <2>2. Buddy(p, k) = (h + h) * s /\ q * s = (h + h) * s + s
    BY <1>1, <1>5, <1>7, <1>8, <1>14, <2>1
  <2>3. Aligned(Buddy(p, k), k)
    BY <1>5, <1>12, <2>2
  <2>. QED
    BY <2>2, <2>3, <1>2, <1>11 DEF s
<1>. QED
  BY <1>13, <1>14

LEMMA RunHas ==
  ASSUME NEW p \in Nat, NEW k \in Nat
  PROVE  \A x : x \in Run(p, k) <=> x \in Nat /\ p <= x /\ x < p + 2^k
<1>1. 2^k \in Nat
  BY Powers
<1>. QED
  BY <1>1 DEF Run

LEMMA BlockOfAligned ==
  ASSUME NEW k \in Nat, NEW a, Aligned(a, k)
  PROVE  Block(a, k) = a /\ a \in Run(a, k)
<1>1. a \in Nat /\ 2^k \in Nat /\ 2^k > 0
  BY Powers DEF Aligned
<1>. QED
  BY <1>1, BlockUnique, RunHas

LEMMA BlockOfMember ==
  ASSUME NEW k \in Nat, NEW a, Aligned(a, k), NEW x \in Run(a, k)
  PROVE  x \in Nat /\ Block(x, k) = a
<1>1. a \in Nat /\ 2^k \in Nat
  BY Powers DEF Aligned
<1>2. x \in Nat /\ a <= x /\ x < a + 2^k
  BY <1>1, RunHas
<1>. QED
  BY <1>2, BlockUnique

(* What a page's block of the next order adds is the buddy. *)
LEMMA HalvesRun ==
  ASSUME NEW p \in Nat, NEW k \in Nat
  PROVE  /\ Run(Block(p, k + 1), k + 1) = Run(Block(p, k), k) \cup Run(Buddy(p, k), k)
         /\ Run(Block(p, k), k) \cap Run(Buddy(p, k), k) = {}
         /\ Block(p, k) # Buddy(p, k)
<1>1. 2^k \in Nat /\ 2^k > 0 /\ 2^(k + 1) = 2^k + 2^k /\ k + 1 \in Nat
  BY Powers
<1>2. Block(p, k) \in Nat /\ Block(p, k + 1) \in Nat /\ Buddy(p, k) \in Nat
  BY <1>1, BlockAround, Halves DEF Aligned
<1>. DEFINE b == Block(p, k)
            c == Buddy(p, k)
            w == Block(p, k + 1)
            s == 2^k
<1>3. \/ w = b /\ c = b + s
      \/ w = c /\ b = c + s
  BY Halves
<1>4. /\ \A x : x \in Run(b, k) <=> x \in Nat /\ b <= x /\ x < b + s
      /\ \A x : x \in Run(c, k) <=> x \in Nat /\ c <= x /\ x < c + s
      /\ \A x : x \in Run(w, k + 1) <=> x \in Nat /\ w <= x /\ x < w + (s + s)
  BY <1>1, <1>2, RunHas
<1>5. s \in Nat /\ s > 0 /\ b \in Nat /\ c \in Nat /\ w \in Nat
  BY <1>1, <1>2
<1>. HIDE DEF b, c, w, s
<1>6. \A x : x \in Run(w, k + 1) <=> x \in Run(b, k) \/ x \in Run(c, k)
  BY <1>3, <1>4, <1>5
<1>7. \A x : ~(x \in Run(b, k) /\ x \in Run(c, k))
  BY <1>3, <1>4, <1>5
<1>8. Run(w, k + 1) = Run(b, k) \cup Run(c, k) /\ Run(b, k) \cap Run(c, k) = {} /\ b # c
  BY <1>3, <1>5, <1>6, <1>7
<1>. QED
  BY <1>8 DEF b, c, w

LEMMA BlocksNest ==
  ASSUME NEW p \in Nat, NEW i \in Nat, NEW j \in Nat, i <= j
  PROVE  Run(Block(p, i), i) \subseteq Run(Block(p, j), j)
<1>. DEFINE T == {m \in Nat : ~(Run(Block(p, i), i) \subseteq Run(Block(p, i + m), i + m))}
<1>1. SUFFICES T = {}
  <2>1. j - i \in Nat /\ i + (j - i) = j
    OBVIOUS
  <2>2. j - i \notin T
    BY <1>1
  <2>. QED
    BY <2>1, <2>2
<1>2. SUFFICES ASSUME T # {} PROVE FALSE
  OBVIOUS
<1>3. PICK m \in T : \A n \in T : ~(n < m)
  BY <1>2, LeastOf
<1>4. m # 0
  OBVIOUS
<1>5. m - 1 \in Nat /\ m - 1 \notin T
  BY <1>3, <1>4
<1>6. i + (m - 1) \in Nat /\ (i + (m - 1)) + 1 = i + m
  BY <1>3, <1>5
<1>7. Run(Block(p, i + (m - 1)), i + (m - 1)) \subseteq Run(Block(p, i + m), i + m)
  BY <1>6, HalvesRun
<1>. QED
  BY <1>3, <1>5, <1>7

(* Two aligned runs are nested or apart. *)
LEMMA NestedOrApart ==
  ASSUME NEW i \in Nat, NEW j \in Nat, i <= j,
         NEW a, Aligned(a, i), NEW b, Aligned(b, j),
         NEW x \in Run(a, i), x \in Run(b, j)
  PROVE  Run(a, i) \subseteq Run(b, j)
<1>1. x \in Nat /\ Block(x, i) = a /\ Block(x, j) = b
  BY BlockOfMember
<1>. QED
  BY <1>1, BlocksNest

LEMMA AlignedBelow ==
  ASSUME NEW i \in Nat, NEW j \in Nat, i <= j, NEW a, Aligned(a, j)
  PROVE  Aligned(a, i)
<1>1. a \in Nat /\ Block(a, j) = a
  BY BlockOfAligned DEF Aligned
<1>. DEFINE b == Block(a, i)
<1>2. Aligned(b, i) /\ b <= a /\ b \in Nat
  BY <1>1, BlockAround DEF Aligned
<1>3. b \in Run(b, i)
  BY <1>2, BlockOfAligned
<1>4. b \in Run(a, j)
  BY <1>1, <1>3, BlocksNest
<1>5. a <= b
  BY <1>1, <1>4, RunHas
<1>6. a = b
  BY <1>1, <1>2, <1>5
<1>. QED
  BY <1>2, <1>6

(* An aligned run is its lower half and its upper half, which are buddies. *)
LEMMA UpperHalf ==
  ASSUME NEW k \in Nat, NEW a, Aligned(a, k + 1)
  PROVE  /\ Aligned(Half(a, k), k)
         /\ Buddy(Half(a, k), k) = a
         /\ Buddy(a, k) = Half(a, k)
<1>1. k + 1 \in Nat /\ a \in Nat /\ 2^k \in Nat /\ 2^k > 0 /\ 2^(k + 1) = 2^k + 2^k
  BY Powers DEF Aligned
<1>2. Aligned(a, k) /\ Block(a, k) = a /\ Block(a, k + 1) = a
  BY <1>1, AlignedBelow, BlockOfAligned
<1>3. Aligned(Buddy(a, k), k) /\ Buddy(a, k) = a + 2^k
  BY <1>1, <1>2, Halves DEF Aligned
<1>4. Half(a, k) = a + 2^k /\ a + 2^k \in Nat
  BY <1>1 DEF Half
<1>5. Block(a + 2^k, k) = a + 2^k
  BY <1>3, <1>4, BlockOfAligned
<1>6. Block(a + 2^k, k + 1) = a
  BY <1>1, <1>4, BlockUnique
<1>7. Buddy(a + 2^k, k) = a
  BY <1>1, <1>4, <1>5, <1>6, Halves DEF Aligned
<1>. QED
  BY <1>3, <1>4, <1>7

LEMMA BuddyBack ==
  ASSUME NEW p \in Nat, NEW k \in Nat
  PROVE  /\ Buddy(Buddy(p, k), k) = Block(p, k)
         /\ Buddy(Block(p, k), k) = Buddy(p, k)
         /\ Block(Buddy(p, k), k + 1) = Block(p, k + 1)
<1>1. 2^k \in Nat /\ 2^k > 0 /\ k + 1 \in Nat
  BY Powers
<1>. DEFINE w == Block(p, k + 1)
<1>2. Aligned(w, k + 1) /\ Aligned(Block(p, k), k) /\ Aligned(Buddy(p, k), k)
  BY <1>1, BlockAround, Halves
<1>3. Aligned(Half(w, k), k) /\ Buddy(Half(w, k), k) = w /\ Buddy(w, k) = Half(w, k)
  BY <1>2, UpperHalf
<1>4. \/ w = Block(p, k) /\ Buddy(p, k) = Half(w, k)
      \/ w = Buddy(p, k) /\ Block(p, k) = Half(w, k)
  BY Halves DEF Half
<1>5. Buddy(p, k) \in Run(w, k + 1)
  BY <1>2, BlockOfAligned, HalvesRun
<1>6. Block(Buddy(p, k), k + 1) = w
  BY <1>1, <1>2, <1>5, BlockOfMember
<1>. HIDE DEF w
<1>7. Buddy(Buddy(p, k), k) = Block(p, k) /\ Buddy(Block(p, k), k) = Buddy(p, k)
  BY <1>3, <1>4
<1>. QED
  BY <1>6, <1>7 DEF w

(* The block of order f around p, cut down to order o: what pmm_alloc_pages
   leaves when it splits and what pmm_free_pages collects when it merges. *)
Pieces(p, o, f) == {<<Buddy(p, k), k>> : k \in o .. f - 1}

LEMMA PiecesCover ==
  ASSUME NEW p \in Nat, NEW o \in Nat, NEW f \in Nat, o <= f
  PROVE  Run(Block(p, f), f)
           = Run(Block(p, o), o) \cup UNION {Run(Buddy(p, k), k) : k \in o .. f - 1}
<1>. DEFINE U(n) == UNION {Run(Buddy(p, k), k) : k \in o .. n - 1}
            T == {m \in Nat : Run(Block(p, o + m), o + m) # Run(Block(p, o), o) \cup U(o + m)}
<1>1. SUFFICES T = {}
  <2>1. f - o \in Nat /\ o + (f - o) = f
    OBVIOUS
  <2>2. f - o \notin T
    BY <1>1
  <2>. QED
    BY <2>1, <2>2
<1>2. SUFFICES ASSUME T # {} PROVE FALSE
  OBVIOUS
<1>3. PICK m \in T : \A n \in T : ~(n < m)
  BY <1>2, LeastOf
<1>4. ASSUME m = 0 PROVE FALSE
  <2>1. U(o) = {}
    OBVIOUS
  <2>. QED
    BY <1>4, <2>1
<1>5. m - 1 \in Nat /\ m - 1 \notin T
  BY <1>3, <1>4
<1>. DEFINE n == o + (m - 1)
<1>6. n \in Nat /\ n + 1 = o + m
  BY <1>3, <1>5
<1>7. Run(Block(p, n), n) = Run(Block(p, o), o) \cup U(n)
  BY <1>5
<1>8. U(o + m) = U(n) \cup Run(Buddy(p, n), n)
  <2>1. o .. (o + m) - 1 = (o .. n - 1) \cup {n}
    BY <1>5, <1>6
  <2>. QED
    BY <2>1
<1>9. Run(Block(p, n + 1), n + 1) = Run(Block(p, n), n) \cup Run(Buddy(p, n), n)
  BY <1>6, HalvesRun
<1>10. m \in T => Run(Block(p, o + m), o + m) # Run(Block(p, o), o) \cup U(o + m)
  OBVIOUS
<1>. HIDE DEF n, U, T
<1>. QED
  BY <1>3, <1>6, <1>7, <1>8, <1>9, <1>10

LEMMA PiecesApart ==
  ASSUME NEW p \in Nat, NEW o \in Nat, NEW k \in Nat, o <= k
  PROVE  /\ Run(Buddy(p, k), k) \cap Run(Block(p, o), o) = {}
         /\ \A m \in Nat : k < m => Run(Buddy(p, k), k) \cap Run(Buddy(p, m), m) = {}
<1>1. Run(Buddy(p, k), k) \cap Run(Block(p, o), o) = {}
  BY HalvesRun, BlocksNest
<1>2. ASSUME NEW m \in Nat, k < m PROVE Run(Buddy(p, k), k) \cap Run(Buddy(p, m), m) = {}
  <2>1. k + 1 \in Nat /\ k + 1 <= m
    BY <1>2
  <2>2. Run(Buddy(p, k), k) \subseteq Run(Block(p, k + 1), k + 1)
    BY HalvesRun
  <2>3. Run(Block(p, k + 1), k + 1) \subseteq Run(Block(p, m), m)
    BY <2>1, BlocksNest
  <2>. QED
    BY <2>2, <2>3, HalvesRun
<1>. QED
  BY <1>1, <1>2

-----------------------------------------------------------------------------
(* Sets of blocks that tile a set of pages. *)

Covered(B) == UNION {Run(b[1], b[2]) : b \in B}

Apart(B) ==
  /\ \A b \in B : b \in Nat \X Nat /\ Aligned(b[1], b[2])
  /\ \A a, b \in B : a # b => Run(a[1], a[2]) \cap Run(b[1], b[2]) = {}

LEMMA CoveredHas ==
  ASSUME NEW B, NEW x
  PROVE  x \in Covered(B) <=> \E b \in B : x \in Run(b[1], b[2])
BY DEF Covered

(* Blocks may be exchanged for others that cover the same pages. *)
LEMMA Exchange ==
  ASSUME NEW B, Apart(B), NEW Out \in SUBSET B, NEW In, Apart(In),
         Covered(In) = Covered(Out)
  PROVE  Apart((B \ Out) \cup In) /\ Covered((B \ Out) \cup In) = Covered(B)
<1>. DEFINE N == (B \ Out) \cup In
<1>1. ASSUME NEW a \in B \ Out, NEW b \in In
      PROVE  Run(a[1], a[2]) \cap Run(b[1], b[2]) = {}
  <2>1. SUFFICES ASSUME NEW x \in Run(a[1], a[2]), x \in Run(b[1], b[2]) PROVE FALSE
    OBVIOUS
  <2>2. x \in Covered(Out)
    BY <2>1, CoveredHas
  <2>3. PICK c \in Out : x \in Run(c[1], c[2])
    BY <2>2, CoveredHas
  <2>4. c # a /\ c \in B /\ a \in B
    OBVIOUS
  <2>. QED
    BY <2>1, <2>3, <2>4 DEF Apart
<1>2. Apart(N)
  <2>1. ASSUME NEW b \in N PROVE b \in Nat \X Nat /\ Aligned(b[1], b[2])
    BY DEF Apart
  <2>2. ASSUME NEW a \in N, NEW b \in N, a # b
        PROVE  Run(a[1], a[2]) \cap Run(b[1], b[2]) = {}
    <3>1. CASE a \in B \ Out /\ b \in B \ Out
      BY <2>2, <3>1 DEF Apart
    <3>2. CASE a \in In /\ b \in In
      BY <2>2, <3>2 DEF Apart
    <3>3. CASE a \in B \ Out /\ b \in In
      BY <3>3, <1>1
    <3>4. CASE a \in In /\ b \in B \ Out
      <4>1. Run(b[1], b[2]) \cap Run(a[1], a[2]) = {}
        BY <3>4, <1>1
      <4>. QED
        BY <4>1
    <3>. QED
      BY <3>1, <3>2, <3>3, <3>4
  <2>. QED
    BY <2>1, <2>2 DEF Apart
<1>3. ASSUME NEW x PROVE x \in Covered(N) <=> x \in Covered(B)
  <2>1. x \in Covered(N) <=> x \in Covered(B \ Out) \/ x \in Covered(In)
    BY CoveredHas
  <2>2. x \in Covered(B) <=> x \in Covered(B \ Out) \/ x \in Covered(Out)
    BY CoveredHas
  <2>. QED
    BY <2>1, <2>2
<1>. QED
  BY <1>2, <1>3

(* The pieces of a block and the run they were cut down to. *)
LEMMA PiecesTile ==
  ASSUME NEW p, NEW o \in Nat, NEW f \in Nat, o <= f, Aligned(p, o)
  PROVE  /\ Apart({<<p, o>>} \cup Pieces(p, o, f))
         /\ Covered({<<p, o>>} \cup Pieces(p, o, f)) = Run(Block(p, f), f)
         /\ <<p, o>> \notin Pieces(p, o, f)
<1>. DEFINE S == {<<p, o>>} \cup Pieces(p, o, f)
<1>1. p \in Nat /\ Block(p, o) = p /\ p \in Run(p, o)
  BY BlockOfAligned DEF Aligned
<1>2. ASSUME NEW k \in o .. f - 1
      PROVE  /\ k \in Nat /\ o <= k /\ Aligned(Buddy(p, k), k) /\ Buddy(p, k) \in Nat
             /\ Run(Buddy(p, k), k) \cap Run(p, o) = {}
             /\ \A m \in o .. f - 1 : k # m => Run(Buddy(p, k), k) \cap Run(Buddy(p, m), m) = {}
  <2>1. k \in Nat /\ o <= k
    OBVIOUS
  <2>2. Aligned(Buddy(p, k), k) /\ Buddy(p, k) \in Nat
    BY <1>1, <2>1, Halves DEF Aligned
  <2>3. Run(Buddy(p, k), k) \cap Run(p, o) = {}
    BY <1>1, <2>1, PiecesApart
  <2>4. ASSUME NEW m \in o .. f - 1, k # m
        PROVE  Run(Buddy(p, k), k) \cap Run(Buddy(p, m), m) = {}
    <3>1. m \in Nat /\ o <= m
      OBVIOUS
    <3>2. CASE k < m
      BY <1>1, <2>1, <3>1, <3>2, PiecesApart
    <3>3. CASE m < k
      <4>1. Run(Buddy(p, m), m) \cap Run(Buddy(p, k), k) = {}
        BY <1>1, <2>1, <3>1, <3>3, PiecesApart
      <4>. QED
        BY <4>1
    <3>. QED
      BY <2>1, <2>4, <3>1, <3>2, <3>3
  <2>. QED
    BY <2>1, <2>2, <2>3, <2>4
<1>3. ASSUME NEW b \in Pieces(p, o, f)
      PROVE  \E k \in o .. f - 1 : b = <<Buddy(p, k), k>>
  BY DEF Pieces
<1>4. Apart(S)
  <2>1. ASSUME NEW b \in S PROVE b \in Nat \X Nat /\ Aligned(b[1], b[2])
    <3>1. CASE b = <<p, o>>
      BY <1>1, <3>1
    <3>2. CASE b \in Pieces(p, o, f)
      BY <3>2, <1>2, <1>3
    <3>. QED
      BY <3>1, <3>2
  <2>2. ASSUME NEW a \in S, NEW b \in S, a # b
        PROVE  Run(a[1], a[2]) \cap Run(b[1], b[2]) = {}
    <3>1. CASE a \in Pieces(p, o, f) /\ b \in Pieces(p, o, f)
      <4>1. PICK k \in o .. f - 1 : a = <<Buddy(p, k), k>>
        BY <3>1, <1>3
      <4>2. PICK m \in o .. f - 1 : b = <<Buddy(p, m), m>>
        BY <3>1, <1>3
      <4>. QED
        BY <2>2, <4>1, <4>2, <1>2
    <3>2. CASE a = <<p, o>> /\ b \in Pieces(p, o, f)
      <4>1. PICK m \in o .. f - 1 : b = <<Buddy(p, m), m>>
        BY <3>2, <1>3
      <4>2. Run(Buddy(p, m), m) \cap Run(p, o) = {}
        BY <1>2
      <4>. QED
        BY <3>2, <4>1, <4>2
    <3>3. CASE b = <<p, o>> /\ a \in Pieces(p, o, f)
      <4>1. PICK m \in o .. f - 1 : a = <<Buddy(p, m), m>>
        BY <3>3, <1>3
      <4>2. Run(Buddy(p, m), m) \cap Run(p, o) = {}
        BY <1>2
      <4>. QED
        BY <3>3, <4>1, <4>2
    <3>. QED
      BY <2>2, <3>1, <3>2, <3>3
  <2>. QED
    BY <2>1, <2>2 DEF Apart
<1>5. ASSUME NEW x PROVE x \in Covered(S) <=> x \in Run(Block(p, f), f)
  <2>1. x \in Covered(S) <=> x \in Run(p, o) \/ \E b \in Pieces(p, o, f) : x \in Run(b[1], b[2])
    <3>1. x \in Covered(S) <=> \E b \in S : x \in Run(b[1], b[2])
      BY CoveredHas
    <3>2. <<p, o>>[1] = p /\ <<p, o>>[2] = o
      OBVIOUS
    <3>. QED
      BY <3>1, <3>2
  <2>2. (\E b \in Pieces(p, o, f) : x \in Run(b[1], b[2]))
          <=> \E k \in o .. f - 1 : x \in Run(Buddy(p, k), k)
    <3>1. ASSUME NEW k \in o .. f - 1, x \in Run(Buddy(p, k), k)
          PROVE  \E b \in Pieces(p, o, f) : x \in Run(b[1], b[2])
      <4>1. <<Buddy(p, k), k>> \in Pieces(p, o, f)
        BY DEF Pieces
      <4>. QED
        BY <3>1, <4>1
    <3>2. ASSUME NEW b \in Pieces(p, o, f), x \in Run(b[1], b[2])
          PROVE  \E k \in o .. f - 1 : x \in Run(Buddy(p, k), k)
      BY <3>2, <1>3
    <3>. QED
      BY <3>1, <3>2
  <2>. QED
    BY <1>1, <2>1, <2>2, PiecesCover
<1>6. <<p, o>> \notin Pieces(p, o, f)
  <2>1. SUFFICES ASSUME <<p, o>> \in Pieces(p, o, f) PROVE FALSE
    OBVIOUS
  <2>2. PICK k \in o .. f - 1 : <<p, o>> = <<Buddy(p, k), k>>
    BY <2>1, <1>3
  <2>. QED
    BY <1>1, <1>2, <2>2
<1>. QED
  BY <1>4, <1>5, <1>6
-----------------------------------------------------------------------------
(* Free lists: what list_add and list_remove do to the set of their pages. *)

IsList(s, S) == s \in Seq(S) /\ IsInjective(s)

LEMMA ListHas ==
  ASSUME NEW S, NEW s \in Seq(S)
  PROVE  /\ Len(s) \in Nat /\ DOMAIN s = 1 .. Len(s)
         /\ \A i \in 1 .. Len(s) : s[i] \in S /\ s[i] \in ToSet(s)
         /\ \A x \in ToSet(s) : \E i \in 1 .. Len(s) : s[i] = x
         /\ ToSet(s) \subseteq S
<1>1. Len(s) \in Nat /\ DOMAIN s = 1 .. Len(s) /\ \A i \in 1 .. Len(s) : s[i] \in S
  BY LenProperties, ElementOfSeq
<1>. QED
  BY <1>1 DEF ToSet

(* A list by its entries: every element of M once. *)
Enumerates(r, M, S) ==
  /\ r \in Seq(S)
  /\ \A x \in M : \E i \in 1 .. Len(r) : r[i] = x
  /\ \A i \in 1 .. Len(r) : r[i] \in M
  /\ \A i, j \in 1 .. Len(r) : r[i] = r[j] => i = j

LEMMA ListFrom ==
  ASSUME NEW S, NEW r, NEW M, Enumerates(r, M, S)
  PROVE  IsList(r, S) /\ ToSet(r) = M
<1>1. DOMAIN r = 1 .. Len(r)
  BY ListHas DEF Enumerates
<1>. QED
  BY <1>1 DEF IsList, IsInjective, ToSet, Enumerates

LEMMA TailList ==
  ASSUME NEW S, NEW s, IsList(s, S), s # <<>>
  PROVE  /\ IsList(Tail(s), S) /\ Head(s) \in ToSet(s)
         /\ ToSet(Tail(s)) = ToSet(s) \ {Head(s)}
<1>1. s \in Seq(S) /\ \A i, j \in 1 .. Len(s) : s[i] = s[j] => i = j
  BY LenProperties DEF IsList, IsInjective
<1>2. /\ Tail(s) \in Seq(S) /\ Len(Tail(s)) = Len(s) - 1
      /\ \A i \in 1 .. Len(Tail(s)) : Tail(s)[i] = s[i + 1]
  BY <1>1, HeadTailProperties
<1>3. Head(s) = s[1] /\ Len(s) \in Nat /\ Len(s) # 0
  BY <1>1, EmptySeq, LenProperties, HeadTailProperties
<1>4. \A x \in ToSet(s) \ {Head(s)} : \E i \in 1 .. Len(Tail(s)) : Tail(s)[i] = x
  <2>1. SUFFICES ASSUME NEW x \in ToSet(s), x # Head(s)
                 PROVE  \E i \in 1 .. Len(Tail(s)) : Tail(s)[i] = x
    OBVIOUS
  <2>2. PICK i \in 1 .. Len(s) : s[i] = x
    BY <1>1, ListHas
  <2>3. i - 1 \in 1 .. Len(Tail(s)) /\ (i - 1) + 1 = i
    BY <1>2, <1>3, <2>1, <2>2
  <2>. QED
    BY <1>2, <2>2, <2>3
<1>5. \A i \in 1 .. Len(Tail(s)) : Tail(s)[i] \in ToSet(s) \ {Head(s)}
  <2>. TAKE i \in 1 .. Len(Tail(s))
  <2>1. i + 1 \in 1 .. Len(s) /\ 1 \in 1 .. Len(s) /\ i + 1 # 1
    BY <1>2, <1>3
  <2>2. s[i + 1] \in ToSet(s) /\ s[i + 1] # s[1]
    BY <1>1, <2>1, ListHas
  <2>. QED
    BY <1>2, <1>3, <2>2
<1>6. \A i, j \in 1 .. Len(Tail(s)) : Tail(s)[i] = Tail(s)[j] => i = j
  <2>. TAKE i, j \in 1 .. Len(Tail(s))
  <2>1. i + 1 \in 1 .. Len(s) /\ j + 1 \in 1 .. Len(s)
    BY <1>2, <1>3
  <2>. QED
    BY <1>1, <1>2, <2>1
<1>7. Head(s) \in ToSet(s)
  BY <1>1, <1>3, ListHas
<1>. DEFINE r == Tail(s)
            M == ToSet(s) \ {Head(s)}
<1>8. Enumerates(r, M, S)
  BY <1>2, <1>4, <1>5, <1>6 DEF Enumerates
<1>9. IsList(r, S) /\ ToSet(r) = M
  <2>. HIDE DEF r, M
  <2>. QED
    BY <1>8, ListFrom
<1>. QED
  BY <1>7, <1>9

LEMMA AddedList ==
  ASSUME NEW S, NEW s, IsList(s, S), NEW e \in S, e \notin ToSet(s)
  PROVE  IsList(<<e>> \o s, S) /\ ToSet(<<e>> \o s) = ToSet(s) \cup {e}
<1>. DEFINE r == <<e>> \o s
<1>1. s \in Seq(S) /\ Len(s) \in Nat /\ \A i, j \in 1 .. Len(s) : s[i] = s[j] => i = j
  BY LenProperties DEF IsList, IsInjective
<1>2. <<e>> \in Seq(S) /\ Len(<<e>>) = 1 /\ <<e>>[1] = e
  OBVIOUS
<1>3. /\ r \in Seq(S) /\ Len(r) = 1 + Len(s)
      /\ \A i \in 1 .. 1 + Len(s) : r[i] = IF i <= 1 THEN <<e>>[i] ELSE s[i - 1]
  BY <1>1, <1>2, ConcatProperties
<1>. HIDE DEF r
<1>4. r[1] = e /\ \A i \in 1 .. Len(s) : i + 1 \in 1 .. Len(r) /\ r[i + 1] = s[i]
  BY <1>1, <1>2, <1>3
<1>5. \A i \in 1 .. Len(r) : i = 1 \/ \E j \in 1 .. Len(s) : i = j + 1
  <2>. TAKE i \in 1 .. Len(r)
  <2>1. i = 1 \/ (i - 1 \in 1 .. Len(s) /\ i = (i - 1) + 1)
    BY <1>1, <1>3
  <2>. QED
    BY <2>1
<1>6. \A i \in 1 .. Len(s) : s[i] \in ToSet(s) /\ s[i] # e
  BY <1>1, ListHas
<1>7. \A x \in ToSet(s) \cup {e} : \E i \in 1 .. Len(r) : r[i] = x
  <2>1. 1 \in 1 .. Len(r)
    BY <1>1, <1>3
  <2>2. ASSUME NEW x \in ToSet(s) PROVE \E i \in 1 .. Len(r) : r[i] = x
    <3>1. PICK i \in 1 .. Len(s) : s[i] = x
      BY <1>1, ListHas
    <3>. QED
      BY <1>4, <3>1
  <2>. QED
    BY <1>4, <2>1, <2>2
<1>8. \A i \in 1 .. Len(r) : r[i] \in ToSet(s) \cup {e}
  BY <1>4, <1>5, <1>6, SMTT(60)
<1>9. \A i, j \in 1 .. Len(r) : r[i] = r[j] => i = j
  <2>. TAKE i, j \in 1 .. Len(r)
  <2>1. CASE i = 1 /\ j = 1
    BY <2>1
  <2>2. CASE i = 1 /\ \E m \in 1 .. Len(s) : j = m + 1
    BY <2>2, <1>4, <1>6
  <2>3. CASE j = 1 /\ \E m \in 1 .. Len(s) : i = m + 1
    BY <2>3, <1>4, <1>6
  <2>4. CASE (\E m \in 1 .. Len(s) : i = m + 1) /\ (\E n \in 1 .. Len(s) : j = n + 1)
    <3>1. PICK m \in 1 .. Len(s), n \in 1 .. Len(s) : i = m + 1 /\ j = n + 1
      BY <2>4
    <3>. QED
      BY <1>1, <1>4, <3>1
  <2>. QED
    BY <1>5, <2>1, <2>2, <2>3, <2>4
<1>. DEFINE M == ToSet(s) \cup {e}
<1>10. Enumerates(r, M, S)
  BY <1>3, <1>7, <1>8, <1>9 DEF Enumerates
<1>11. IsList(r, S) /\ ToSet(r) = M
  <2>. HIDE DEF M
  <2>. QED
    BY <1>10, ListFrom
<1>. QED
  BY <1>11 DEF r

(* list_remove of a page that is in the list. *)
LEMMA RemovedList ==
  ASSUME NEW S, NEW s, IsList(s, S), NEW e \in ToSet(s)
  PROVE  IsList(RemoveFirst(s, e), S) /\ ToSet(RemoveFirst(s, e)) = ToSet(s) \ {e}
<1>. DEFINE r == RemoveFirst(s, e)
            M == ToSet(s) \ {e}
<1>1. /\ s \in Seq(S) /\ Len(s) \in Nat
      /\ \A i, j \in 1 .. Len(s) : s[i] = s[j] => i = j
  BY LenProperties DEF IsList, IsInjective
<1>2. PICK k \in 1 .. Len(s) : s[k] = e
  BY <1>1, ListHas
<1>3. {i \in 1 .. Len(s) : s[i] = e} = {k}
  BY <1>1, <1>2
<1>4. Min({k}) = k
  BY <1>2 DEF Min
<1>5. SelectInSeq(s, LAMBDA v : v = e) = k
  BY <1>3, <1>4 DEF SelectInSeq
<1>6. r = RemoveAt(s, k)
  BY <1>2, <1>5 DEF RemoveFirst
<1>. DEFINE a == SubSeq(s, 1, k - 1)
            b == SubSeq(s, k + 1, Len(s))
<1>7. \A i \in 1 .. Len(s) : s[i] \in S
  BY <1>1, ListHas
<1>8. a \in Seq(S) /\ Len(a) = k - 1 /\ \A i \in 1 .. k - 1 : a[i] = s[i]
  <2>1. \A i \in 1 .. k - 1 : s[i] \in S
    BY <1>1, <1>7
  <2>. QED
    BY <1>1, <2>1, SubSeqProperties
<1>9. b \in Seq(S) /\ Len(b) = Len(s) - k /\ \A i \in 1 .. Len(s) - k : b[i] = s[k + i]
  <2>1. \A i \in k + 1 .. Len(s) : s[i] \in S
    BY <1>1, <1>7
  <2>2. /\ b \in Seq(S) /\ Len(b) = IF k + 1 <= Len(s) THEN Len(s) - (k + 1) + 1 ELSE 0
        /\ \A i \in 1 .. Len(s) - (k + 1) + 1 : b[i] = s[k + 1 + i - 1]
    BY <1>1, <2>1, SubSeqProperties
  <2>. QED
    BY <1>1, <2>2
<1>10. r = a \o b
  BY <1>6 DEF RemoveAt
<1>. HIDE DEF r, a, b
<1>11. /\ r \in Seq(S) /\ Len(r) = Len(s) - 1
       /\ \A i \in 1 .. Len(s) - 1 : r[i] = IF i < k THEN s[i] ELSE s[i + 1]
  <2>1. /\ a \o b \in Seq(S) /\ Len(a \o b) = Len(a) + Len(b)
        /\ \A i \in 1 .. Len(a) + Len(b) :
             (a \o b)[i] = IF i <= Len(a) THEN a[i] ELSE b[i - Len(a)]
    BY <1>8, <1>9, ConcatProperties
  <2>2. Len(a) + Len(b) = Len(s) - 1
    BY <1>1, <1>8, <1>9
  <2>3. ASSUME NEW i \in 1 .. Len(s) - 1 PROVE r[i] = IF i < k THEN s[i] ELSE s[i + 1]
    <3>1. r[i] = IF i <= Len(a) THEN a[i] ELSE b[i - Len(a)]
      BY <1>10, <2>1, <2>2
    <3>2. CASE i < k
      BY <1>1, <1>8, <3>1, <3>2
    <3>3. CASE ~(i < k)
      <4>1. i - (k - 1) \in 1 .. Len(s) - k /\ k + (i - (k - 1)) = i + 1 /\ ~(i <= k - 1)
        BY <1>1, <3>3
      <4>. QED
        BY <1>8, <1>9, <3>1, <3>3, <4>1
    <3>. QED
      BY <3>2, <3>3
  <2>. QED
    BY <1>10, <2>1, <2>2, <2>3
<1>12. \A x \in M : \E i \in 1 .. Len(r) : r[i] = x
  <2>1. SUFFICES ASSUME NEW x \in ToSet(s), x # e PROVE \E i \in 1 .. Len(r) : r[i] = x
    OBVIOUS
  <2>2. PICK j \in 1 .. Len(s) : s[j] = x
    BY <1>1, ListHas
  <2>3. CASE j < k
    <3>1. j \in 1 .. Len(s) - 1
      BY <1>1, <2>3
    <3>. QED
      BY <1>11, <2>2, <2>3, <3>1
  <2>4. CASE j > k
    <3>1. j - 1 \in 1 .. Len(s) - 1 /\ ~(j - 1 < k) /\ (j - 1) + 1 = j
      BY <1>1, <2>4
    <3>. QED
      BY <1>11, <2>2, <3>1
  <2>. QED
    BY <1>2, <2>1, <2>2, <2>3, <2>4
<1>13. \A i \in 1 .. Len(r) : r[i] \in M
  <2>. TAKE i \in 1 .. Len(r)
  <2>1. PICK j \in 1 .. Len(s) : j # k /\ r[i] = s[j]
    <3>1. CASE i < k
      BY <1>1, <1>11, <3>1
    <3>2. CASE ~(i < k)
      <4>1. i + 1 \in 1 .. Len(s) /\ i + 1 # k
        BY <1>1, <1>11, <3>2
      <4>. QED
        BY <1>11, <3>2, <4>1
    <3>. QED
      BY <3>1, <3>2
  <2>2. s[j] \in ToSet(s) /\ s[j] # e
    BY <1>1, <1>2, <2>1, ListHas
  <2>. QED
    BY <2>1, <2>2
<1>14. \A i, j \in 1 .. Len(r) : r[i] = r[j] => i = j
  <2>. SUFFICES ASSUME NEW i \in 1 .. Len(r), NEW j \in 1 .. Len(r), r[i] = r[j] PROVE i = j
    OBVIOUS
  <2>. DEFINE f(n) == IF n < k THEN n ELSE n + 1
  <2>1. \A n \in 1 .. Len(r) : f(n) \in 1 .. Len(s) /\ r[n] = s[f(n)]
    BY <1>1, <1>11, SMTT(60)
  <2>2. f(i) = f(j)
    <3>. HIDE DEF f
    <3>. QED
      BY <1>1, <2>1
  <2>. QED
    BY <1>1, <1>11, <2>2
<1>15. Enumerates(r, M, S)
  <2>. HIDE DEF M
  <2>. QED
    BY <1>11, <1>12, <1>13, <1>14 DEF Enumerates
<1>16. IsList(r, S) /\ ToSet(r) = M
  <2>. HIDE DEF M
  <2>. QED
    BY <1>15, ListFrom
<1>. QED
  BY <1>16 DEF r
-----------------------------------------------------------------------------
(* The invariant.  That blocks tile the region is not inductive:
   pmm_free_pages merges what order and flags say is a free block, so it is
   part of the invariant that they say so of free blocks only (what is stale
   in a larger block is told apart by the larger block being there).  That two
   free buddies are never left apart is what a refusal rests on. *)
RegionPages == StartPage .. EndPage - 1

Marked ==
  /\ \A b \in FreeBlocks : order[b[1]] = b[2] /\ flags[b[1]] = 0
  /\ \A h \in held : flags[h[1]] = 1
  /\ \A p \in Page : p \notin RegionPages => flags[p] = 1

NoBuddies ==
  \A b \in FreeBlocks :
    b[2] < MAX_ORDER - 1 => <<Buddy(b[1], b[2]), b[2]>> \notin FreeBlocks

PmmInv == TypeOK /\ BlocksTileRegion /\ Marked /\ NoBuddies

(* The same of the values of free_lists and held, before or after a step. *)
FreeIn(L) == UNION {{<<p, k>> : p \in ToSet(L[k])} : k \in Order}

Tiles(L, H) ==
  /\ \A k \in Order : IsList(L[k], Page)
  /\ Apart(FreeIn(L) \cup H)
  /\ FreeIn(L) \cap H = {}
  /\ Covered(FreeIn(L) \cup H) = RegionPages

LEMMA FreeHas ==
  ASSUME NEW L
  PROVE  /\ \A p, k : <<p, k>> \in FreeIn(L) <=> k \in Order /\ p \in ToSet(L[k])
         /\ \A b \in FreeIn(L) : b = <<b[1], b[2]>> /\ b[2] \in Order /\ b[1] \in ToSet(L[b[2]])
BY DEF FreeIn

LEMMA Sizes ==
  /\ RegionPages \subseteq Page /\ RegionPages \subseteq Nat
  /\ Order \subseteq Nat /\ Page \subseteq Nat
  /\ MAX_ORDER \in Nat /\ TotalPages \in Nat /\ MAX_ORDER - 1 \in Order
BY PmmAssumption DEF RegionPages, Page, Order

LEMMA TilesIs ==
  ASSUME NEW L \in [Order -> Seq(Page)], NEW H \in SUBSET (Page \X Order)
  PROVE  Tiles(L, H) <=>
           /\ \A k \in Order : IsInjective(L[k])
           /\ \A b \in FreeIn(L) \cup H : b[1] % 2^b[2] = 0
           /\ \A a, b \in FreeIn(L) \cup H : a # b => Run(a[1], a[2]) \cap Run(b[1], b[2]) = {}
           /\ FreeIn(L) \cap H = {}
           /\ UNION {Run(b[1], b[2]) : b \in FreeIn(L) \cup H} = StartPage .. EndPage - 1
<1>1. \A k \in Order : IsList(L[k], Page) <=> IsInjective(L[k])
  BY DEF IsList
<1>2. \A b \in FreeIn(L) : b[1] \in Page
  <2>. TAKE b \in FreeIn(L)
  <2>1. b[2] \in Order /\ b[1] \in ToSet(L[b[2]])
    BY FreeHas
  <2>. QED
    BY <2>1, ListHas
<1>3. \A b \in FreeIn(L) \cup H : b \in Nat \X Nat /\ b[1] \in Nat
  BY <1>2, FreeHas, Sizes
<1>4. \A b \in FreeIn(L) \cup H : Aligned(b[1], b[2]) <=> b[1] % 2^b[2] = 0
  BY <1>3 DEF Aligned
<1>. QED
  BY <1>1, <1>3, <1>4 DEF Tiles, Apart, Covered, RegionPages

LEMMA TilesHere == TypeOK => (BlocksTileRegion <=> Tiles(free_lists, held))
<1>1. FreeBlocks = FreeIn(free_lists)
  BY DEF FreeBlocks, FreeIn
<1>. QED
  BY <1>1, TilesIs, ZenonT(60) DEF TypeOK, BlocksTileRegion, Blocks

LEMMA TilesNext == TypeOK' => (BlocksTileRegion' <=> Tiles(free_lists', held'))
<1>1. FreeBlocks' = FreeIn(free_lists')
  BY DEF FreeBlocks, FreeIn
<1>. QED
  BY <1>1, TilesIs, ZenonT(60) DEF TypeOK, BlocksTileRegion, Blocks

(* What the invariant says of one block, and of two. *)
LEMMA OneBlock ==
  ASSUME PmmInv, NEW b \in Blocks
  PROVE  /\ b = <<b[1], b[2]>> /\ b[1] \in Page /\ b[2] \in Order
         /\ Aligned(b[1], b[2]) /\ b[1] \in Run(b[1], b[2])
         /\ Run(b[1], b[2]) \subseteq RegionPages
<1>1. Tiles(free_lists, held) /\ FreeBlocks = FreeIn(free_lists)
  BY TilesHere DEF PmmInv, FreeBlocks, FreeIn
<1>2. Aligned(b[1], b[2]) /\ b[2] \in Nat
  BY <1>1 DEF Tiles, Apart, Blocks
<1>3. Run(b[1], b[2]) \subseteq RegionPages
  BY <1>1 DEF Tiles, Covered, Blocks
<1>4. b[1] \in Run(b[1], b[2])
  BY <1>2, BlockOfAligned
<1>5. b = <<b[1], b[2]>> /\ b[2] \in Order
  BY <1>1, FreeHas DEF Blocks, PmmInv, TypeOK
<1>. QED
  BY <1>2, <1>3, <1>4, <1>5, Sizes

LEMMA TwoBlocks ==
  ASSUME PmmInv, NEW b \in Blocks, NEW c \in Blocks,
         NEW x, x \in Run(b[1], b[2]), x \in Run(c[1], c[2])
  PROVE  b = c
<1>1. Tiles(free_lists, held) /\ FreeBlocks = FreeIn(free_lists)
  BY TilesHere DEF PmmInv, FreeBlocks, FreeIn
<1>. QED
  BY <1>1 DEF Tiles, Apart, Blocks

LEMMA MergedIs ==
  ASSUME NEW p, NEW o \in Order
  PROVE  /\ Merged(p, o) \in o .. MAX_ORDER - 1
         /\ ~Mergeable(p, Merged(p, o))
         /\ \A k \in o .. Merged(p, o) - 1 : Mergeable(p, k)
<1>. DEFINE T == {f \in o .. MAX_ORDER - 1 : ~Mergeable(p, f)}
<1>1. o \in Nat /\ MAX_ORDER - 1 \in Nat /\ o <= MAX_ORDER - 1
  BY PmmAssumption DEF Order
<1>2. MAX_ORDER - 1 \in T
  <2>1. ~(MAX_ORDER - 1 < MAX_ORDER - 1) /\ MAX_ORDER - 1 \in o .. MAX_ORDER - 1
    BY <1>1
  <2>2. ~Mergeable(p, MAX_ORDER - 1)
    BY <2>1 DEF Mergeable
  <2>. QED
    BY <2>1, <2>2
<1>3. T \subseteq Nat
  BY <1>1
<1>4. PICK f \in T : \A j \in T : ~(j < f)
  BY <1>2, <1>3, LeastOf
<1>5. \A k \in o .. f - 1 : Mergeable(p, k)
  BY <1>1, <1>4
<1>6. \E g \in o .. MAX_ORDER - 1 : ~Mergeable(p, g) /\ \A k \in o .. g - 1 : Mergeable(p, k)
  BY <1>4, <1>5
<1>. QED
  BY <1>6 DEF Merged

-----------------------------------------------------------------------------
(* A buddy that pmm_free_pages takes for free heads a free block of that very
   size: a page of a larger block has the same parent as the block being
   freed, and would be in one block with it. *)
LEMMA BuddyIsListed ==
  ASSUME PmmInv, NEW p, NEW o, <<p, o>> \in held, NEW k \in Order, o <= k,
         Mergeable(p, k)
  PROVE  <<Buddy(p, k), k>> \in FreeBlocks
<1>. DEFINE c == Buddy(p, k)
            h == <<p, o>>
<1>1. /\ h \in Blocks /\ p \in Nat /\ o \in Nat /\ Aligned(p, o) /\ p \in Run(p, o)
      /\ k \in Nat /\ k + 1 \in Nat
  BY OneBlock, Sizes DEF Blocks
<1>2. Aligned(c, k) /\ c \in Nat /\ c \in Run(c, k)
  BY <1>1, Halves, BlockOfAligned DEF Aligned
<1>3. c \in Page /\ flags[c] = 0 /\ order[c] = k
  BY <1>1, <1>2, Sizes DEF Mergeable, Page
<1>4. c \in RegionPages
  BY <1>3 DEF PmmInv, Marked
<1>5. PICK b \in Blocks : c \in Run(b[1], b[2])
  BY <1>4, TilesHere, CoveredHas DEF PmmInv, Tiles, Blocks, FreeBlocks, FreeIn
<1>6. b = <<b[1], b[2]>> /\ b[1] \in Nat /\ b[2] \in Nat /\ Aligned(b[1], b[2])
  BY OneBlock, Sizes
<1>7. CASE c = b[1]
  <2>1. b \in FreeBlocks
    BY <1>3, <1>7 DEF Blocks, PmmInv, Marked
  <2>2. b[2] = k
    BY <1>3, <1>7, <2>1 DEF PmmInv, Marked
  <2>. QED
    BY <1>6, <1>7, <2>1, <2>2
<1>8. CASE c # b[1] /\ b[2] <= k
  <2>1. Aligned(c, b[2])
    BY <1>1, <1>2, <1>6, <1>8, AlignedBelow
  <2>2. Block(c, b[2]) = c
    BY <1>6, <2>1, BlockOfAligned
  <2>3. Block(c, b[2]) = b[1]
    BY <1>5, <1>6, BlockOfMember
  <2>. QED
    BY <1>8, <2>2, <2>3
<1>9. CASE c # b[1] /\ k < b[2]
  <2>1. k + 1 <= b[2]
    BY <1>1, <1>6, <1>9
  <2>2. Block(c, b[2]) = b[1]
    BY <1>5, <1>6, BlockOfMember
  <2>3. Run(Block(c, k + 1), k + 1) \subseteq Run(b[1], b[2])
    BY <1>1, <1>2, <1>6, <2>1, <2>2, BlocksNest
  <2>4. Block(c, k + 1) = Block(p, k + 1)
    BY <1>1, BuddyBack
  <2>5. p \in Run(Block(p, k + 1), k + 1)
    <3>1. Block(p, o) = p /\ o <= k + 1
      BY <1>1, BlockOfAligned
    <3>. QED
      BY <1>1, <3>1, BlocksNest
  <2>6. b = h
    BY <1>1, <2>3, <2>4, <2>5, TwoBlocks
  <2>7. o < o
    BY <1>1, <1>9, <2>6
  <2>. QED
    BY <1>1, <2>7
<1>. QED
  BY <1>1, <1>6, <1>7, <1>8, <1>9

LEMMA MergesFollows == PmmInv => MergesWhatIsListed
<1>. SUFFICES ASSUME PmmInv, NEW h \in held, NEW k \in h[2] .. Merged(h[1], h[2]) - 1
              PROVE  Buddy(h[1], k) \in ToSet(free_lists[k])
  BY DEF MergesWhatIsListed
<1>1. h = <<h[1], h[2]>> /\ h[2] \in Order /\ h[2] \in Nat
  BY OneBlock, Sizes DEF Blocks
<1>2. Merged(h[1], h[2]) \in h[2] .. MAX_ORDER - 1 /\ Mergeable(h[1], k)
  BY <1>1, MergedIs
<1>3. k \in Order /\ h[2] <= k
  BY <1>1, <1>2, Sizes DEF Order
<1>4. <<Buddy(h[1], k), k>> \in FreeBlocks
  BY <1>1, <1>2, <1>3, BuddyIsListed
<1>5. FreeBlocks = FreeIn(free_lists)
  BY DEF FreeBlocks, FreeIn
<1>. QED
  BY <1>4, <1>5, FreeHas

(* The smallest free block of an aligned run nobody has a page of: its buddy is
   in the run as well, and nothing but a free block of its size can be there. *)
LEMMA RefusedFollows == PmmInv => RefusedOnlyWhenFull
<1>. SUFFICES ASSUME PmmInv, NEW o \in Order, Source(o) = {},
                     NEW p \in StartPage .. EndPage - 2^o, p % 2^o = 0,
                     \A h \in held : Run(h[1], h[2]) \cap Run(p, o) = {}
              PROVE  FALSE
  BY DEF RefusedOnlyWhenFull
<1>1. /\ o \in Nat /\ 2^o \in Nat /\ 2^o > 0 /\ p \in Nat
      /\ StartPage \in Nat /\ EndPage \in Nat
  BY Powers, Sizes, PmmAssumption
<1>2. Aligned(p, o) /\ p \in Run(p, o)
  BY <1>1, BlockOfAligned DEF Aligned
<1>3. Run(p, o) \subseteq RegionPages
  BY <1>1 DEF Run, RegionPages
<1>4. ASSUME NEW x \in Run(p, o)
      PROVE  \E b \in FreeBlocks : x \in Run(b[1], b[2])
  <2>1. PICK b \in Blocks : x \in Run(b[1], b[2])
    BY <1>3, TilesHere, CoveredHas DEF PmmInv, Tiles, Blocks, FreeBlocks, FreeIn
  <2>. QED
    BY <2>1, <1>4 DEF Blocks
<1>5. ASSUME NEW b \in FreeBlocks PROVE b[2] < o
  <2>. DEFINE T == {i \in o .. MAX_ORDER - 1 : free_lists[i] # <<>>}
  <2>1. b[2] \in Order /\ b[1] \in ToSet(free_lists[b[2]])
    BY FreeHas DEF FreeBlocks, FreeIn
  <2>2. free_lists[b[2]] # <<>>
    BY <2>1 DEF ToSet
  <2>3. b[2] \in Nat /\ b[2] <= MAX_ORDER - 1 /\ MAX_ORDER \in Nat
    BY <2>1, PmmAssumption DEF Order
  <2>4. ASSUME o <= b[2] PROVE FALSE
    <3>1. b[2] \in T /\ T \subseteq Nat
      BY <1>1, <2>2, <2>3, <2>4
    <3>2. PICK i \in T : \A j \in T : ~(j < i)
      BY <3>1, LeastOf
    <3>3. \A j \in o .. i - 1 : j \in o .. MAX_ORDER - 1 /\ j < i
      BY <1>1, <2>3, <3>2
    <3>4. \A j \in o .. i - 1 : free_lists[j] = <<>>
      BY <3>2, <3>3
    <3>5. i \in Source(o)
      BY <3>2, <3>4 DEF Source
    <3>. QED
      BY <3>5
  <2>. QED
    BY <1>1, <2>3, <2>4
<1>. DEFINE Inside == {b[2] : b \in {a \in FreeBlocks : Run(a[1], a[2]) \subseteq Run(p, o)}}
<1>6. ASSUME NEW b \in FreeBlocks, NEW x \in Run(b[1], b[2]), x \in Run(p, o)
      PROVE  /\ b \in Blocks /\ b = <<b[1], b[2]>> /\ b[1] \in Nat /\ b[2] \in Nat
             /\ Aligned(b[1], b[2])
             /\ b[2] < o /\ Run(b[1], b[2]) \subseteq Run(p, o)
  <2>1. b \in Blocks /\ b = <<b[1], b[2]>> /\ Aligned(b[1], b[2]) /\ b[2] \in Nat /\ b[1] \in Nat
    BY OneBlock, Sizes DEF Blocks
  <2>. QED
    BY <1>1, <1>2, <1>5, <1>6, <2>1, NestedOrApart
<1>7. Inside # {} /\ Inside \subseteq Nat
  <2>1. PICK b \in FreeBlocks : p \in Run(b[1], b[2])
    BY <1>2, <1>4
  <2>2. Run(b[1], b[2]) \subseteq Run(p, o)
    BY <1>2, <1>6, <2>1
  <2>3. \A a \in FreeBlocks : a[2] \in Nat
    BY OneBlock, Sizes DEF Blocks
  <2>. QED
    BY <2>1, <2>2, <2>3
<1>8. PICK k \in Inside : \A j \in Inside : ~(j < k)
  BY <1>7, LeastOf
<1>9. PICK b \in FreeBlocks : b[2] = k /\ Run(b[1], b[2]) \subseteq Run(p, o)
  BY <1>8
<1>. HIDE DEF Inside
<1>10. b[1] \in Run(b[1], k) /\ b \in Blocks
  BY <1>9, OneBlock DEF Blocks
<1>11. /\ b = <<b[1], k>> /\ b[1] \in Nat /\ k \in Nat /\ Aligned(b[1], k) /\ k < o
       /\ k + 1 \in Nat /\ k + 1 <= o
  BY <1>1, <1>6, <1>9, <1>10
<1>. DEFINE c == Buddy(b[1], k)
<1>12. Aligned(c, k) /\ c \in Nat /\ c \in Run(c, k) /\ Block(b[1], k) = b[1]
  BY <1>11, Halves, BlockOfAligned DEF Aligned
<1>13. Block(b[1], o) = p
  BY <1>1, <1>2, <1>9, <1>10, BlockOfMember
<1>14. Run(Block(b[1], k + 1), k + 1) \subseteq Run(p, o)
  BY <1>1, <1>11, <1>13, BlocksNest
<1>15. c \in Run(p, o)
  BY <1>11, <1>12, <1>14, HalvesRun
<1>16. PICK d \in FreeBlocks : c \in Run(d[1], d[2])
  BY <1>4, <1>15
<1>17. /\ d \in Blocks /\ d = <<d[1], d[2]>> /\ d[1] \in Nat /\ d[2] \in Nat
       /\ Aligned(d[1], d[2]) /\ Run(d[1], d[2]) \subseteq Run(p, o)
  BY <1>6, <1>15, <1>16
<1>18. ~(d[2] < k)
  BY <1>8, <1>17 DEF Inside
<1>19. Block(c, d[2]) = d[1]
  BY <1>16, <1>17, BlockOfMember
<1>20. CASE d[2] = k
  <2>1. d[1] = c
    BY <1>11, <1>12, <1>19, <1>20, BlockOfAligned
  <2>2. k < MAX_ORDER - 1
    BY <1>1, <1>11, Sizes DEF Order
  <2>. QED
    BY <1>9, <1>11, <1>16, <1>17, <1>20, <2>1, <2>2 DEF PmmInv, NoBuddies
<1>21. CASE k < d[2]
  <2>1. k + 1 <= d[2]
    BY <1>11, <1>17, <1>21
  <2>2. Run(Block(c, k + 1), k + 1) \subseteq Run(d[1], d[2])
    BY <1>11, <1>12, <1>17, <1>19, <2>1, BlocksNest
  <2>3. b[1] \in Run(Block(b[1], k + 1), k + 1)
    BY <1>10, <1>11, <1>12, HalvesRun
  <2>4. b[1] \in Run(d[1], d[2])
    BY <1>11, <2>2, <2>3, BuddyBack
  <2>5. b = d
    BY <1>9, <1>10, <1>17, <2>4, TwoBlocks
  <2>. QED
    BY <1>9, <1>11, <1>21, <2>5
<1>. QED
  BY <1>11, <1>17, <1>18, <1>20, <1>21
-----------------------------------------------------------------------------
(* pmm_alloc_pages. *)

(* The state after pmm_alloc_pages(o) has split the first block of list i. *)
AllocFrom(o, i, page) ==
  /\ free_lists' = [k \in Order |->
       IF k = i THEN Tail(free_lists[i])
       ELSE IF k \in o .. i - 1 THEN <<Half(page, k)>> \o free_lists[k]
       ELSE free_lists[k]]
  /\ order' = [p \in Page |-> CutOrder(page, o, i, p)]
  /\ flags' = [p \in Page |->
       IF p = page THEN 1
       ELSE IF \E k \in o .. i - 1 : p = Half(page, k) THEN 0
       ELSE flags[p]]
  /\ held' = held \cup {<<page, o>>}

LEMMA SourceHas ==
  ASSUME PmmInv, NEW o \in Order, NEW i \in Source(o), NEW page,
         page = Head(free_lists[i])
  PROVE  /\ i \in Order /\ o <= i /\ free_lists[i] # <<>>
         /\ <<page, i>> \in FreeBlocks /\ <<page, i>> \in Blocks
         /\ page \in Page /\ Aligned(page, i) /\ Run(page, i) \subseteq RegionPages
<1>1. i \in Order /\ o <= i /\ free_lists[i] # <<>>
  BY Sizes DEF Source, Order
<1>2. IsList(free_lists[i], Page)
  BY <1>1, TilesHere DEF PmmInv, Tiles
<1>3. page \in ToSet(free_lists[i])
  BY <1>1, <1>2, TailList
<1>4. <<page, i>> \in FreeBlocks /\ <<page, i>> \in Blocks
  BY <1>1, <1>3, FreeHas DEF FreeBlocks, FreeIn, Blocks
<1>. QED
  BY <1>1, <1>4, OneBlock

(* The upper halves are the buddies of the page that stays, lie in the region
   and are in no free list. *)
LEMMA HalvesOf ==
  ASSUME PmmInv, NEW o \in Order, NEW i \in Source(o), NEW page,
         page = Head(free_lists[i]), NEW k \in o .. i - 1
  PROVE  /\ k \in Order /\ k < i /\ k \in Nat
         /\ Half(page, k) = Buddy(page, k) /\ Buddy(Half(page, k), k) = page
         /\ Aligned(Half(page, k), k)
         /\ Half(page, k) \in Run(page, i) /\ Half(page, k) # page
         /\ Half(page, k) \in Page
         /\ Half(page, k) \notin ToSet(free_lists[k])
<1>1. /\ i \in Order /\ o <= i /\ <<page, i>> \in Blocks /\ page \in Nat
      /\ Aligned(page, i) /\ Run(page, i) \subseteq RegionPages
  BY SourceHas, Sizes
<1>2. k \in Order /\ k < i /\ k \in Nat /\ i \in Nat /\ k + 1 \in Nat /\ k + 1 <= i
  BY <1>1, Sizes DEF Order
<1>3. Aligned(page, k + 1) /\ Aligned(page, k)
  BY <1>1, <1>2, AlignedBelow
<1>4. /\ Half(page, k) = Buddy(page, k) /\ Buddy(Half(page, k), k) = page
      /\ Aligned(Half(page, k), k)
  BY <1>2, <1>3, UpperHalf
<1>5. Block(page, k + 1) = page /\ Block(page, k) = page /\ Block(page, i) = page
  BY <1>1, <1>2, <1>3, BlockOfAligned
<1>6. Half(page, k) \in Run(Half(page, k), k)
  BY <1>2, <1>4, BlockOfAligned
<1>7. Half(page, k) \in Run(page, k + 1) /\ Half(page, k) # page
  BY <1>1, <1>2, <1>4, <1>5, <1>6, HalvesRun
<1>8. Half(page, k) \in Run(page, i)
  BY <1>1, <1>2, <1>5, <1>7, BlocksNest
<1>9. Half(page, k) \notin ToSet(free_lists[k])
  <2>1. SUFFICES ASSUME Half(page, k) \in ToSet(free_lists[k]) PROVE FALSE
    OBVIOUS
  <2>2. <<Half(page, k), k>> \in Blocks
    BY <1>2, <2>1, FreeHas DEF FreeBlocks, FreeIn, Blocks
  <2>3. <<Half(page, k), k>> = <<page, i>>
    BY <1>1, <1>6, <1>8, <2>2, TwoBlocks
  <2>. QED
    BY <1>7, <2>3
<1>. QED
  BY <1>1, <1>2, <1>4, <1>7, <1>8, <1>9, Sizes

LEMMA AllocLists ==
  ASSUME PmmInv, NEW o \in Order, NEW i \in Source(o), NEW page,
         page = Head(free_lists[i]), AllocFrom(o, i, page)
  PROVE  /\ \A k \in Order : IsList(free_lists'[k], Page)
         /\ FreeIn(free_lists') = (FreeBlocks \ {<<page, i>>}) \cup Pieces(page, o, i)
<1>1. /\ i \in Order /\ o <= i /\ free_lists[i] # <<>> /\ o \in Nat /\ i \in Nat
  BY SourceHas, Sizes
<1>2. \A k \in Order : IsList(free_lists[k], Page)
  BY TilesHere DEF PmmInv, Tiles
<1>3. ASSUME NEW k \in Order
      PROVE  /\ IsList(free_lists'[k], Page)
             /\ ToSet(free_lists'[k]) = IF k = i THEN ToSet(free_lists[k]) \ {page}
                                        ELSE IF k \in o .. i - 1
                                          THEN ToSet(free_lists[k]) \cup {Buddy(page, k)}
                                        ELSE ToSet(free_lists[k])
  <2>1. CASE k = i
    <3>1. free_lists'[k] = Tail(free_lists[i])
      BY <2>1 DEF AllocFrom
    <3>2. IsList(free_lists[i], Page) /\ free_lists[i] # <<>>
      BY <1>1, <1>2
    <3>3. /\ IsList(Tail(free_lists[i]), Page)
          /\ ToSet(Tail(free_lists[i])) = ToSet(free_lists[i]) \ {page}
      BY <3>2, TailList
    <3>. QED
      BY <2>1, <3>1, <3>3
  <2>2. CASE k \in o .. i - 1
    <3>1. k # i
      BY <1>1, <2>2
    <3>2. free_lists'[k] = <<Half(page, k)>> \o free_lists[k]
      BY <2>2, <3>1 DEF AllocFrom
    <3>3. Half(page, k) = Buddy(page, k) /\ Half(page, k) \in Page
          /\ Half(page, k) \notin ToSet(free_lists[k])
      BY <2>2, HalvesOf
    <3>. QED
      BY <1>2, <2>2, <3>1, <3>2, <3>3, AddedList
  <2>3. CASE k # i /\ k \notin o .. i - 1
    BY <1>2, <2>3 DEF AllocFrom
  <2>. QED
    BY <2>1, <2>2, <2>3
<1>. DEFINE N == (FreeBlocks \ {<<page, i>>}) \cup Pieces(page, o, i)
<1>4. ASSUME NEW p, NEW k \in Order PROVE <<p, k>> \in FreeIn(free_lists') <=> <<p, k>> \in N
  <2>1. <<p, k>> \in FreeIn(free_lists') <=> p \in ToSet(free_lists'[k])
    BY FreeHas
  <2>2. <<p, k>> \in FreeBlocks <=> p \in ToSet(free_lists[k])
    BY FreeHas DEF FreeBlocks, FreeIn
  <2>3. <<p, k>> \in Pieces(page, o, i) <=> k \in o .. i - 1 /\ p = Buddy(page, k)
    BY DEF Pieces
  <2>4. <<p, k>> = <<page, i>> <=> p = page /\ k = i
    OBVIOUS
  <2>5. k = i => k \notin o .. i - 1
    BY <1>1
  <2>. QED
    BY <1>3, <2>1, <2>2, <2>3, <2>4, <2>5
<1>5. \A b \in FreeIn(free_lists') : b = <<b[1], b[2]>> /\ b[2] \in Order
  BY FreeHas
<1>6. \A b \in N : b = <<b[1], b[2]>> /\ b[2] \in Order
  <2>1. ASSUME NEW b \in FreeBlocks PROVE b = <<b[1], b[2]>> /\ b[2] \in Order
    BY FreeHas DEF FreeBlocks, FreeIn
  <2>2. ASSUME NEW b \in Pieces(page, o, i) PROVE b = <<b[1], b[2]>> /\ b[2] \in Order
    <3>1. PICK k \in o .. i - 1 : b = <<Buddy(page, k), k>>
      BY DEF Pieces
    <3>. QED
      BY <3>1, HalvesOf
  <2>. QED
    BY <2>1, <2>2
<1>7. FreeIn(free_lists') = N
  <2>. HIDE DEF N
  <2>1. \A b : b \in FreeIn(free_lists') => b \in N
    BY <1>4, <1>5
  <2>2. \A b : b \in N => b \in FreeIn(free_lists')
    BY <1>4, <1>6
  <2>. QED
    BY <2>1, <2>2
<1>. QED
  BY <1>3, <1>7

LEMMA AllocTiles ==
  ASSUME PmmInv, NEW o \in Order, NEW i \in Source(o), NEW page,
         page = Head(free_lists[i]), AllocFrom(o, i, page)
  PROVE  Tiles(free_lists', held')
<1>. DEFINE Out == {<<page, i>>}
            In  == {<<page, o>>} \cup Pieces(page, o, i)
            F   == (FreeBlocks \ Out) \cup Pieces(page, o, i)
<1>1. Tiles(free_lists, held) /\ FreeBlocks = FreeIn(free_lists)
  BY TilesHere DEF PmmInv, FreeBlocks, FreeIn
<1>2. /\ i \in Nat /\ o \in Nat /\ o <= i /\ <<page, i>> \in FreeBlocks
      /\ Aligned(page, i) /\ Aligned(page, o) /\ Block(page, i) = page
  BY SourceHas, AlignedBelow, BlockOfAligned, Sizes
<1>3. (\A k \in Order : IsList(free_lists'[k], Page)) /\ FreeIn(free_lists') = F
  BY AllocLists
<1>4. held' = held \cup {<<page, o>>}
  BY DEF AllocFrom
<1>5. <<page, i>> \notin held
  BY <1>1, <1>2 DEF Tiles
<1>6. F \cup held' = (Blocks \ Out) \cup In
  BY <1>4, <1>5 DEF Blocks
<1>7. Apart(In) /\ Covered(In) = Run(page, i) /\ <<page, o>> \notin Pieces(page, o, i)
  BY <1>2, PiecesTile
<1>8. Covered(Out) = Run(page, i)
  BY DEF Covered
<1>9. Apart(Blocks) /\ Covered(Blocks) = RegionPages /\ Out \in SUBSET Blocks
  BY <1>1, <1>2 DEF Tiles, Blocks
<1>10. Apart((Blocks \ Out) \cup In) /\ Covered((Blocks \ Out) \cup In) = RegionPages
  <2>. HIDE DEF In, Out
  <2>. QED
    BY <1>7, <1>8, <1>9, Exchange
<1>11. F \cap held' = {}
  <2>1. ASSUME NEW b \in F, b \in held' PROVE FALSE
    <3>1. CASE b \in FreeBlocks \ Out /\ b = <<page, o>>
      <4>1. b \in Blocks /\ <<page, i>> \in Blocks /\ page \in Run(page, i) /\ page \in Run(page, o)
        BY <1>2, <3>1, BlockOfAligned DEF Blocks
      <4>2. b = <<page, i>>
        BY <3>1, <4>1, TwoBlocks
      <4>. QED
        BY <3>1, <4>2
    <3>2. CASE b \in FreeBlocks \ Out /\ b \in held
      BY <1>1, <3>2 DEF Tiles
    <3>3. CASE b \in Pieces(page, o, i) /\ b \in held
      <4>1. PICK k \in o .. i - 1 : b = <<Buddy(page, k), k>>
        BY <3>3 DEF Pieces
      <4>2. /\ k < i /\ k \in Nat /\ Half(page, k) \in Run(page, i)
            /\ Half(page, k) \in Run(Half(page, k), k) /\ b = <<Half(page, k), k>>
        BY <4>1, HalvesOf, BlockOfAligned
      <4>3. b \in Blocks /\ <<page, i>> \in Blocks
        BY <1>2, <3>3 DEF Blocks
      <4>4. b = <<page, i>>
        BY <4>2, <4>3, TwoBlocks
      <4>. QED
        BY <1>2, <4>2, <4>4
    <3>4. CASE b \in Pieces(page, o, i) /\ b = <<page, o>>
      BY <1>7, <3>4
    <3>. QED
      BY <1>4, <2>1, <3>1, <3>2, <3>3, <3>4
  <2>. QED
    BY <2>1
<1>. HIDE DEF F, In, Out
<1>. QED
  BY <1>3, <1>6, <1>10, <1>11 DEF Tiles

(* A page a split gives an order to gets the one it was cut at. *)
LEMMA CutIs ==
  ASSUME PmmInv, NEW o \in Order, NEW i \in Source(o), NEW page,
         page = Head(free_lists[i])
  PROVE  /\ \A k \in o .. i - 1 : CutOrder(page, o, i, Half(page, k)) = k
         /\ \A p : p # page /\ (\A k \in o .. i - 1 : p # Half(page, k))
                     => CutOrder(page, o, i, p) = order[p]
<1>1. ASSUME NEW k \in o .. i - 1, NEW m \in o .. i - 1, Half(page, k) = Half(page, m)
      PROVE  k = m
  <2>1. k \in Nat /\ m \in Nat /\ page \in Nat
    BY HalvesOf, SourceHas, Sizes
  <2>2. 2^k \in Nat /\ 2^m \in Nat /\ 2^k = 2^m
    BY <1>1, <2>1, Powers DEF Half
  <2>3. ~(k < m) /\ ~(m < k)
    BY <2>1, <2>2, Powers
  <2>. QED
    BY <2>1, <2>3
<1>2. \A k \in o .. i - 1 : Half(page, k) # page
  BY HalvesOf
<1>3. ASSUME NEW k \in o .. i - 1 PROVE CutOrder(page, o, i, Half(page, k)) = k
  <2>1. (CHOOSE m \in o .. i - 1 : Half(page, k) = Half(page, m)) = k
    BY <1>1
  <2>. QED
    BY <1>2, <2>1 DEF CutOrder
<1>. QED
  BY <1>3 DEF CutOrder

LEMMA AllocType ==
  ASSUME PmmInv, NEW o \in Order, NEW i \in Source(o), NEW page,
         page = Head(free_lists[i]), AllocFrom(o, i, page)
  PROVE  TypeOK'
<1>1. page \in Page
  BY SourceHas
<1>2. ASSUME NEW p \in Page PROVE CutOrder(page, o, i, p) \in Order
  <2>1. CASE p = page
    BY <2>1 DEF CutOrder
  <2>2. CASE p # page /\ \E k \in o .. i - 1 : p = Half(page, k)
    <3>1. PICK k \in o .. i - 1 : p = Half(page, k)
      BY <2>2
    <3>. QED
      BY <3>1, CutIs, HalvesOf
  <2>3. CASE p # page /\ ~\E k \in o .. i - 1 : p = Half(page, k)
    BY <2>3 DEF CutOrder, PmmInv, TypeOK
  <2>. QED
    BY <2>1, <2>2, <2>3
<1>3. order' \in [Page -> Order]
  BY <1>2 DEF AllocFrom
<1>4. flags' \in [Page -> {0, 1}]
  BY DEF AllocFrom, PmmInv, TypeOK
<1>5. free_lists' \in [Order -> Seq(Page)]
  <2>1. \A k \in Order : free_lists'[k] \in Seq(Page)
    BY AllocLists DEF IsList
  <2>2. free_lists' = [k \in Order |-> free_lists'[k]]
    BY DEF AllocFrom
  <2>. QED
    BY <2>1, <2>2
<1>6. held' \subseteq Page \X Order
  BY <1>1 DEF AllocFrom, PmmInv, TypeOK
<1>. QED
  BY <1>3, <1>4, <1>5, <1>6 DEF TypeOK

LEMMA AllocMarks ==
  ASSUME PmmInv, NEW o \in Order, NEW i \in Source(o), NEW page,
         page = Head(free_lists[i]), AllocFrom(o, i, page)
  PROVE  Marked'
<1>1. FreeBlocks' = (FreeBlocks \ {<<page, i>>}) \cup Pieces(page, o, i)
  BY AllocLists DEF FreeBlocks, FreeIn
<1>2. /\ <<page, i>> \in FreeBlocks /\ <<page, i>> \in Blocks
      /\ page \in Page /\ page \in Run(page, i) /\ Run(page, i) \subseteq RegionPages
  BY SourceHas, OneBlock
<1>3. ASSUME NEW b \in Blocks, b # <<page, i>>
      PROVE  /\ b[1] \in Page /\ b[1] # page /\ \A k \in o .. i - 1 : b[1] # Half(page, k)
             /\ flags'[b[1]] = flags[b[1]] /\ order'[b[1]] = order[b[1]]
  <2>1. b[1] \in Page /\ b[1] \in Run(b[1], b[2])
    BY OneBlock
  <2>2. b[1] \notin Run(page, i)
    BY <1>2, <1>3, <2>1, TwoBlocks
  <2>3. b[1] # page /\ \A k \in o .. i - 1 : b[1] # Half(page, k)
    BY <1>2, <2>2, HalvesOf
  <2>. QED
    BY <2>1, <2>3, CutIs DEF AllocFrom
<1>4. ASSUME NEW b \in FreeBlocks' PROVE order'[b[1]] = b[2] /\ flags'[b[1]] = 0
  <2>1. CASE b \in FreeBlocks /\ b # <<page, i>>
    BY <2>1, <1>3 DEF Blocks, PmmInv, Marked
  <2>2. CASE b \in Pieces(page, o, i)
    <3>1. PICK k \in o .. i - 1 : b = <<Buddy(page, k), k>>
      BY <2>2 DEF Pieces
    <3>2. b[1] = Half(page, k) /\ b[2] = k /\ b[1] \in Page /\ b[1] # page
      BY <3>1, HalvesOf
    <3>. QED
      BY <3>2, CutIs DEF AllocFrom
  <2>. QED
    BY <1>1, <2>1, <2>2
<1>5. ASSUME NEW h \in held' PROVE flags'[h[1]] = 1
  <2>1. CASE h = <<page, o>>
    BY <1>2, <2>1 DEF AllocFrom
  <2>2. CASE h \in held
    <3>1. h \in Blocks /\ h # <<page, i>>
      BY <1>2, <2>2, TilesHere DEF Blocks, PmmInv, BlocksTileRegion
    <3>. QED
      BY <1>3, <2>2, <3>1 DEF PmmInv, Marked
  <2>. QED
    BY <2>1, <2>2 DEF AllocFrom
<1>6. ASSUME NEW p \in Page, p \notin RegionPages PROVE flags'[p] = 1
  <2>1. p # page /\ \A k \in o .. i - 1 : p # Half(page, k)
    BY <1>2, <1>6, HalvesOf
  <2>. QED
    BY <1>6, <2>1 DEF AllocFrom, PmmInv, Marked
<1>. QED
  BY <1>4, <1>5, <1>6 DEF Marked, RegionPages

(* No two buddies stay apart: the buddy of an upper half starts with the page
   that was handed out. *)
LEMMA AllocBuddies ==
  ASSUME PmmInv, NEW o \in Order, NEW i \in Source(o), NEW page,
         page = Head(free_lists[i]), AllocFrom(o, i, page)
  PROVE  NoBuddies'
<1>1. FreeBlocks' = (FreeBlocks \ {<<page, i>>}) \cup Pieces(page, o, i)
  BY AllocLists DEF FreeBlocks, FreeIn
<1>2. /\ <<page, i>> \in Blocks /\ page \in Run(page, i) /\ page \in Nat
  BY SourceHas, OneBlock, Sizes
<1>3. ASSUME NEW k \in Nat PROVE <<page, k>> \notin FreeBlocks'
  <2>1. SUFFICES ASSUME <<page, k>> \in FreeBlocks' PROVE FALSE
    OBVIOUS
  <2>2. CASE <<page, k>> \in FreeBlocks /\ <<page, k>> # <<page, i>>
    <3>1. <<page, k>> \in Blocks
      BY <2>2 DEF Blocks
    <3>2. page \in Run(page, k)
      BY <3>1, OneBlock
    <3>. QED
      BY <1>2, <2>2, <3>1, <3>2, TwoBlocks
  <2>3. CASE <<page, k>> \in Pieces(page, o, i)
    <3>1. PICK m \in o .. i - 1 : <<page, k>> = <<Buddy(page, m), m>>
      BY <2>3 DEF Pieces
    <3>. QED
      BY <3>1, HalvesOf
  <2>. QED
    BY <1>1, <2>1, <2>2, <2>3
<1>4. SUFFICES ASSUME NEW b \in FreeBlocks', b[2] < MAX_ORDER - 1,
                      <<Buddy(b[1], b[2]), b[2]>> \in FreeBlocks'
               PROVE  FALSE
  BY DEF NoBuddies
<1>. DEFINE c == <<Buddy(b[1], b[2]), b[2]>>
<1>5. ASSUME NEW d \in Pieces(page, o, i)
      PROVE  d[2] \in Nat /\ Buddy(d[1], d[2]) = page
  <2>1. PICK k \in o .. i - 1 : d = <<Buddy(page, k), k>>
    BY DEF Pieces
  <2>. QED
    BY <2>1, HalvesOf
<1>6. CASE b \in Pieces(page, o, i)
  BY <1>3, <1>4, <1>5, <1>6
<1>7. CASE b \in FreeBlocks /\ c \in Pieces(page, o, i)
  <2>1. /\ b = <<b[1], b[2]>> /\ b[1] \in Nat /\ b[2] \in Nat
        /\ Block(b[1], b[2]) = b[1]
    BY <1>7, OneBlock, BlockOfAligned, Sizes DEF Blocks
  <2>2. Buddy(c[1], c[2]) = page /\ c[1] = Buddy(b[1], b[2]) /\ c[2] = b[2]
    BY <1>5, <1>7
  <2>3. b[1] = page
    BY <2>1, <2>2, BuddyBack
  <2>. QED
    BY <1>3, <1>4, <2>1, <2>3
<1>8. CASE b \in FreeBlocks /\ c \in FreeBlocks
  BY <1>4, <1>8 DEF PmmInv, NoBuddies
<1>. QED
  BY <1>1, <1>4, <1>6, <1>7, <1>8

LEMMA AllocInv ==
  ASSUME PmmInv, NEW o \in Order, Alloc(o)
  PROVE  PmmInv'
<1>1. PICK i \in Source(o) : AllocFrom(o, i, Head(free_lists[i]))
  BY DEF Alloc, AllocFrom
<1>2. TypeOK' /\ Marked' /\ NoBuddies' /\ Tiles(free_lists', held')
  BY <1>1, AllocType, AllocMarks, AllocBuddies, AllocTiles
<1>. QED
  BY <1>2, TilesNext DEF PmmInv
-----------------------------------------------------------------------------
(* pmm_free_pages: the mirror image, the pieces become one block. *)

LEMMA FreeHasPieces ==
  ASSUME PmmInv, NEW p, NEW o, <<p, o>> \in held, NEW f, f = Merged(p, o)
  PROVE  /\ o \in Order /\ f \in Order /\ o <= f /\ p \in Nat
         /\ Aligned(p, o) /\ p \in Run(p, o) /\ <<p, o>> \in Blocks
         /\ Pieces(p, o, f) \subseteq FreeBlocks
         /\ Aligned(Block(p, f), f)
         /\ p \in Run(Block(p, f), f) /\ Block(p, f) \in Run(Block(p, f), f)
         /\ Run(Block(p, f), f) \subseteq RegionPages
<1>1. /\ o \in Order /\ o \in Nat /\ p \in Nat /\ Aligned(p, o) /\ p \in Run(p, o)
      /\ <<p, o>> \in Blocks /\ Run(p, o) \subseteq RegionPages
  BY OneBlock, Sizes DEF Blocks
<1>2. f \in o .. MAX_ORDER - 1 /\ \A k \in o .. f - 1 : Mergeable(p, k)
  BY <1>1, MergedIs
<1>3. f \in Order /\ f \in Nat /\ o <= f /\ \A k \in o .. f - 1 : k \in Order /\ o <= k
  BY <1>1, <1>2, Sizes DEF Order
<1>4. Pieces(p, o, f) \subseteq FreeBlocks
  BY <1>2, <1>3, BuddyIsListed DEF Pieces
<1>5. Aligned(Block(p, f), f) /\ Block(p, f) \in Run(Block(p, f), f)
  BY <1>1, <1>3, BlockAround, BlockOfAligned
<1>6. p \in Run(Block(p, f), f)
  BY <1>1, <1>3, BlockOfAligned, BlocksNest
<1>7. Run(Block(p, f), f) \subseteq RegionPages
  <2>1. Covered({<<p, o>>} \cup Pieces(p, o, f)) = Run(Block(p, f), f)
    BY <1>1, <1>3, PiecesTile
  <2>2. ASSUME NEW x \in Run(Block(p, f), f) PROVE x \in RegionPages
    <3>1. PICK b \in {<<p, o>>} \cup Pieces(p, o, f) : x \in Run(b[1], b[2])
      BY <2>1, CoveredHas
    <3>2. b \in Blocks
      BY <1>1, <1>4 DEF Blocks
    <3>. QED
      BY <3>1, <3>2, OneBlock
  <2>. QED
    BY <2>2
<1>. QED
  BY <1>1, <1>3, <1>4, <1>5, <1>6, <1>7

(* No other block shares a page with the whole. *)
LEMMA OthersOutside ==
  ASSUME PmmInv, NEW p, NEW o, <<p, o>> \in held, NEW f, f = Merged(p, o),
         NEW b \in Blocks, NEW x \in Run(b[1], b[2]), x \in Run(Block(p, f), f)
  PROVE  b = <<p, o>> \/ b \in Pieces(p, o, f)
<1>1. /\ o \in Nat /\ f \in Nat /\ o <= f /\ Aligned(p, o) /\ <<p, o>> \in Blocks
      /\ Pieces(p, o, f) \subseteq FreeBlocks
  BY FreeHasPieces, Sizes
<1>2. Covered({<<p, o>>} \cup Pieces(p, o, f)) = Run(Block(p, f), f)
  BY <1>1, PiecesTile
<1>3. PICK c \in {<<p, o>>} \cup Pieces(p, o, f) : x \in Run(c[1], c[2])
  BY <1>2, CoveredHas
<1>4. c \in Blocks
  BY <1>1 DEF Blocks
<1>. QED
  BY <1>3, <1>4, TwoBlocks

LEMMA FreeLists ==
  ASSUME PmmInv, NEW p, NEW o, Free(p, o), NEW f, f = Merged(p, o)
  PROVE  /\ \A k \in Order : IsList(free_lists'[k], Page)
         /\ FreeIn(free_lists') = (FreeBlocks \ Pieces(p, o, f)) \cup {<<Block(p, f), f>>}
<1>. DEFINE whole == Block(p, f)
<1>1. <<p, o>> \in held
  BY DEF Free
<1>2. /\ o \in Nat /\ f \in Nat /\ f \in Order /\ o <= f /\ Pieces(p, o, f) \subseteq FreeBlocks
      /\ whole \in Run(whole, f) /\ whole \in Page
  BY <1>1, FreeHasPieces, Sizes
<1>3. \A k \in Order : IsList(free_lists[k], Page)
  BY TilesHere DEF PmmInv, Tiles
<1>4. free_lists' = [k \in Order |->
           IF k \in o .. f - 1 THEN RemoveFirst(free_lists[k], Buddy(p, k))
           ELSE IF k = f THEN <<whole>> \o free_lists[k]
           ELSE free_lists[k]]
  BY DEF Free
<1>5. whole \notin ToSet(free_lists[f])
  <2>1. SUFFICES ASSUME whole \in ToSet(free_lists[f]) PROVE FALSE
    OBVIOUS
  <2>2. <<whole, f>> \in FreeBlocks
    BY <1>2, <2>1, FreeHas DEF FreeBlocks, FreeIn
  <2>3. <<whole, f>> \in Blocks /\ <<whole, f>> \notin held
    BY <2>2, TilesHere DEF Blocks, PmmInv, BlocksTileRegion
  <2>4. <<whole, f>> \in Pieces(p, o, f)
    BY <1>1, <1>2, <2>3, OthersOutside
  <2>5. f \in o .. f - 1
    BY <2>4 DEF Pieces
  <2>. QED
    BY <1>2, <2>5
<1>6. ASSUME NEW k \in Order
      PROVE  /\ IsList(free_lists'[k], Page)
             /\ ToSet(free_lists'[k]) = IF k \in o .. f - 1 THEN ToSet(free_lists[k]) \ {Buddy(p, k)}
                                        ELSE IF k = f THEN ToSet(free_lists[k]) \cup {whole}
                                        ELSE ToSet(free_lists[k])
  <2>1. CASE k \in o .. f - 1
    <3>1. <<Buddy(p, k), k>> \in FreeBlocks
      BY <1>2, <2>1 DEF Pieces
    <3>2. Buddy(p, k) \in ToSet(free_lists[k])
      BY <3>1, FreeHas DEF FreeBlocks, FreeIn
    <3>. QED
      BY <1>3, <1>4, <2>1, <3>2, RemovedList
  <2>2. CASE k = f
    <3>1. k \notin o .. f - 1
      BY <1>2, <2>2
    <3>2. free_lists'[k] = <<whole>> \o free_lists[k]
      BY <1>4, <2>2, <3>1
    <3>3. IsList(free_lists[k], Page) /\ whole \in Page /\ whole \notin ToSet(free_lists[k])
      BY <1>2, <1>3, <1>5, <2>2
    <3>. HIDE DEF whole
    <3>4. /\ IsList(<<whole>> \o free_lists[k], Page)
          /\ ToSet(<<whole>> \o free_lists[k]) = ToSet(free_lists[k]) \cup {whole}
      BY <3>3, AddedList
    <3>. QED
      BY <2>2, <3>1, <3>2, <3>4
  <2>3. CASE k # f /\ k \notin o .. f - 1
    BY <1>3, <1>4, <2>3
  <2>. QED
    BY <2>1, <2>2, <2>3
<1>. DEFINE N == (FreeBlocks \ Pieces(p, o, f)) \cup {<<whole, f>>}
<1>. HIDE DEF whole
<1>7. ASSUME NEW q, NEW k \in Order PROVE <<q, k>> \in FreeIn(free_lists') <=> <<q, k>> \in N
  <2>1. <<q, k>> \in FreeIn(free_lists') <=> q \in ToSet(free_lists'[k])
    BY FreeHas
  <2>2. <<q, k>> \in FreeBlocks <=> q \in ToSet(free_lists[k])
    BY FreeHas DEF FreeBlocks, FreeIn
  <2>3. <<q, k>> \in Pieces(p, o, f) <=> k \in o .. f - 1 /\ q = Buddy(p, k)
    BY DEF Pieces
  <2>4. <<q, k>> = <<whole, f>> <=> q = whole /\ k = f
    OBVIOUS
  <2>5. k = f => k \notin o .. f - 1
    BY <1>2
  <2>. QED
    BY <1>6, <2>1, <2>2, <2>3, <2>4, <2>5
<1>8. \A b \in FreeIn(free_lists') : b = <<b[1], b[2]>> /\ b[2] \in Order
  BY FreeHas
<1>9. \A b \in N : b = <<b[1], b[2]>> /\ b[2] \in Order
  <2>1. ASSUME NEW b \in FreeBlocks PROVE b = <<b[1], b[2]>> /\ b[2] \in Order
    BY FreeHas DEF FreeBlocks, FreeIn
  <2>. QED
    BY <1>2, <2>1
<1>10. FreeIn(free_lists') = N
  <2>. HIDE DEF N
  <2>1. \A b : b \in FreeIn(free_lists') => b \in N
    BY <1>7, <1>8
  <2>2. \A b : b \in N => b \in FreeIn(free_lists')
    BY <1>7, <1>9
  <2>. QED
    BY <2>1, <2>2
<1>. QED
  BY <1>6, <1>10 DEF whole

LEMMA FreeTiles ==
  ASSUME PmmInv, NEW p, NEW o, Free(p, o), NEW f, f = Merged(p, o)
  PROVE  Tiles(free_lists', held')
<1>. DEFINE w   == <<Block(p, f), f>>
            Out == {<<p, o>>} \cup Pieces(p, o, f)
            F   == (FreeBlocks \ Pieces(p, o, f)) \cup {w}
<1>1. Tiles(free_lists, held) /\ FreeBlocks = FreeIn(free_lists)
  BY TilesHere DEF PmmInv, FreeBlocks, FreeIn
<1>2. <<p, o>> \in held /\ held' = held \ {<<p, o>>}
  BY DEF Free
<1>3. /\ o \in Nat /\ f \in Nat /\ o <= f /\ Aligned(p, o) /\ Aligned(Block(p, f), f)
      /\ Block(p, f) \in Run(Block(p, f), f)
      /\ Pieces(p, o, f) \subseteq FreeBlocks
  BY <1>2, FreeHasPieces, Sizes
<1>4. (\A k \in Order : IsList(free_lists'[k], Page)) /\ FreeIn(free_lists') = F
  BY FreeLists
<1>5. FreeBlocks \cap held = {}
  BY <1>1 DEF Tiles
<1>6. F \cup held' = (Blocks \ Out) \cup {w}
  BY <1>2, <1>3, <1>5 DEF Blocks
<1>7. Covered(Out) = Run(Block(p, f), f)
  BY <1>3, PiecesTile
<1>8. Apart({w}) /\ Covered({w}) = Run(Block(p, f), f)
  BY <1>3 DEF Apart, Covered, Aligned
<1>9. Apart(Blocks) /\ Covered(Blocks) = RegionPages /\ Out \in SUBSET Blocks
  BY <1>1, <1>2, <1>3 DEF Tiles, Blocks
<1>10. Apart((Blocks \ Out) \cup {w}) /\ Covered((Blocks \ Out) \cup {w}) = RegionPages
  <2>. HIDE DEF Out, w
  <2>. QED
    BY <1>7, <1>8, <1>9, Exchange
<1>11. F \cap held' = {}
  <2>1. ASSUME w \in held' PROVE FALSE
    <3>1. w \in Blocks /\ w \in held /\ w # <<p, o>>
      BY <1>2, <2>1 DEF Blocks
    <3>2. w \in Pieces(p, o, f)
      BY <1>2, <1>3, <3>1, OthersOutside
    <3>. QED
      BY <1>3, <1>5, <3>1, <3>2
  <2>. QED
    BY <1>2, <1>5, <2>1
<1>. HIDE DEF F, Out, w
<1>. QED
  BY <1>4, <1>6, <1>10, <1>11 DEF Tiles

LEMMA FreeType ==
  ASSUME PmmInv, NEW p, NEW o, Free(p, o)
  PROVE  TypeOK'
<1>. DEFINE f == Merged(p, o)
<1>1. Block(p, f) \in Page /\ f \in Order
  BY FreeHasPieces, Sizes DEF Free
<1>2. \A k \in Order : free_lists'[k] \in Seq(Page)
  BY FreeLists DEF IsList
<1>3. free_lists' = [k \in Order |-> free_lists'[k]]
  BY DEF Free
<1>4. free_lists' \in [Order -> Seq(Page)]
  BY <1>2, <1>3
<1>5. order' = [order EXCEPT ![Block(p, f)] = f] /\ flags' = [flags EXCEPT ![Block(p, f)] = 0]
  BY DEF Free
<1>6. held' \subseteq Page \X Order
  BY DEF Free, PmmInv, TypeOK
<1>. HIDE DEF f
<1>. QED
  BY <1>1, <1>4, <1>5, <1>6 DEF PmmInv, TypeOK

LEMMA FreeMarks ==
  ASSUME PmmInv, NEW p, NEW o, Free(p, o), NEW f, f = Merged(p, o)
  PROVE  Marked'
<1>. DEFINE w == Block(p, f)
<1>1. FreeBlocks' = (FreeBlocks \ Pieces(p, o, f)) \cup {<<w, f>>}
  BY FreeLists DEF FreeBlocks, FreeIn
<1>2. /\ <<p, o>> \in held /\ held' = held \ {<<p, o>>}
      /\ order' = [order EXCEPT ![w] = f] /\ flags' = [flags EXCEPT ![w] = 0]
  BY DEF Free
<1>3. w \in Run(w, f) /\ w \in RegionPages /\ w \in Page
  BY <1>2, FreeHasPieces, Sizes
<1>4. ASSUME NEW b \in Blocks, b # <<p, o>>, b \notin Pieces(p, o, f)
      PROVE  b[1] \in Page /\ b[1] # w
  <2>1. b[1] \in Run(b[1], b[2]) /\ b[1] \in Page
    BY OneBlock
  <2>. QED
    BY <1>2, <1>3, <1>4, <2>1, OthersOutside
<1>5. FreeBlocks \cap held = {} /\ Pieces(p, o, f) \subseteq FreeBlocks
  BY <1>2, FreeHasPieces, TilesHere DEF PmmInv, BlocksTileRegion
<1>6. order \in [Page -> Order] /\ flags \in [Page -> {0, 1}]
  BY DEF PmmInv, TypeOK
<1>. HIDE DEF w
<1>7. ASSUME NEW b \in FreeBlocks' PROVE order'[b[1]] = b[2] /\ flags'[b[1]] = 0
  <2>1. CASE b = <<w, f>>
    BY <1>2, <1>3, <1>6, <2>1
  <2>2. CASE b \in FreeBlocks \ Pieces(p, o, f)
    <3>1. b[1] \in Page /\ b[1] # w
      BY <1>2, <1>4, <1>5, <2>2 DEF Blocks
    <3>. QED
      BY <1>2, <1>6, <2>2, <3>1 DEF PmmInv, Marked
  <2>. QED
    BY <1>1, <2>1, <2>2
<1>8. ASSUME NEW h \in held' PROVE flags'[h[1]] = 1
  <2>1. h \in held /\ h[1] \in Page /\ h[1] # w
    BY <1>2, <1>4, <1>5 DEF Blocks
  <2>. QED
    BY <1>2, <1>6, <2>1 DEF PmmInv, Marked
<1>9. ASSUME NEW q \in Page, q \notin RegionPages PROVE flags'[q] = 1
  BY <1>2, <1>3, <1>6, <1>9 DEF PmmInv, Marked
<1>. QED
  BY <1>7, <1>8, <1>9 DEF Marked, RegionPages

(* The loop went on as long as the buddy was free and of the same order. *)
LEMMA FreeBuddies ==
  ASSUME PmmInv, NEW p, NEW o, Free(p, o), NEW f, f = Merged(p, o)
  PROVE  NoBuddies'
<1>. DEFINE w == Block(p, f)
<1>1. FreeBlocks' = (FreeBlocks \ Pieces(p, o, f)) \cup {<<w, f>>}
  BY FreeLists DEF FreeBlocks, FreeIn
<1>2. <<p, o>> \in held
  BY DEF Free
<1>3. p \in Nat /\ o \in Order /\ f \in Nat /\ ~Mergeable(p, f)
  BY <1>2, FreeHasPieces, MergedIs, Sizes
<1>4. Buddy(w, f) = Buddy(p, f) /\ w # Buddy(p, f)
  BY <1>3, BuddyBack, HalvesRun
<1>5. ASSUME f < MAX_ORDER - 1 PROVE <<Buddy(p, f), f>> \notin FreeBlocks
  <2>1. SUFFICES ASSUME <<Buddy(p, f), f>> \in FreeBlocks PROVE FALSE
    OBVIOUS
  <2>2. order[Buddy(p, f)] = f /\ flags[Buddy(p, f)] = 0
    BY <2>1 DEF PmmInv, Marked
  <2>3. Buddy(p, f) \in Page
    BY <2>1, OneBlock DEF Blocks
  <2>4. Buddy(p, f) < TotalPages
    BY <2>3, PmmAssumption DEF Page
  <2>. QED
    BY <1>3, <1>5, <2>2, <2>4 DEF Mergeable
<1>6. SUFFICES ASSUME NEW b \in FreeBlocks', b[2] < MAX_ORDER - 1,
                      <<Buddy(b[1], b[2]), b[2]>> \in FreeBlocks'
               PROVE  FALSE
  BY DEF NoBuddies
<1>. DEFINE c == <<Buddy(b[1], b[2]), b[2]>>
<1>7. CASE b \in FreeBlocks /\ c \in FreeBlocks
  BY <1>6, <1>7 DEF PmmInv, NoBuddies
<1>8. CASE b = <<w, f>>
  <2>1. b[1] = w /\ b[2] = f
    BY <1>8
  <2>2. c = <<Buddy(p, f), f>> /\ c # <<w, f>> /\ f < MAX_ORDER - 1
    BY <1>4, <1>6, <2>1
  <2>. QED
    BY <1>1, <1>5, <1>6, <2>2
<1>9. CASE b \in FreeBlocks /\ c = <<w, f>>
  <2>1. b = <<b[1], b[2]>> /\ b[1] \in Nat /\ b[2] \in Nat /\ Block(b[1], b[2]) = b[1]
    BY <1>9, OneBlock, BlockOfAligned, Sizes DEF Blocks
  <2>2. b[2] = f /\ Buddy(b[1], f) = w
    BY <1>9
  <2>3. b[1] = Buddy(p, f)
    BY <1>4, <2>1, <2>2, BuddyBack
  <2>. QED
    BY <1>5, <1>6, <1>9, <2>1, <2>2, <2>3
<1>. QED
  BY <1>1, <1>6, <1>7, <1>8, <1>9

LEMMA FreeInv ==
  ASSUME PmmInv, NEW p, NEW o, Free(p, o)
  PROVE  PmmInv'
<1>1. TypeOK' /\ Marked' /\ NoBuddies' /\ Tiles(free_lists', held')
  BY FreeType, FreeMarks, FreeBuddies, FreeTiles
<1>. QED
  BY <1>1, TilesNext DEF PmmInv
-----------------------------------------------------------------------------
(* pmm_init and pmm_add_region. *)

LEMMA RegionOrderIs ==
  ASSUME NEW i \in RegionPages
  PROVE  /\ RegionOrder(i) \in Order
         /\ Aligned(i, RegionOrder(i)) /\ i + 2^RegionOrder(i) <= EndPage
         /\ RegionOrder(i) < MAX_ORDER - 1 =>
              i + 2^(RegionOrder(i) + 1) > EndPage \/ i % 2^(RegionOrder(i) + 1) # 0
<1>. DEFINE fits(o) == i + 2^(o + 1) <= EndPage /\ i % 2^(o + 1) = 0
            T == {o \in Order : o = MAX_ORDER - 1 \/ ~fits(o)}
            r == RegionOrder(i)
<1>1. i \in Nat /\ i < EndPage /\ EndPage \in Nat
  BY PmmAssumption DEF RegionPages
<1>2. MAX_ORDER - 1 \in T /\ T \subseteq Nat
  BY Sizes
<1>3. PICK o \in T : \A j \in T : ~(j < o)
  BY <1>2, LeastOf
<1>4. o \in Order /\ o \in Nat /\ o <= MAX_ORDER - 1 /\ MAX_ORDER \in Nat
  BY <1>3, PmmAssumption DEF Order
<1>5. \A k \in 0 .. o - 1 : k \in Order /\ k # MAX_ORDER - 1 /\ k < o
  BY <1>4 DEF Order
<1>6. \A k \in 0 .. o - 1 : fits(k)
  BY <1>3, <1>5
<1>7. o < MAX_ORDER - 1 => ~fits(o)
  BY <1>3, <1>4
<1>8. \A k \in Order : 2^(k + 1) \in Nat
  BY Powers, Sizes
<1>9. \A k \in Order : fits(k) \/ i + 2^(k + 1) > EndPage \/ i % 2^(k + 1) # 0
  BY <1>1, <1>8
<1>10. /\ r \in Order
       /\ r < MAX_ORDER - 1 => i + 2^(r + 1) > EndPage \/ i % 2^(r + 1) # 0
       /\ \A k \in 0 .. r - 1 : i + 2^(k + 1) <= EndPage /\ i % 2^(k + 1) = 0
  <2>1. \E x \in Order :
          /\ x < MAX_ORDER - 1 => i + 2^(x + 1) > EndPage \/ i % 2^(x + 1) # 0
          /\ \A k \in 0 .. x - 1 : i + 2^(k + 1) <= EndPage /\ i % 2^(k + 1) = 0
    BY <1>4, <1>6, <1>7, <1>9
  <2>. QED
    BY <2>1 DEF RegionOrder
<1>. HIDE DEF r, fits, T
<1>11. Aligned(i, r) /\ i + 2^r <= EndPage
  <2>1. CASE r = 0
    <3>1. 2^r = 1
      BY <2>1, PowerZero
    <3>2. i % 1 = 0
      BY <1>1
    <3>. QED
      BY <1>1, <3>1, <3>2 DEF Aligned
  <2>2. CASE r # 0
    <3>1. r - 1 \in 0 .. r - 1 /\ (r - 1) + 1 = r
      BY <1>10, <2>2, Sizes
    <3>2. i + 2^((r - 1) + 1) <= EndPage /\ i % 2^((r - 1) + 1) = 0
      BY <1>10, <3>1
    <3>. QED
      BY <1>1, <3>1, <3>2 DEF Aligned
  <2>. QED
    BY <2>1, <2>2
<1>. QED
  BY <1>10, <1>11 DEF r

After(i) == i + 2^RegionOrder(i)

LEMMA AfterIs ==
  ASSUME NEW i \in RegionPages
  PROVE  After(i) \in StartPage .. EndPage /\ After(i) > i /\ i \in Nat
<1>0. RegionOrder(i) \in Nat
  BY RegionOrderIs, Sizes
<1>1. i \in Nat /\ StartPage \in Nat /\ EndPage \in Nat /\ StartPage <= i
  BY PmmAssumption DEF RegionPages
<1>2. 2^RegionOrder(i) \in Nat /\ 2^RegionOrder(i) > 0
  BY <1>0, Powers
<1>. QED
  BY <1>1, <1>2, RegionOrderIs DEF After

(* RegionFrom is defined: the pages its loop stops at are those that every set
   closed under its step contains. *)
LEMMA RegionFromIs ==
  ASSUME NEW i \in StartPage .. EndPage
  PROVE  RegionFrom[i] = IF i = EndPage THEN {} ELSE {i} \cup RegionFrom[After(i)]
<1>. DEFINE S == StartPage .. EndPage
            Closed == {C \in SUBSET S : \A u \in C : u # EndPage => After(u) \in C}
            Stops(k) == {j \in S \ {EndPage} : \A C \in Closed : k \in C => j \in C}
            g == [k \in S |-> Stops(k)]
<1>1. \A u \in S : u # EndPage => u \in RegionPages
  BY PmmAssumption DEF RegionPages
<1>2. \A u \in S : u # EndPage => After(u) \in S /\ After(u) # u
  <2>. TAKE u \in S
  <2>. HAVE u # EndPage
  <2>1. u \in RegionPages
    BY <1>1
  <2>. QED
    BY <2>1, AfterIs
<1>3. EndPage \in S
  BY PmmAssumption
<1>. HIDE DEF S
<1>4. Stops(EndPage) = {}
  <2>1. {EndPage} \in Closed
    BY <1>3
  <2>. QED
    BY <2>1
<1>5. ASSUME NEW k \in S, k # EndPage PROVE Stops(k) = {k} \cup Stops(After(k))
  <2>1. After(k) \in S
    BY <1>2, <1>5
  <2>2. ASSUME NEW j \in Stops(k), j # k PROVE j \in Stops(After(k))
    <3>1. SUFFICES ASSUME NEW C \in Closed, After(k) \in C PROVE j \in C
      BY <2>2
    <3>2. C \cup {k} \in Closed
      BY <1>5, <3>1
    <3>3. j \in C \cup {k}
      BY <2>2, <3>2
    <3>. QED
      BY <2>2, <3>3
  <2>3. ASSUME NEW j \in Stops(After(k)) PROVE j \in Stops(k)
    <3>1. SUFFICES ASSUME NEW C \in Closed, k \in C PROVE j \in C
      BY <2>3
    <3>2. After(k) \in C
      BY <1>5, <3>1
    <3>. QED
      BY <2>3, <3>1, <3>2
  <2>4. k \in Stops(k)
    BY <1>5
  <2>. QED
    BY <2>2, <2>3, <2>4
<1>6. g = [k \in S |-> IF k = EndPage THEN {} ELSE {k} \cup g[After(k)]]
  <2>1. ASSUME NEW k \in S
        PROVE  Stops(k) = IF k = EndPage THEN {} ELSE {k} \cup g[After(k)]
    <3>1. CASE k = EndPage
      BY <1>4, <3>1
    <3>2. CASE k # EndPage
      <4>1. g[After(k)] = Stops(After(k))
        BY <1>2, <3>2
      <4>. QED
        BY <1>5, <3>2, <4>1
    <3>. QED
      BY <3>1, <3>2
  <2>. HIDE DEF Stops
  <2>. QED
    BY <2>1
<1>. HIDE DEF g
<1>7. RegionFrom = [k \in S |-> IF k = EndPage THEN {} ELSE {k} \cup RegionFrom[After(k)]]
  BY <1>6 DEF RegionFrom, After, S
<1>. QED
  BY <1>7 DEF S

(* Each turn of the loop adds a block in front of those that follow. *)
RegionBlocks(i) == {<<p, RegionOrder(p)>> : p \in RegionFrom[i]}

LEMMA RegionTiles ==
  ASSUME NEW i \in StartPage .. EndPage
  PROVE  /\ RegionFrom[i] \subseteq i .. EndPage - 1
         /\ Apart(RegionBlocks(i)) /\ Covered(RegionBlocks(i)) = i .. EndPage - 1
<1>. DEFINE Good(k) == /\ RegionFrom[k] \subseteq k .. EndPage - 1
                       /\ Apart(RegionBlocks(k)) /\ Covered(RegionBlocks(k)) = k .. EndPage - 1
            T == {m \in Nat : EndPage - m \in StartPage .. EndPage /\ ~Good(EndPage - m)}
<1>0. StartPage \in Nat /\ EndPage \in Nat /\ StartPage <= EndPage
  BY PmmAssumption
<1>1. SUFFICES T = {}
  <2>1. EndPage - i \in Nat /\ EndPage - (EndPage - i) = i
    BY <1>0
  <2>2. Good(i)
    <3>. HIDE DEF Good
    <3>. QED
      BY <1>1, <2>1
  <2>. QED
    BY <2>2
<1>2. SUFFICES ASSUME T # {} PROVE FALSE
  OBVIOUS
<1>3. PICK m \in T : \A n \in T : ~(n < m)
  BY <1>2, LeastOf
<1>. DEFINE k == EndPage - m
<1>4. k \in StartPage .. EndPage /\ k \in Nat /\ ~Good(k) /\ m \in Nat
  BY <1>0
<1>5. ASSUME NEW j \in StartPage .. EndPage, k < j PROVE Good(j)
  <2>1. EndPage - j \in Nat /\ EndPage - j < m /\ EndPage - (EndPage - j) = j
    BY <1>0, <1>4, <1>5
  <2>. HIDE DEF Good
  <2>. QED
    BY <1>3, <2>1
<1>. HIDE DEF k
<1>6. CASE k = EndPage
  <2>1. RegionFrom[k] = {}
    <3>. HIDE DEF Good
    <3>. QED
      BY <1>4, <1>6, RegionFromIs, Zenon
  <2>2. k .. EndPage - 1 = {}
    <3>. HIDE DEF Good
    <3>. QED
      BY <1>0, <1>4, <1>6
  <2>3. RegionBlocks(k) = {}
    BY <2>1 DEF RegionBlocks
  <2>4. Apart(RegionBlocks(k)) /\ Covered(RegionBlocks(k)) = {}
    BY <2>3 DEF Apart, Covered
  <2>. QED
    BY <1>4, <2>1, <2>2, <2>4
<1>7. CASE k # EndPage
  <2>. DEFINE o == RegionOrder(k)
              a == After(k)
              b == <<k, o>>
  <2>1. k \in RegionPages
    BY <1>0, <1>4, <1>7 DEF RegionPages
  <2>2. a \in StartPage .. EndPage /\ a > k /\ a = k + 2^o
    BY <2>1, AfterIs DEF After
  <2>3. Good(a)
    BY <1>5, <2>2
  <2>4. o \in Nat /\ Aligned(k, o)
    BY <2>1, RegionOrderIs, Sizes
  <2>5. RegionFrom[k] = {k} \cup RegionFrom[a]
    BY <1>4, <1>7, RegionFromIs
  <2>6. RegionBlocks(k) = {b} \cup RegionBlocks(a)
    BY <2>5 DEF RegionBlocks
  <2>7. Run(k, o) = k .. a - 1
    <3>. HIDE DEF a, o, Good
    <3>1. 2^o \in Nat /\ \A x : x \in Run(k, o) <=> x \in Nat /\ k <= x /\ x < k + 2^o
      BY <1>4, <2>4, Powers, RunHas
    <3>. DEFINE t == 2^o
    <3>2. t \in Nat /\ k + t = a /\ \A x : x \in Run(k, o) <=> x \in Nat /\ k <= x /\ x < k + t
      BY <2>2, <3>1
    <3>. HIDE DEF t
    <3>3. \A x : x \in Run(k, o) <=> x \in k .. a - 1
      BY <1>4, <3>2
    <3>. QED
      BY <3>3
  <2>. HIDE DEF a, o
  <2>8. k .. EndPage - 1 = (k .. a - 1) \cup (a .. EndPage - 1)
    BY <1>0, <1>4, <2>2
  <2>9. (k .. a - 1) \cap (a .. EndPage - 1) = {}
    BY <1>0, <1>4, <2>2
  <2>10. RegionFrom[k] \subseteq k .. EndPage - 1
    BY <1>0, <1>4, <1>7, <2>2, <2>3, <2>5
  <2>11. \A d \in RegionBlocks(a) : Run(d[1], d[2]) \subseteq a .. EndPage - 1
    BY <2>3 DEF Covered
  <2>12. Apart(RegionBlocks(k))
    <3>1. ASSUME NEW d \in RegionBlocks(k) PROVE d \in Nat \X Nat /\ Aligned(d[1], d[2])
      BY <1>4, <2>3, <2>4, <2>6 DEF Apart
    <3>2. ASSUME NEW d \in RegionBlocks(k), NEW e \in RegionBlocks(k), d # e
          PROVE  Run(d[1], d[2]) \cap Run(e[1], e[2]) = {}
      <4>1. CASE d = b /\ e \in RegionBlocks(a)
        BY <2>7, <2>9, <2>11, <4>1
      <4>2. CASE e = b /\ d \in RegionBlocks(a)
        BY <2>7, <2>9, <2>11, <4>2
      <4>3. CASE d \in RegionBlocks(a) /\ e \in RegionBlocks(a)
        BY <2>3, <3>2, <4>3 DEF Apart
      <4>. QED
        BY <2>6, <3>2, <4>1, <4>2, <4>3
    <3>. QED
      BY <3>1, <3>2 DEF Apart
  <2>13. Covered(RegionBlocks(k)) = k .. EndPage - 1
    <3>1. ASSUME NEW x PROVE x \in Covered(RegionBlocks(k)) <=> x \in Run(k, o) \/ x \in Covered(RegionBlocks(a))
      <4>1. b[1] = k /\ b[2] = o
        OBVIOUS
      <4>. HIDE DEF b
      <4>2. x \in Covered(RegionBlocks(k)) <=> \E d \in {b} \cup RegionBlocks(a) : x \in Run(d[1], d[2])
        BY <2>6, CoveredHas
      <4>3. x \in Covered(RegionBlocks(a)) <=> \E d \in RegionBlocks(a) : x \in Run(d[1], d[2])
        BY CoveredHas
      <4>. HIDE DEF Good
      <4>. QED
        BY <4>1, <4>2, <4>3, Zenon
    <3>. QED
      BY <2>3, <2>7, <2>8, <3>1
  <2>. QED
    BY <1>4, <2>10, <2>12, <2>13
<1>. QED
  BY <1>6, <1>7

(* A set of pages as the list that list_add makes of it.  The number of pages
   from p on is p's place in the list. *)
LEMMA StackedIs ==
  ASSUME NEW S \in SUBSET Page
  PROVE  IsList(Stacked(S), Page) /\ ToSet(Stacked(S)) = S
<1>. DEFINE Up(p) == {q \in S : q >= p}
            n == Cardinality(S)
            rank == [p \in S |-> Cardinality(Up(p))]
            L == Stacked(S)
<1>1. IsFiniteSet(S) /\ n \in Nat /\ S \subseteq Nat
  <2>1. IsFiniteSet(0 .. TotalPages - 1)
    BY FS_Interval, Sizes
  <2>2. IsFiniteSet(S)
    BY <2>1, FS_Subset DEF Page
  <2>. QED
    BY <2>2, FS_CardinalityType, Sizes
<1>2. \A p \in S : IsFiniteSet(Up(p)) /\ Cardinality(Up(p)) \in Nat
  <2>. TAKE p \in S
  <2>1. Up(p) \subseteq S
    OBVIOUS
  <2>. HIDE DEF Up
  <2>. QED
    BY <1>1, <2>1, FS_Subset, FS_CardinalityType
<1>3. ASSUME NEW p \in S PROVE rank[p] \in 1 .. n
  <2>1. Up(p) \subseteq S /\ Up(p) # {}
    BY <1>1
  <2>2. Cardinality(Up(p)) <= n
    <3>. HIDE DEF Up
    <3>. QED
      BY <1>1, <2>1, FS_Subset
  <2>3. Cardinality(Up(p)) # 0
    <3>. HIDE DEF Up
    <3>. QED
      BY <1>2, <2>1, FS_EmptySet
  <2>. HIDE DEF Up
  <2>. QED
    BY <1>1, <1>2, <2>2, <2>3
<1>4. ASSUME NEW p \in S, NEW q \in S, p < q PROVE rank[q] < rank[p]
  <2>1. Up(q) \subseteq Up(p) /\ Up(q) # Up(p)
    <3>1. p \in Up(p) /\ p \notin Up(q)
      BY <1>1, <1>4
    <3>2. \A x \in S : x >= q => x >= p
      BY <1>1, <1>4
    <3>. QED
      BY <3>1, <3>2
  <2>2. IsFiniteSet(Up(p))
    BY <1>2
  <2>3. Cardinality(Up(q)) < Cardinality(Up(p))
    <3>. HIDE DEF Up
    <3>1. Cardinality(Up(q)) <= Cardinality(Up(p)) /\ (Cardinality(Up(q)) = Cardinality(Up(p)) => Up(q) = Up(p))
      BY <2>1, <2>2, FS_Subset
    <3>. QED
      BY <1>2, <2>1, <3>1
  <2>. QED
    BY <2>3
<1>5. ASSUME NEW p \in S, NEW q \in S, rank[p] = rank[q] PROVE p = q
  <2>1. rank[p] \in Nat /\ rank[q] \in Nat
    BY <1>3
  <2>2. ~(p < q) /\ ~(q < p)
    <3>. HIDE DEF rank
    <3>. QED
      BY <1>4, <1>5, <2>1
  <2>. QED
    BY <1>1, <2>2
<1>6. \A j \in 1 .. n : \E p \in S : rank[p] = j
  <2>1. rank \in [S -> 1 .. n] /\ DOMAIN rank = S
    BY <1>3
  <2>2. IsFiniteSet(1 .. n) /\ Cardinality(1 .. n) = n
    BY <1>1, FS_Interval
  <2>. HIDE DEF rank
  <2>3. rank \in Injection(S, 1 .. n)
    BY <1>5, <2>1 DEF Injection, IsInjective
  <2>4. rank \in Surjection(S, 1 .. n)
    BY <1>1, <2>2, <2>3, FS_Injection
  <2>. QED
    BY <2>4 DEF Surjection
<1>7. L = [j \in 1 .. n |-> CHOOSE p \in S : rank[p] = j]
  <2>1. \A j : \A p \in S : Cardinality(Up(p)) = j <=> rank[p] = j
    OBVIOUS
  <2>. DEFINE C(j) == CHOOSE p \in S : Cardinality(Up(p)) = j
              D(j) == CHOOSE p \in S : rank[p] = j
  <2>2. \A j : C(j) = D(j)
    <3>. HIDE DEF Up, rank
    <3>. QED
      BY <2>1
  <2>3. L = [j \in 1 .. n |-> C(j)]
    BY DEF Stacked
  <2>4. [j \in 1 .. n |-> C(j)] = [j \in 1 .. n |-> D(j)]
    <3>. HIDE DEF C, D, n
    <3>. QED
      BY <2>2
  <2>5. [j \in 1 .. n |-> D(j)] = [j \in 1 .. n |-> CHOOSE p \in S : rank[p] = j]
    OBVIOUS
  <2>. HIDE DEF C, D, L, n, rank
  <2>. QED
    BY <2>3, <2>4, <2>5
<1>. HIDE DEF L, rank
<1>8. \A j \in 1 .. n : L[j] \in S /\ rank[L[j]] = j
  BY <1>6, <1>7
<1>. HIDE DEF n
<1>9. L \in Seq(Page) /\ Len(L) = n
  <2>1. L \in [1 .. n -> Page]
    BY <1>7, <1>8
  <2>. QED
    BY <1>1, <2>1
<1>10. Enumerates(L, S, Page)
  <2>1. ASSUME NEW p \in S PROVE \E j \in 1 .. n : L[j] = p
    <3>1. rank[p] \in 1 .. n
      BY <1>3
    <3>. QED
      BY <1>5, <1>8, <3>1
  <2>2. \A i, j \in 1 .. n : L[i] = L[j] => i = j
    BY <1>8
  <2>. QED
    BY <1>8, <1>9, <2>1, <2>2 DEF Enumerates
<1>11. IsList(L, Page) /\ ToSet(L) = S
  BY <1>10, ListFrom
<1>. QED
  BY <1>11 DEF L

LEMMA InitTiles ==
  ASSUME Init
  PROVE  /\ free_lists \in [Order -> Seq(Page)]
         /\ FreeIn(free_lists) = RegionBlocks(StartPage) /\ FreeBlocks = RegionBlocks(StartPage)
         /\ RegionStarts \subseteq RegionPages
         /\ Tiles(free_lists, held)
<1>. DEFINE S(o) == {p \in RegionStarts : RegionOrder(p) = o}
            L == [o \in Order |-> Stacked(S(o))]
<1>1. StartPage \in StartPage .. EndPage
  BY PmmAssumption
<1>2. /\ RegionStarts \subseteq RegionPages
      /\ Apart(RegionBlocks(StartPage)) /\ Covered(RegionBlocks(StartPage)) = RegionPages
  BY <1>1, RegionTiles DEF RegionStarts, RegionPages
<1>3. \A p \in RegionStarts : RegionOrder(p) \in Order
  BY <1>2, RegionOrderIs
<1>4. \A o \in Order : IsList(Stacked(S(o)), Page) /\ ToSet(Stacked(S(o))) = S(o)
  <2>1. \A o \in Order : S(o) \in SUBSET Page
    BY <1>2, Sizes
  <2>. HIDE DEF S
  <2>. QED
    BY <2>1, StackedIs
<1>5. free_lists = L /\ held = {}
  BY DEF Init
<1>6. \A o \in Order : L[o] = Stacked(S(o))
  OBVIOUS
<1>7. \A o \in Order : IsList(free_lists[o], Page) /\ ToSet(free_lists[o]) = S(o)
  <2>. HIDE DEF S, L
  <2>. QED
    BY <1>4, <1>5, <1>6
<1>8. free_lists \in [Order -> Seq(Page)]
  <2>1. \A o \in Order : Stacked(S(o)) \in Seq(Page)
    BY <1>4 DEF IsList
  <2>2. L \in [Order -> Seq(Page)]
    <3>. HIDE DEF S
    <3>. QED
      BY <2>1
  <2>. HIDE DEF L
  <2>. QED
    BY <1>5, <2>2
<1>. HIDE DEF L
<1>9. \A b : b \in FreeIn(free_lists) <=> \E p, o : b = <<p, o>> /\ o \in Order /\ p \in S(o)
  <2>. HIDE DEF S
  <2>. QED
    BY <1>7, FreeHas
<1>10. \A b : b \in RegionBlocks(StartPage) <=> \E p \in RegionStarts : b = <<p, RegionOrder(p)>>
  BY DEF RegionBlocks, RegionStarts
<1>11. \A b : b \in FreeIn(free_lists) <=> b \in RegionBlocks(StartPage)
  BY <1>3, <1>9, <1>10
<1>12. FreeIn(free_lists) = RegionBlocks(StartPage)
  BY <1>11
<1>13. FreeBlocks = FreeIn(free_lists)
  BY DEF FreeBlocks, FreeIn
<1>14. Tiles(free_lists, held)
  <2>. HIDE DEF S
  <2>1. FreeIn(free_lists) \cup held = RegionBlocks(StartPage)
    BY <1>5, <1>12
  <2>. QED
    BY <1>2, <1>5, <1>7, <1>12, <2>1 DEF Tiles
<1>. QED
  BY <1>2, <1>8, <1>12, <1>13, <1>14

(* The loop gives a block the largest order it can have: were its buddy a block
   of that order too, the lower of the two would have got the next one. *)
LEMMA InitBuddies ==
  ASSUME Init
  PROVE  NoBuddies
<1>1. SUFFICES ASSUME NEW b \in FreeBlocks, b[2] < MAX_ORDER - 1,
                      <<Buddy(b[1], b[2]), b[2]>> \in FreeBlocks
               PROVE  FALSE
  BY DEF NoBuddies
<1>. DEFINE k == b[2]
            w == Block(b[1], k + 1)
<1>2. /\ b[1] \in RegionPages /\ RegionOrder(b[1]) = k
      /\ Buddy(b[1], k) \in RegionPages /\ RegionOrder(Buddy(b[1], k)) = k
  BY <1>1, InitTiles DEF RegionBlocks, RegionStarts
<1>3. b[1] \in Nat /\ k \in Order /\ k \in Nat /\ k + 1 \in Nat /\ Aligned(b[1], k)
  <2>. HIDE DEF k
  <2>1. RegionOrder(b[1]) \in Order /\ Aligned(b[1], RegionOrder(b[1]))
    BY <1>2, RegionOrderIs
  <2>2. b[1] \in Nat /\ k \in Order /\ k \in Nat /\ Aligned(b[1], k)
    BY <1>2, <2>1, Sizes
  <2>. QED
    BY <2>2
<1>4. Block(b[1], k) = b[1]
  BY <1>3, BlockOfAligned
<1>5. Aligned(w, k + 1)
  BY <1>3, BlockAround
<1>. DEFINE c == Buddy(b[1], k)
            s == 2^k
<1>6. s \in Nat /\ s > 0 /\ 2^(k + 1) = s + s
  BY <1>3, Powers
<1>7. \/ w = b[1] /\ c = b[1] + s
      \/ w = c /\ b[1] = c + s
  BY <1>3, <1>4, Halves
<1>8. b[1] + s <= EndPage /\ c + s <= EndPage /\ EndPage \in Nat /\ b[1] \in Nat /\ c \in Nat
  <2>1. b[1] + s <= EndPage /\ c + s <= EndPage
    BY <1>2, RegionOrderIs
  <2>2. EndPage \in Nat
    BY PmmAssumption
  <2>3. b[1] \in Nat /\ c \in Nat
    BY <1>2, Sizes, Zenon
  <2>. HIDE DEF c, s
  <2>. QED
    BY <2>1, <2>2, <2>3
<1>9. w \in RegionPages /\ RegionOrder(w) = k
  BY <1>2, <1>7
<1>10. w + 2^(k + 1) > EndPage \/ w % 2^(k + 1) # 0
  BY <1>1, <1>9, RegionOrderIs
<1>11. w % 2^(k + 1) = 0
  BY <1>5 DEF Aligned
<1>12. w + (s + s) > EndPage
  BY <1>6, <1>10, <1>11
<1>. HIDE DEF c, s, w, k
<1>. QED
  BY <1>6, <1>7, <1>8, <1>12

LEMMA InitInv == Init => PmmInv
<1>. SUFFICES ASSUME Init PROVE PmmInv
  OBVIOUS
<1>1. \A p \in RegionStarts : RegionOrder(p) \in Order
  BY InitTiles, RegionOrderIs
<1>2. order = [p \in Page |-> IF p \in RegionStarts THEN RegionOrder(p) ELSE 0]
  BY DEF Init
<1>3. flags = [p \in Page |-> IF p \in RegionStarts THEN 0 ELSE 1] /\ held = {}
  BY DEF Init
<1>4. TypeOK
  <2>1. 0 \in Order
    BY PmmAssumption DEF Order
  <2>2. order \in [Page -> Order]
    BY <1>1, <1>2, <2>1
  <2>3. flags \in [Page -> {0, 1}]
    BY <1>3
  <2>. QED
    BY <1>3, <2>2, <2>3, InitTiles DEF TypeOK
<1>5. Marked
  <2>1. ASSUME NEW b \in FreeBlocks PROVE order[b[1]] = b[2] /\ flags[b[1]] = 0
    <3>1. b[1] \in RegionStarts /\ RegionOrder(b[1]) = b[2]
      BY InitTiles DEF RegionBlocks, RegionStarts
    <3>2. b[1] \in Page
      BY <3>1, InitTiles, Sizes
    <3>. QED
      BY <1>2, <1>3, <3>1, <3>2
  <2>2. \A p \in Page : p \notin RegionPages => flags[p] = 1
    BY <1>3, InitTiles
  <2>. QED
    BY <1>3, <2>1, <2>2 DEF Marked
<1>. QED
  BY <1>4, <1>5, InitTiles, InitBuddies, TilesHere DEF PmmInv
-----------------------------------------------------------------------------
(* The theorems. *)

LEMMA NextInv == PmmInv /\ [Next]_vars => PmmInv'
<1>. SUFFICES ASSUME PmmInv, [Next]_vars PROVE PmmInv'
  OBVIOUS
<1>1. ASSUME NEW o \in Order, Alloc(o) PROVE PmmInv'
  BY <1>1, AllocInv
<1>2. CASE UNCHANGED vars
  <2>1. order' = order /\ flags' = flags /\ free_lists' = free_lists /\ held' = held
    BY <1>2 DEF vars
  <2>2. FreeBlocks' = FreeBlocks
    BY <2>1, ZenonT(60) DEF FreeBlocks
  <2>3. TypeOK'
    BY <2>1 DEF PmmInv, TypeOK
  <2>4. Tiles(free_lists', held')
    BY <2>1, TilesHere DEF PmmInv
  <2>5. Marked' /\ NoBuddies'
    BY <2>1, <2>2 DEF PmmInv, Marked, NoBuddies
  <2>. QED
    BY <2>3, <2>4, <2>5, TilesNext DEF PmmInv
<1>3. ASSUME NEW o \in Order, AllocFails(o) PROVE PmmInv'
  BY <1>2, <1>3 DEF AllocFails
<1>4. ASSUME NEW h \in held, Free(h[1], h[2]) PROVE PmmInv'
  BY <1>4, FreeInv
<1>. QED
  BY <1>1, <1>2, <1>3, <1>4 DEF Next

LEMMA InvAlways == Spec => []PmmInv
BY InitInv, NextInv, PTL DEF Spec

(* Every list holds pages of pages[] and every order is one of MAX_ORDER: no
   split, merge or pmm_add_region indexes outside pages[] or free_lists[]. *)
THEOREM PmmTypeCorrect == Spec => []TypeOK
<1>1. PmmInv => TypeOK
  BY DEF PmmInv
<1>. QED
  BY <1>1, InvAlways, PTL

(* Whatever is allocated and freed in whatever order, the blocks in the lists
   and the blocks handed out are aligned, overlap nowhere and lose no page of
   the region given to pmm_add_region. *)
THEOREM BlocksAlwaysTile == Spec => []BlocksTileRegion
<1>1. PmmInv => BlocksTileRegion
  BY DEF PmmInv
<1>. QED
  BY <1>1, InvAlways, PTL

(* The order and flags that pmm_free_pages reads of a buddy may be stale, but
   when they say free and of this order, the buddy is in that free list. *)
THEOREM MergesOnlyWhatIsListed == Spec => []MergesWhatIsListed
BY MergesFollows, InvAlways, PTL

(* pmm_alloc_pages returns NULL only when every aligned run of that size has a
   page in use: the blocks are never split further than they need to be. *)
THEOREM RefusedOnlyWhenReallyFull == Spec => []RefusedOnlyWhenFull
BY RefusedFollows, InvAlways, PTL

-----------------------------------------------------------------------------
(* The refinement: what pmm_alloc_pages hands out is an aligned run of which no
   page is in use. *)

LEMMA AllocIsFree ==
  ASSUME PmmInv, NEW o \in Order, Alloc(o)
  PROVE  Allocator!Alloc(o)
<1>1. PICK i \in Source(o) : held' = held \cup {<<Head(free_lists[i]), o>>}
  BY DEF Alloc
<1>. DEFINE page == Head(free_lists[i])
<1>2. /\ i \in Nat /\ o \in Nat /\ o <= i /\ <<page, i>> \in FreeBlocks
      /\ <<page, i>> \in Blocks /\ page \in Page /\ page \in Nat
      /\ Aligned(page, i) /\ Run(page, i) \subseteq RegionPages
  BY SourceHas, Sizes
<1>. HIDE DEF page
<1>3. Aligned(page, o)
  BY <1>2, AlignedBelow
<1>4. Run(page, o) \subseteq Run(page, i)
  <2>1. Block(page, o) = page /\ Block(page, i) = page
    BY <1>2, <1>3, BlockOfAligned
  <2>. QED
    BY <1>2, <2>1, BlocksNest
<1>5. ASSUME NEW h \in held, NEW x \in Run(page, o) PROVE x \notin Run(h[1], h[2])
  <2>1. SUFFICES ASSUME x \in Run(h[1], h[2]) PROVE FALSE
    OBVIOUS
  <2>2. <<page, i>>[1] = page /\ <<page, i>>[2] = i
    OBVIOUS
  <2>3. h \in Blocks /\ x \in Run(page, i)
    BY <1>4, <1>5 DEF Blocks
  <2>4. h = <<page, i>>
    BY <1>2, <2>1, <2>2, <2>3, TwoBlocks
  <2>5. FreeBlocks \cap held = {}
    BY DEF PmmInv, BlocksTileRegion
  <2>. QED
    BY <1>2, <1>5, <2>4, <2>5
<1>6. \A p, k : Allocator!Run(p, k) = Run(p, k)
  BY DEF Allocator!Run, Run
<1>7. Allocator!Run(page, o) \subseteq Allocator!Free
  BY <1>2, <1>4, <1>5, <1>6 DEF Allocator!Free, RegionPages
<1>8. page \in Allocator!Candidates(o)
  BY <1>2, <1>3, <1>7 DEF Allocator!Candidates, Aligned
<1>. QED
  BY <1>1, <1>8 DEF Allocator!Alloc, page

(* pmm_alloc_pages and pmm_free_pages do what a page allocator promises: each
   aligned run goes to one caller at a time and comes back whole. *)
THEOREM PmmIsAPageAllocator == Spec => ImplementsPageAllocator
<1>1. Init => Allocator!Init
  BY DEF Init, Allocator!Init
<1>2. PmmInv /\ [Next]_vars => [Allocator!Next]_held
  <2>. SUFFICES ASSUME PmmInv, [Next]_vars PROVE [Allocator!Next]_held
    OBVIOUS
  <2>1. ASSUME NEW o \in Order, Alloc(o) PROVE Allocator!Next
    BY <2>1, AllocIsFree DEF Allocator!Next
  <2>2. ASSUME NEW o \in Order, AllocFails(o) PROVE UNCHANGED held
    BY <2>2 DEF AllocFails, vars
  <2>3. ASSUME NEW h \in held, Free(h[1], h[2]) PROVE Allocator!Next
    <3>1. h = <<h[1], h[2]>>
      BY OneBlock DEF Blocks
    <3>2. held' = held \ {h}
      BY <2>3, <3>1 DEF Free
    <3>. QED
      BY <3>2 DEF Allocator!Next, Allocator!Release
  <2>4. CASE UNCHANGED vars
    BY <2>4 DEF vars
  <2>. QED
    BY <2>1, <2>2, <2>3, <2>4 DEF Next
<1>. QED
  BY <1>1, <1>2, InvAlways, PTL DEF Spec, ImplementsPageAllocator, Allocator!Spec

-----------------------------------------------------------------------------
(* Frames: what pmm_alloc_pages(0) hands out when nothing is ever freed.  The
   pages below IDENTITY come first, since only there are blocks smaller than the
   largest ones. *)

Top == MAX_ORDER - 1
Low == StartPage .. IDENTITY - 1
Got == {h[1] : h \in held}

SmallBlocksAreLow ==
  ~(Low \subseteq Got) => \A b \in FreeBlocks : b[1] >= IDENTITY => b[2] = Top

FramesInv ==
  /\ PmmInv
  /\ \A h \in held : h[2] = 0
  /\ SmallBlocksAreLow
  /\ Got \subseteq Low \/ Low \subseteq Got

LEMMA TopIs ==
  /\ Top \in Order /\ Top \in Nat /\ \A k \in Order : k \in Nat /\ k <= Top
  /\ Aligned(IDENTITY, Top) /\ Aligned(EndPage, Top)
  /\ IDENTITY \in Nat /\ StartPage \in Nat /\ EndPage \in Nat /\ 2^Top \in Nat
  /\ StartPage < IDENTITY /\ IDENTITY < StartPage + 2^Top /\ IDENTITY <= EndPage
<1>1. Top \in Order /\ Top \in Nat /\ \A k \in Order : k \in Nat /\ k <= Top
  BY PmmAssumption DEF Top, Order
<1>2. IDENTITY \in Nat /\ StartPage \in Nat /\ EndPage \in Nat
  BY PmmAssumption, VmmAssumption
<1>3. 2^Top \in Nat
  BY <1>1, Powers
<1>4. /\ IDENTITY % 2^Top = 0 /\ EndPage % 2^Top = 0
      /\ StartPage \in IDENTITY - 2^Top + 1 .. IDENTITY - 1
  BY MemoryAssumption DEF Top
<1>. DEFINE s == 2^Top
<1>5. StartPage < IDENTITY /\ IDENTITY < StartPage + s
  <2>1. s \in Nat /\ StartPage \in IDENTITY - s + 1 .. IDENTITY - 1
    BY <1>3, <1>4
  <2>. HIDE DEF s
  <2>. QED
    BY <1>2, <2>1
<1>6. Aligned(IDENTITY, Top) /\ Aligned(EndPage, Top)
  BY <1>2, <1>4 DEF Aligned
<1>7. IDENTITY <= EndPage
  BY <1>2, <1>4, MemoryAssumption
<1>. QED
  BY <1>1, <1>2, <1>3, <1>5, <1>6, <1>7

(* No block reaches across IDENTITY. *)
LEMMA BelowIdentity ==
  ASSUME NEW k \in Order, NEW p, Aligned(p, k), p < IDENTITY, NEW x \in Run(p, k)
  PROVE  x < IDENTITY
<1>1. k \in Nat /\ k <= Top /\ p \in Nat /\ IDENTITY \in Nat
  BY TopIs DEF Aligned
<1>2. Aligned(IDENTITY, k)
  BY <1>1, TopIs, AlignedBelow
<1>3. x \in Nat /\ p <= x /\ x < p + 2^k /\ 2^k \in Nat
  BY <1>1, RunHas, Powers
<1>4. SUFFICES ASSUME IDENTITY <= x PROVE FALSE
  BY <1>1, <1>3
<1>5. IDENTITY \in Run(p, k)
  <2>. DEFINE s == 2^k
  <2>1. s \in Nat /\ x < p + s
    BY <1>3
  <2>. HIDE DEF s
  <2>2. p <= IDENTITY /\ IDENTITY < p + s
    BY <1>1, <1>3, <1>4, <2>1
  <2>. QED
    BY <1>1, <2>2, RunHas DEF s
<1>6. Block(IDENTITY, k) = p /\ Block(IDENTITY, k) = IDENTITY
  BY <1>1, <1>2, <1>5, BlockOfMember, BlockOfAligned
<1>. QED
  BY <1>1, <1>6

LEMMA LowBlock ==
  ASSUME PmmInv, NEW b \in Blocks, b[1] < IDENTITY
  PROVE  b[2] \in Order /\ b[2] < Top
<1>1. /\ b[2] \in Order /\ b[2] \in Nat /\ Aligned(b[1], b[2]) /\ b[1] \in Nat
      /\ b[1] \in RegionPages
  BY OneBlock, Sizes
<1>2. StartPage <= b[1]
  BY <1>1, TopIs DEF RegionPages
<1>3. SUFFICES ASSUME b[2] = Top PROVE FALSE
  BY <1>1, TopIs
<1>. DEFINE s == 2^Top
<1>4. s \in Nat /\ IDENTITY \in Nat /\ IDENTITY < StartPage + s /\ StartPage \in Nat
  BY TopIs
<1>5. \A x : x \in Run(b[1], b[2]) <=> x \in Nat /\ b[1] <= x /\ x < b[1] + s
  BY <1>1, <1>3, RunHas
<1>. HIDE DEF s
<1>6. IDENTITY \in Run(b[1], b[2])
  BY <1>1, <1>2, <1>4, <1>5
<1>7. IDENTITY < IDENTITY
  BY <1>1, <1>6, BelowIdentity
<1>. QED
  BY <1>4, <1>7

(* A page that is not handed out is in a free block. *)
LEMMA FreeFrame ==
  ASSUME PmmInv, NEW x \in RegionPages \ Got, \A h \in held : h[2] = 0
  PROVE  \E b \in FreeBlocks : x \in Run(b[1], b[2])
<1>1. PICK b \in Blocks : x \in Run(b[1], b[2])
  BY TilesHere, CoveredHas DEF PmmInv, Tiles, Blocks, FreeBlocks, FreeIn
<1>2. CASE b \in held
  <2>1. b[1] \in Nat /\ b[2] = 0
    BY <1>2, OneBlock, Sizes
  <2>2. x \in Nat /\ b[1] <= x /\ x < b[1] + 1
    BY <1>1, <2>1, RunHas, PowerZero
  <2>3. x = b[1]
    BY <2>1, <2>2
  <2>. QED
    BY <1>2, <2>3 DEF Got
<1>. QED
  BY <1>1, <1>2 DEF Blocks

LEMMA SourceOne ==
  ASSUME NEW i \in Source(0), NEW j \in Source(0)
  PROVE  i = j
<1>1. i \in 0 .. MAX_ORDER - 1 /\ j \in 0 .. MAX_ORDER - 1 /\ MAX_ORDER - 1 \in Nat
  BY TopIs DEF Source, Top
<1>2. ~(i < j) /\ ~(j < i)
  BY <1>1 DEF Source
<1>. QED
  BY <1>1, <1>2

(* The list that serves a page is no longer than any that could. *)
LEMMA SourceBelow ==
  ASSUME PmmInv, NEW b \in FreeBlocks
  PROVE  \E i \in Source(0) : i <= b[2]
<1>1. b[2] \in Order /\ b[1] \in ToSet(free_lists[b[2]])
  BY FreeHas DEF FreeBlocks, FreeIn
<1>2. IsList(free_lists[b[2]], Page)
  BY <1>1, TilesHere DEF PmmInv, Tiles
<1>3. free_lists[b[2]] # <<>>
  BY <1>1, <1>2, ListHas DEF IsList
<1>. DEFINE T == {k \in Order : free_lists[k] # <<>>}
<1>4. b[2] \in T /\ T \subseteq Nat
  BY <1>1, <1>3, Sizes
<1>5. PICK i \in T : \A j \in T : ~(j < i)
  BY <1>4, LeastOf
<1>6. i \in Source(0)
  <2>1. \A k \in 0 .. i - 1 : k \in Order /\ k < i
    BY <1>4, TopIs DEF Order, Top
  <2>2. \A k \in 0 .. i - 1 : free_lists[k] = <<>>
    BY <1>5, <2>1
  <2>. QED
    BY <1>5, <2>2 DEF Source, Order
<1>7. i <= b[2]
  BY <1>4, <1>5
<1>. QED
  BY <1>6, <1>7

(* One call of pmm_alloc_pages(0) while not all the region is handed out. *)
LEMMA AllocFrame ==
  ASSUME FramesInv, pmm_alloc_page, Got # RegionPages
  PROVE  /\ FramesInv'
         /\ NextFrame \in RegionPages /\ NextFrame \notin Got
         /\ Got' = Got \cup {NextFrame}
         /\ ~(Low \subseteq Got) => NextFrame \in Low
<1>1. Got \subseteq RegionPages
  <2>1. \A h \in held : h[1] \in RegionPages
    BY OneBlock DEF FramesInv, Blocks
  <2>. QED
    BY <2>1 DEF Got
<1>2. PICK x \in RegionPages : x \notin Got
  BY <1>1
<1>3. PICK b \in FreeBlocks : x \in Run(b[1], b[2])
  BY <1>2, FreeFrame DEF FramesInv
<1>4. PICK i \in Source(0) : i <= b[2]
  BY SourceBelow DEF FramesInv
<1>. DEFINE page == Head(free_lists[i])
<1>5. 0 \in Order /\ PmmInv
  BY PmmAssumption DEF Order, FramesInv
<1>6. Alloc(0)
  BY <1>4 DEF pmm_alloc_page, AllocFails
<1>7. AllocFrom(0, i, page)
  <2>1. PICK j \in Source(0) : AllocFrom(0, j, Head(free_lists[j]))
    BY <1>6 DEF Alloc, AllocFrom
  <2>2. j = i
    BY SourceOne
  <2>. QED
    BY <2>1, <2>2
<1>8. NextFrame = page
  <2>1. (CHOOSE k \in Source(0) : TRUE) = i
    BY SourceOne
  <2>. QED
    BY <2>1 DEF NextFrame
<1>. HIDE DEF page
<1>9. /\ i \in Order /\ i \in Nat /\ <<page, i>> \in FreeBlocks /\ <<page, i>> \in Blocks
      /\ page \in Page /\ page \in Nat /\ Aligned(page, i) /\ Run(page, i) \subseteq RegionPages
  BY <1>5, SourceHas, Sizes DEF page
<1>10. page \in Run(page, i) /\ page \in RegionPages
  BY <1>9, BlockOfAligned
<1>11. page \notin Got
  <2>1. SUFFICES ASSUME NEW h \in held, h[1] = page PROVE FALSE
    BY DEF Got
  <2>2. h \in Blocks /\ page \in Run(h[1], h[2])
    BY <1>5, <2>1, OneBlock DEF Blocks
  <2>3. <<page, i>>[1] = page /\ <<page, i>>[2] = i
    OBVIOUS
  <2>4. h = <<page, i>>
    BY <1>5, <1>9, <1>10, <2>2, <2>3, TwoBlocks
  <2>5. FreeBlocks \cap held = {}
    BY <1>5 DEF PmmInv, BlocksTileRegion
  <2>. QED
    BY <1>9, <2>1, <2>4, <2>5
<1>12. held' = held \cup {<<page, 0>>}
  BY <1>7 DEF AllocFrom
<1>13. Got' = Got \cup {page}
  <2>1. \A h \in held' : h \in held \/ h = <<page, 0>>
    BY <1>12
  <2>2. Got' = {h[1] : h \in held'}
    BY DEF Got
  <2>3. \A p : p \in {h[1] : h \in held'} <=> p \in {h[1] : h \in held} \/ p = page
    <3>1. <<page, 0>>[1] = page
      OBVIOUS
    <3>. QED
      BY <1>12, <2>1, <3>1, Zenon
  <2>. QED
    BY <2>2, <2>3 DEF Got
<1>14. \A h \in held' : h[2] = 0
  BY <1>12 DEF FramesInv
<1>15. ASSUME ~(Low \subseteq Got)
       PROVE  /\ page < IDENTITY
              /\ \A c \in FreeBlocks : c[1] >= IDENTITY => c[2] = Top
  <2>1. PICK y \in Low : y \notin Got
    BY <1>15
  <2>2. y \in RegionPages /\ y < IDENTITY /\ IDENTITY \in Nat
    <3>1. IDENTITY \in Nat /\ EndPage \in Nat /\ StartPage \in Nat
      BY TopIs
    <3>2. IDENTITY <= EndPage
      BY TopIs
    <3>. QED
      BY <2>1, <3>1, <3>2 DEF Low, RegionPages
  <2>3. PICK c \in FreeBlocks : y \in Run(c[1], c[2])
    BY <1>5, <2>1, <2>2, FreeFrame DEF FramesInv
  <2>4. c \in Blocks /\ c[1] \in Nat /\ c[2] \in Nat
    BY <1>5, <2>3, OneBlock, Sizes DEF Blocks
  <2>5. c[1] < IDENTITY
    <3>1. y \in Nat /\ c[1] <= y
      BY <2>3, <2>4, RunHas
    <3>. QED
      BY <2>2, <2>4, <3>1
  <2>6. c[2] < Top
    BY <1>5, <2>4, <2>5, LowBlock
  <2>7. PICK j \in Source(0) : j <= c[2]
    BY <1>5, SourceBelow
  <2>8. i < Top
    BY <1>9, <2>4, <2>6, <2>7, SourceOne, TopIs
  <2>9. \A d \in FreeBlocks : d[1] >= IDENTITY => d[2] = Top
    BY <1>15 DEF FramesInv, SmallBlocksAreLow
  <2>10. ~(page >= IDENTITY)
    <3>1. <<page, i>>[1] = page /\ <<page, i>>[2] = i
      OBVIOUS
    <3>2. i # Top
      BY <1>9, <2>8, TopIs
    <3>. QED
      BY <1>9, <2>9, <3>1, <3>2
  <2>. QED
    BY <1>9, <2>2, <2>9, <2>10
<1>16. SmallBlocksAreLow'
  <2>1. SUFFICES ASSUME ~(Low \subseteq Got'), NEW c \in FreeBlocks', c[1] >= IDENTITY
                 PROVE  c[2] = Top
    BY DEF SmallBlocksAreLow, Low, Top
  <2>2. ~(Low \subseteq Got)
    BY <1>13, <2>1
  <2>3. FreeBlocks' = (FreeBlocks \ {<<page, i>>}) \cup Pieces(page, 0, i)
    <3>1. FreeBlocks' = FreeIn(free_lists')
      BY DEF FreeBlocks, FreeIn
    <3>. QED
      BY <1>5, <1>7, <3>1, AllocLists DEF page
  <2>4. c \notin Pieces(page, 0, i)
    <3>1. SUFFICES ASSUME NEW k \in 0 .. i - 1, c = <<Buddy(page, k), k>> PROVE FALSE
      BY DEF Pieces
    <3>2. c[1] \in Run(page, i)
      BY <1>5, <3>1, HalvesOf DEF page
    <3>3. c[1] < IDENTITY
      BY <1>9, <1>15, <2>2, <3>2, BelowIdentity
    <3>4. c[1] \in Nat /\ IDENTITY \in Nat
      BY <1>9, <3>2, Sizes, TopIs
    <3>. QED
      BY <2>1, <3>3, <3>4
  <2>. QED
    BY <1>15, <2>1, <2>2, <2>3, <2>4
<1>17. ~(Low \subseteq Got) => page \in Low
  <2>1. page \in Nat /\ StartPage <= page
    BY <1>9, <1>10, TopIs DEF RegionPages
  <2>. QED
    BY <1>15, <2>1, TopIs DEF Low
<1>18. (Got \subseteq Low \/ Low \subseteq Got)'
  BY <1>13, <1>17 DEF FramesInv, Low
<1>19. PmmInv'
  BY <1>5, <1>6, AllocInv
<1>. QED
  BY <1>8, <1>10, <1>11, <1>13, <1>14, <1>16, <1>17, <1>18, <1>19 DEF FramesInv

LEMMA InitFrames == Init => FramesInv
<1>. SUFFICES ASSUME Init PROVE FramesInv
  OBVIOUS
<1>1. held = {} /\ Got = {} /\ PmmInv
  BY InitInv DEF Init, Got
<1>2. SUFFICES ASSUME NEW b \in FreeBlocks, b[1] >= IDENTITY PROVE b[2] = Top
  BY <1>1 DEF FramesInv, SmallBlocksAreLow
<1>. DEFINE p == b[1]
            w == Block(p, Top)
<1>3. b \in Blocks /\ p \in RegionPages /\ p \in Run(p, b[2])
  BY <1>1, OneBlock DEF Blocks
<1>4. p \in Nat /\ p < EndPage /\ Top \in Nat /\ Top \in Order /\ IDENTITY \in Nat /\ EndPage \in Nat
  BY <1>3, Sizes, TopIs DEF RegionPages
<1>5. Aligned(w, Top) /\ w <= p /\ p < w + 2^Top /\ w \in Nat
  BY <1>4, BlockAround DEF Aligned
<1>6. p \in Run(w, Top) /\ w \in Run(w, Top)
  BY <1>4, <1>5, RunHas, BlockOfAligned
<1>. HIDE DEF w
<1>7. w >= IDENTITY
  <2>1. ~(w < IDENTITY)
    <3>1. SUFFICES ASSUME w < IDENTITY PROVE FALSE
      OBVIOUS
    <3>2. p < IDENTITY
      BY <1>4, <1>5, <1>6, <3>1, BelowIdentity
    <3>. QED
      BY <1>2, <1>4, <3>2
  <2>. QED
    BY <1>4, <1>5, <2>1
<1>8. w \in RegionPages /\ w < EndPage
  BY <1>4, <1>5, <1>7, TopIs DEF RegionPages
<1>9. PICK c \in FreeBlocks : w \in Run(c[1], c[2])
  BY <1>1, <1>8, FreeFrame
<1>. DEFINE k == c[2]
<1>10. /\ c \in Blocks /\ k \in Order /\ k \in Nat /\ k <= Top /\ Aligned(c[1], k)
       /\ c[1] \in Nat /\ c[1] \in Run(c[1], k)
  BY <1>1, <1>9, OneBlock, Sizes, TopIs DEF Blocks
<1>11. c[1] = w
  <2>1. c[1] \in Run(w, Top)
    BY <1>4, <1>5, <1>6, <1>9, <1>10, NestedOrApart
  <2>2. w <= c[1]
    BY <1>4, <1>5, <2>1, RunHas
  <2>3. c[1] <= w
    BY <1>9, <1>10, RunHas
  <2>. QED
    BY <1>5, <1>10, <2>2, <2>3
<1>12. w \in RegionStarts /\ RegionOrder(w) = k
  BY <1>9, <1>11, InitTiles DEF RegionBlocks, RegionStarts
<1>13. k = Top
  <2>1. SUFFICES ASSUME k < Top PROVE FALSE
    BY <1>4, <1>10
  <2>2. k + 1 \in Nat /\ k + 1 <= Top /\ k < MAX_ORDER - 1
    BY <1>4, <1>10, <2>1 DEF Top
  <2>3. Aligned(w, k + 1) /\ Aligned(EndPage, k + 1)
    BY <1>4, <1>5, <2>2, TopIs, AlignedBelow
  <2>4. w % 2^(k + 1) = 0
    BY <2>3 DEF Aligned
  <2>5. w + 2^(k + 1) > EndPage
    BY <1>8, <1>12, <2>2, <2>4, RegionOrderIs
  <2>6. 2^(k + 1) \in Nat
    BY <2>2, Powers
  <2>7. EndPage \in Run(w, k + 1)
    <3>1. EndPage < w + 2^(k + 1) /\ w <= EndPage
      BY <1>4, <1>5, <1>8, <2>5, <2>6
    <3>. QED
      BY <1>4, <1>5, <2>2, <3>1, RunHas
  <2>8. Block(EndPage, k + 1) = w /\ Block(EndPage, k + 1) = EndPage
    BY <2>2, <2>3, <2>7, BlockOfMember, BlockOfAligned
  <2>. QED
    BY <1>4, <1>8, <2>8
<1>14. p \in Run(c[1], c[2])
  BY <1>6, <1>11, <1>13
<1>15. b = c
  BY <1>1, <1>3, <1>10, <1>14, TwoBlocks
<1>. QED
  BY <1>13, <1>15

(* How many frames are out says where the next one comes from. *)
LEMMA FramesCount ==
  ASSUME FramesInv
  PROVE  /\ Got \subseteq RegionPages
         /\ IsFiniteSet(Got) /\ Cardinality(Got) \in Nat
         /\ Cardinality(Got) < EndPage - StartPage => Got # RegionPages
         /\ Cardinality(Got) < IDENTITY - StartPage => ~(Low \subseteq Got)
         /\ Cardinality(Got) >= IDENTITY - StartPage => Low \subseteq Got
<1>1. \A h \in held : h[1] \in RegionPages
  BY OneBlock DEF FramesInv, Blocks
<1>2. Got \subseteq RegionPages
  BY <1>1 DEF Got
<1>3. StartPage \in Nat /\ IDENTITY \in Nat /\ EndPage \in Nat /\ StartPage < IDENTITY /\ IDENTITY <= EndPage
  BY TopIs
<1>4. IsFiniteSet(RegionPages) /\ Cardinality(RegionPages) = EndPage - StartPage
  BY <1>3, FS_Interval DEF RegionPages
<1>5. IsFiniteSet(Low) /\ Cardinality(Low) = IDENTITY - StartPage
  BY <1>3, FS_Interval DEF Low
<1>6. IsFiniteSet(Got) /\ Cardinality(Got) \in Nat
  BY <1>2, <1>4, FS_Subset, FS_CardinalityType
<1>7. Cardinality(Got) < EndPage - StartPage => Got # RegionPages
  BY <1>3, <1>4, <1>6
<1>8. Low \subseteq Got => IDENTITY - StartPage <= Cardinality(Got)
  BY <1>5, <1>6, FS_Subset
<1>9. Got \subseteq Low /\ ~(Low \subseteq Got) => Cardinality(Got) < IDENTITY - StartPage
  <2>1. SUFFICES ASSUME Got \subseteq Low, ~(Low \subseteq Got) PROVE Cardinality(Got) < Cardinality(Low)
    BY <1>5
  <2>2. Cardinality(Got) <= Cardinality(Low) /\ Cardinality(Low) # Cardinality(Got)
    BY <1>5, <2>1, FS_Subset
  <2>3. Cardinality(Low) \in Nat
    BY <1>5, FS_CardinalityType
  <2>. QED
    BY <1>6, <2>2, <2>3
<1>10. Got \subseteq Low \/ Low \subseteq Got
  BY DEF FramesInv
<1>. QED
  BY <1>2, <1>3, <1>6, <1>7, <1>8, <1>9, <1>10

-----------------------------------------------------------------------------
(* Paging.  While pc is beyond "directory", everything in the page tables is
   determined by the loop and its counter. *)

Loops    == {"identity", "kernel", "framebuffer"}
Fb       == Window(fb[1], fb[2])
HeapSize == IF pc \in Loops THEN 0 ELSE HeapPage - KHEAP_START
Heap     == Window(KHEAP_START, HeapSize)
Present  == {d \in 0 .. DIRECTORY - 1 : directory[d] # None}

(* The pages mapped so far. *)
Mapping ==
  IF pc = "identity" THEN Window(0, turn)
  ELSE IF pc = "kernel" THEN Linear \cup Window(KERNEL, turn)
  ELSE IF pc = "framebuffer" THEN Linear \cup High \cup Window(fb[1], turn)
  ELSE Linear \cup High \cup Fb \cup Heap

(* The directory and every table have a frame of their own, below IDENTITY. *)
TablesInv ==
  /\ directory \in [0 .. DIRECTORY - 1 -> Page \cup {None}]
  /\ \A f \in DOMAIN tables : tables[f] \in [0 .. TABLE - 1 -> Entry]
  /\ kernel_directory \in Got \cap Low
  /\ \A d \in Present :
       /\ directory[d] \in DOMAIN tables /\ directory[d] \in Got \cap Low
       /\ directory[d] # kernel_directory
  /\ \A d, e \in Present : directory[d] = directory[e] => d = e

MappedInv ==
  /\ \A v \in Frame : Walk(v) # None <=> v \in Mapping
  /\ \A v \in Mapping \ Heap : Walk(v) = IF v \in High THEN v - KERNEL ELSE v
  /\ \A d \in 0 .. DIRECTORY - 1 : d \in Present <=> \E v \in Mapping : d = pd_index(v)

(* A frame for the heap: not that of a table or of the directory. *)
HeapFrames == {f \in Got : f # kernel_directory /\ \A d \in Present : directory[d] # f}

HeapInv ==
  /\ \A v \in Heap : Walk(v) \in HeapFrames
  /\ \A u, v \in Heap : Walk(u) = Walk(v) => u = v
  /\ pc = "map" => phys \in HeapFrames /\ \A v \in Heap : Walk(v) # phys

(* No frame is lost before the fault. *)
CountInv ==
  pc # "halted" =>
    Cardinality(Got) = 1 + Cardinality(Present) + HeapSize + (IF pc = "map" THEN 1 ELSE 0)

ControlInv ==
  /\ fb \in FbStarts \X FbSizes /\ kernel_directory \in Page /\ phys \in Page
  /\ turn \in Nat /\ heap_end \in Nat /\ new_size \in Nat \ {0}
  /\ cr3 \in {"boot", "kernel"}
  /\ pc \in Loops \cup {"directory", "switch", "frame", "map", "kmain", "halted"}
  /\ cr3 = "boot" <=> pc \in Loops \cup {"directory", "switch"}
  /\ pc \in Loops \cup {"directory", "switch"} => heap_end = KHEAP_START
  /\ pc \in {"directory", "switch", "kmain"} => turn = 0
  /\ pc \in Loops => turn < LoopEnds(pc)
  /\ pc \in {"frame", "map"} => turn < new_size
  /\ HeapSize \in 0 .. TABLE
  /\ pc = "halted" => HeapSize = TABLE /\ TableMissing(HeapPage)

BeforeInv == Got = {} /\ directory = Blank(DIRECTORY) /\ tables = <<>>

VmmInv ==
  /\ FramesInv
  /\ ControlInv
  /\ IF pc = "directory" THEN BeforeInv
     ELSE TablesInv /\ MappedInv /\ HeapInv /\ CountInv

-----------------------------------------------------------------------------
(* The windows are apart, and each has its place in the directory. *)

LEMMA WindowHas ==
  ASSUME NEW first \in Nat, NEW n \in Nat
  PROVE  /\ \A v : v \in Window(first, n) <=> v \in Nat /\ first <= v /\ v < first + n
         /\ Window(first, 0) = {}
         /\ Window(first, n + 1) = Window(first, n) \cup {first + n}
         /\ first + n \notin Window(first, n)
BY DEF Window

LEMMA MemoryIs ==
  /\ TABLE \in Nat /\ TABLE > 0 /\ DIRECTORY \in Nat /\ DIRECTORY > 0
  /\ IDENTITY \in Nat /\ KERNEL \in Nat /\ KHEAP_START \in Nat /\ TotalPages \in Nat
  /\ 0 < IDENTITY /\ IDENTITY <= TotalPages /\ IDENTITY <= KERNEL
  /\ KERNEL + IDENTITY <= KHEAP_START
  /\ KHEAP_START % TABLE = 0 /\ TABLE + TABLE <= TotalPages
  /\ KHEAP_START + TABLE + TABLE <= DIRECTORY * TABLE /\ DIRECTORY * TABLE \in Nat
  /\ KHEAP_INITIAL_SIZE \in Nat \ {0}
<1>1. 2 * TABLE <= TotalPages /\ KHEAP_START + 2 * TABLE <= DIRECTORY * TABLE
  BY MemoryAssumption
<1>2. DIRECTORY * TABLE \in Nat
  BY VmmAssumption
<1>3. \A t \in Nat : 2 * t = t + t
  OBVIOUS
<1>. QED
  BY <1>1, <1>2, <1>3, VmmAssumption, PmmAssumption

(* All that is said below of the framebuffer of this boot. *)
BootFb == fb \in FbStarts \X FbSizes

LEMMA WindowsApart ==
  ASSUME BootFb
  PROVE  /\ fb[1] \in Nat /\ fb[2] \in Nat /\ fb[2] > 0
         /\ Linear \subseteq Frame /\ High \subseteq Frame /\ Fb \subseteq Frame
         /\ Window(KHEAP_START, TABLE + TABLE) \subseteq Frame
         /\ \A v \in Linear : v \notin High /\ v \notin Fb
         /\ \A v \in High : v \notin Fb
         /\ \A v \in Window(KHEAP_START, TABLE + TABLE) :
              v \notin Linear /\ v \notin High /\ v \notin Fb
         /\ \A v \in Fb : v \notin Page
         /\ Page \subseteq Frame /\ Low \subseteq Page /\ Low \subseteq Linear
         /\ None \notin Frame
<1>1. /\ fb[1] \in Nat /\ fb[2] \in Nat /\ fb[2] > 0 /\ fb[1] >= TotalPages
      /\ fb[1] + fb[2] <= DIRECTORY * TABLE
      /\ Window(fb[1], fb[2]) \cap (High \cup Window(KHEAP_START, TotalPages)) = {}
  BY VmmAssumption DEF BootFb
<1>. DEFINE top == DIRECTORY * TABLE
<1>2. top \in Nat /\ KHEAP_START + TABLE + TABLE <= top /\ fb[1] + fb[2] <= top
  BY <1>1, MemoryIs
<1>3. \A v : v \in Frame <=> v \in Nat /\ v < top
  BY <1>2 DEF Frame, top
<1>. HIDE DEF top
<1>4. \A v : v \in Linear <=> v \in Nat /\ v < IDENTITY
  BY MemoryIs DEF Linear, Window
<1>5. \A v : v \in High <=> v \in Nat /\ KERNEL <= v /\ v < KERNEL + IDENTITY
  BY MemoryIs DEF High, Window
<1>6. \A v : v \in Fb <=> v \in Nat /\ fb[1] <= v /\ v < fb[1] + fb[2]
  BY <1>1, WindowHas DEF Fb
<1>7. /\ \A v : v \in Window(KHEAP_START, TABLE + TABLE) <=>
              v \in Nat /\ KHEAP_START <= v /\ v < KHEAP_START + TABLE + TABLE
      /\ \A v : v \in Window(KHEAP_START, TotalPages) <=>
              v \in Nat /\ KHEAP_START <= v /\ v < KHEAP_START + TotalPages
  BY MemoryIs DEF Window
<1>8. Window(KHEAP_START, TABLE + TABLE) \subseteq Window(KHEAP_START, TotalPages)
  BY <1>7, MemoryIs
<1>9. \A v \in Fb : v \notin High /\ v \notin Window(KHEAP_START, TABLE + TABLE)
  BY <1>1, <1>8 DEF Fb
<1>10. \A v : v \in Page <=> v \in Nat /\ v < TotalPages
  BY MemoryIs DEF Page
<1>11. \A v : v \in Low <=> v \in Nat /\ StartPage <= v /\ v < IDENTITY
  BY TopIs DEF Low
<1>12. Linear \subseteq Frame /\ High \subseteq Frame /\ Fb \subseteq Frame
  BY <1>1, <1>2, <1>3, <1>4, <1>5, <1>6, MemoryIs
<1>13. Window(KHEAP_START, TABLE + TABLE) \subseteq Frame
  BY <1>2, <1>3, <1>7, MemoryIs
<1>14. \A v \in Linear : v \notin High /\ v \notin Fb
  BY <1>1, <1>4, <1>5, <1>6, MemoryIs
<1>15. \A v \in Window(KHEAP_START, TABLE + TABLE) : v \notin Linear /\ v \notin High
  BY <1>4, <1>5, <1>7, MemoryIs
<1>16. \A v \in Fb : v \notin Page
  BY <1>1, <1>6, <1>10, MemoryIs
<1>17. Page \subseteq Frame
  BY <1>1, <1>2, <1>3, <1>10, MemoryIs
<1>18. Low \subseteq Page /\ Low \subseteq Linear
  BY <1>4, <1>10, <1>11, MemoryIs
<1>19. None \notin Frame
  BY <1>3 DEF None
<1>. QED
  BY <1>1, <1>9, <1>12, <1>13, <1>14, <1>15, <1>16, <1>17, <1>18, <1>19

(* A page is where its directory index and its table index say. *)
LEMMA IndexIs ==
  ASSUME NEW v \in Frame
  PROVE  /\ v \in Nat /\ pd_index(v) \in 0 .. DIRECTORY - 1 /\ pt_index(v) \in 0 .. TABLE - 1
         /\ pd_index(v) \in Nat
         /\ pd_index(v) * TABLE <= v /\ v < pd_index(v) * TABLE + TABLE
         /\ v = pd_index(v) * TABLE + pt_index(v)
<1>1. v \in Nat /\ v < DIRECTORY * TABLE /\ DIRECTORY * TABLE \in Nat
  BY MemoryIs DEF Frame
<1>. DEFINE q == v \div TABLE
<1>2. /\ q \in Nat /\ q * TABLE <= v /\ v < q * TABLE + TABLE
      /\ v % TABLE = v - q * TABLE /\ q * TABLE \in Nat
  BY <1>1, MemoryIs, Division
<1>. HIDE DEF q
<1>3. q < DIRECTORY
  <2>1. SUFFICES ASSUME DIRECTORY <= q PROVE FALSE
    BY <1>2, MemoryIs
  <2>2. DIRECTORY * TABLE <= q * TABLE
    BY <1>2, <2>1, MemoryIs
  <2>. QED
    BY <1>1, <1>2, <2>2
<1>4. v % TABLE \in 0 .. TABLE - 1 /\ v = q * TABLE + (v % TABLE)
  <2>. DEFINE a == q * TABLE
              r == v % TABLE
  <2>1. a \in Nat /\ a <= v /\ v < a + TABLE /\ r = v - a
    BY <1>2
  <2>. HIDE DEF a, r
  <2>. QED
    BY <1>1, <2>1, MemoryIs DEF a, r
<1>5. q \in 0 .. DIRECTORY - 1
  BY <1>2, <1>3, MemoryIs
<1>. QED
  BY <1>1, <1>2, <1>4, <1>5 DEF pd_index, pt_index, q

LEMMA IndexUnique ==
  ASSUME NEW u \in Frame, NEW v \in Frame,
         pd_index(u) = pd_index(v), pt_index(u) = pt_index(v)
  PROVE  u = v
BY IndexIs

(* The heap's first and second tables serve the heap alone. *)
FirstTable == pd_index(KHEAP_START)

LEMMA HeapIndex ==
  ASSUME BootFb
  PROVE  /\ FirstTable \in Nat
         /\ \A v \in Window(KHEAP_START, TABLE) : pd_index(v) = FirstTable
         /\ pd_index(KHEAP_START + TABLE) = FirstTable + 1
         /\ \A v \in Linear \cup High \cup Fb :
              pd_index(v) # FirstTable /\ pd_index(v) # FirstTable + 1
<1>. DEFINE q == FirstTable
<1>1. q \in Nat /\ q * TABLE = KHEAP_START
  BY MemoryIs, Division DEF FirstTable, pd_index
<1>2. (q + 1) * TABLE = KHEAP_START + TABLE
  BY <1>1, MemoryIs
<1>. HIDE DEF q
<1>3. ASSUME NEW v \in Window(KHEAP_START, TABLE) PROVE pd_index(v) = q
  <2>1. v \in Nat /\ q * TABLE <= v /\ v < q * TABLE + TABLE
    BY <1>1, <1>3, MemoryIs, WindowHas
  <2>. QED
    BY <1>1, <2>1, MemoryIs, Quotient DEF pd_index
<1>4. pd_index(KHEAP_START + TABLE) = q + 1
  <2>1. /\ KHEAP_START + TABLE \in Nat /\ q + 1 \in Nat
        /\ (q + 1) * TABLE <= KHEAP_START + TABLE
        /\ KHEAP_START + TABLE < (q + 1) * TABLE + TABLE
    BY <1>1, <1>2, MemoryIs
  <2>. QED
    BY <2>1, MemoryIs, Quotient DEF pd_index
<1>5. ASSUME NEW v \in Linear \cup High \cup Fb
      PROVE  pd_index(v) # q /\ pd_index(v) # q + 1
  <2>1. v \in Frame /\ v \notin Window(KHEAP_START, TABLE + TABLE)
    BY <1>5, WindowsApart
  <2>2. v \in Nat /\ (v < KHEAP_START \/ KHEAP_START + TABLE + TABLE <= v)
    <3>1. v \in Nat
      BY <2>1, IndexIs
    <3>. QED
      BY <2>1, <3>1, MemoryIs DEF Window
  <2>3. pd_index(v) * TABLE <= v /\ v < pd_index(v) * TABLE + TABLE
    BY <2>1, IndexIs
  <2>. QED
    BY <1>1, <1>2, <2>2, <2>3, MemoryIs
<1>. QED
  BY <1>1, <1>3, <1>4, <1>5 DEF q

-----------------------------------------------------------------------------
(* One call of vmm_map_page that does not fault: the table is the one that the
   directory has or a new one, and no other page is touched. *)
LEMMA MapStep ==
  ASSUME BootFb, TablesInv, NEW v \in Frame, NEW p \in Frame,
         vmm_map_page(v, p), Reached(TableFor(v)), kernel_directory' = kernel_directory,
         TableMissing(v) => /\ NextFrame \in Low /\ NextFrame \notin Got
                            /\ Got' = Got \cup {NextFrame}
  PROVE  /\ TablesInv'
         /\ \A u \in Frame : Walk(u)' = IF u = v THEN p ELSE Walk(u)
         /\ Present' = Present \cup {pd_index(v)}
         /\ Got \subseteq Got'
         /\ HeapFrames \subseteq HeapFrames'
<1>. DEFINE d == pd_index(v)
            c == pt_index(v)
            t == TableFor(v)
            entries == IF TableMissing(v) THEN Blank(TABLE) ELSE tables[t]
<1>1. /\ directory' = [directory EXCEPT ![d] = t]
      /\ tables' = [f \in {t} \cup DOMAIN tables |->
           IF f = t THEN [entries EXCEPT ![c] = p] ELSE tables[f]]
  BY DEF vmm_map_page
<1>2. d \in 0 .. DIRECTORY - 1 /\ c \in 0 .. TABLE - 1
  BY IndexIs
<1>3. Page \subseteq Frame /\ Low \subseteq Page /\ None \notin Frame /\ None \notin Page
  BY WindowsApart
<1>4. /\ directory \in [0 .. DIRECTORY - 1 -> Page \cup {None}]
      /\ \A f \in DOMAIN tables : tables[f] \in [0 .. TABLE - 1 -> Entry]
      /\ kernel_directory \in Got \cap Low
      /\ \A e \in Present : /\ directory[e] \in DOMAIN tables /\ directory[e] \in Got \cap Low
                            /\ directory[e] # kernel_directory
      /\ \A e, g \in Present : directory[e] = directory[g] => e = g
  BY DEF TablesInv
<1>5. Got \subseteq Got'
  <2>1. CASE ~TableMissing(v)
    <3>1. held' = held
      BY <2>1 DEF vmm_map_page, pmmVars, vars
    <3>. QED
      BY <3>1 DEF Got
  <2>. QED
    BY <2>1
<1>6. d \in Present <=> ~TableMissing(v)
  BY <1>2 DEF Present, TableMissing
<1>7. /\ t \in Low /\ t \in Got' /\ t # kernel_directory /\ t \in Page /\ t # None
      /\ \A e \in Present : e # d => directory[e] # t
      /\ \A f \in HeapFrames : f # t
  <2>1. CASE TableMissing(v)
    <3>1. t = NextFrame
      BY <2>1 DEF TableFor
    <3>. QED
      BY <1>3, <1>4, <2>1, <3>1 DEF HeapFrames
  <2>2. CASE ~TableMissing(v)
    <3>1. t = directory[d] /\ d \in Present
      BY <1>6, <2>2 DEF TableFor
    <3>. QED
      BY <1>3, <1>4, <1>5, <3>1 DEF HeapFrames
  <2>. QED
    BY <2>1, <2>2
<1>8. entries \in [0 .. TABLE - 1 -> Entry]
  <2>1. CASE TableMissing(v)
    BY <2>1 DEF Blank, Entry
  <2>2. CASE ~TableMissing(v)
    <3>1. t = directory[d] /\ d \in Present
      BY <1>6, <2>2 DEF TableFor
    <3>. QED
      BY <1>4, <2>2, <3>1
  <2>. QED
    BY <2>1, <2>2
<1>. HIDE DEF t, entries, d, c
<1>9. /\ directory' \in [0 .. DIRECTORY - 1 -> Page \cup {None}] /\ directory'[d] = t
      /\ \A e \in 0 .. DIRECTORY - 1 : e # d => directory'[e] = directory[e]
  BY <1>1, <1>2, <1>4, <1>7
<1>10. /\ DOMAIN tables' = {t} \cup DOMAIN tables
       /\ tables'[t] = [entries EXCEPT ![c] = p]
       /\ \A f \in DOMAIN tables : f # t => tables'[f] = tables[f]
  BY <1>1
<1>11. Present' = Present \cup {d}
  BY <1>2, <1>7, <1>9 DEF Present
<1>12. /\ tables'[t] \in [0 .. TABLE - 1 -> Entry] /\ tables'[t][c] = p
       /\ \A g \in 0 .. TABLE - 1 : g # c => tables'[t][g] = entries[g]
  BY <1>2, <1>8, <1>10 DEF Entry
<1>13. TablesInv'
  <2>1. \A f \in DOMAIN tables' : tables'[f] \in [0 .. TABLE - 1 -> Entry]
    BY <1>4, <1>10, <1>12
  <2>2. (\A e \in Present : /\ directory[e] \in DOMAIN tables /\ directory[e] \in Got \cap Low
                            /\ directory[e] # kernel_directory)'
    <3>1. SUFFICES ASSUME NEW e \in Present'
                   PROVE  /\ directory'[e] \in DOMAIN tables' /\ directory'[e] \in Got' \cap Low
                          /\ directory'[e] # kernel_directory
      BY DEF Low
    <3>2. CASE e = d
      BY <1>7, <1>9, <1>10, <3>2
    <3>3. CASE e # d
      <4>1. e \in Present /\ directory'[e] = directory[e]
        BY <1>9, <1>11, <3>1, <3>3 DEF Present
      <4>. QED
        BY <1>4, <1>5, <1>10, <4>1
    <3>. QED
      BY <3>2, <3>3
  <2>3. ASSUME NEW e \in Present', NEW g \in Present', directory'[e] = directory'[g]
        PROVE  e = g
    <3>1. \A h \in Present' : h # d => h \in Present /\ directory'[h] = directory[h]
      BY <1>9, <1>11 DEF Present
    <3>. QED
      BY <1>4, <1>7, <1>9, <2>3, <3>1
  <2>4. (kernel_directory \in Got \cap Low)'
    BY <1>4, <1>5 DEF Low
  <2>. QED
    BY <1>9, <2>1, <2>2, <2>3, <2>4 DEF TablesInv, Page, Entry, Frame
<1>14. ASSUME NEW u \in Frame PROVE Walk(u)' = IF u = v THEN p ELSE Walk(u)
  <2>. DEFINE a == pd_index(u)
              b == pt_index(u)
  <2>1. a \in 0 .. DIRECTORY - 1 /\ b \in 0 .. TABLE - 1
    BY IndexIs
  <2>2. Walk(u)' = IF directory'[a] = None THEN None ELSE tables'[directory'[a]][b]
    BY DEF Walk, pd_index, pt_index, None
  <2>3. Walk(u) = IF directory[a] = None THEN None ELSE tables[directory[a]][b]
    BY DEF Walk
  <2>4. u = v <=> a = d /\ b = c
    BY IndexUnique DEF d, c
  <2>. HIDE DEF a, b
  <2>5. CASE a # d
    <3>1. directory'[a] = directory[a]
      BY <1>9, <2>1, <2>5
    <3>2. directory[a] # None =>
            directory[a] # t /\ tables'[directory[a]] = tables[directory[a]]
      BY <1>4, <1>7, <1>10, <2>1, <2>5 DEF Present
    <3>. QED
      BY <2>2, <2>3, <2>4, <2>5, <3>1, <3>2
  <2>6. CASE a = d /\ b = c
    BY <1>7, <1>9, <1>12, <2>2, <2>4, <2>6
  <2>7. CASE a = d /\ b # c
    <3>1. Walk(u)' = entries[b]
      BY <1>7, <1>9, <1>12, <2>1, <2>2, <2>7
    <3>2. Walk(u) = entries[b]
      <4>1. CASE TableMissing(v)
        <5>1. directory[a] = None
          BY <2>7, <4>1 DEF TableMissing, d
        <5>2. entries[b] = None
          BY <2>1, <4>1 DEF entries, Blank
        <5>. QED
          BY <2>3, <5>1, <5>2
      <4>2. CASE ~TableMissing(v)
        <5>1. directory[a] # None /\ t = directory[a] /\ entries = tables[t]
          BY <2>7, <4>2 DEF TableMissing, TableFor, d, t, entries
        <5>. QED
          BY <2>3, <5>1
      <4>. QED
        BY <4>1, <4>2
    <3>. QED
      BY <2>4, <2>7, <3>1, <3>2
  <2>. QED
    BY <2>5, <2>6, <2>7
<1>15. HeapFrames \subseteq HeapFrames'
  <2>1. SUFFICES ASSUME NEW f \in HeapFrames PROVE f \in HeapFrames'
    OBVIOUS
  <2>2. f \in Got' /\ f # kernel_directory /\ f # t
    BY <1>5, <1>7 DEF HeapFrames
  <2>3. ASSUME NEW e \in Present' PROVE directory'[e] # f
    <3>1. CASE e = d
      BY <1>9, <2>2, <3>1
    <3>2. CASE e # d
      <4>1. e \in Present /\ directory'[e] = directory[e]
        BY <1>9, <1>11, <2>3, <3>2 DEF Present
      <4>. QED
        BY <4>1 DEF HeapFrames
    <3>. QED
      BY <3>1, <3>2
  <2>. QED
    BY <2>2, <2>3 DEF HeapFrames
<1>. QED
  BY <1>5, <1>11, <1>13, <1>14, <1>15 DEF d

LEMMA FramesStay == FramesInv /\ UNCHANGED pmmVars => FramesInv' /\ Got' = Got
<1>. SUFFICES ASSUME FramesInv, UNCHANGED pmmVars PROVE FramesInv' /\ Got' = Got
  OBVIOUS
<1>1. held' = held /\ free_lists' = free_lists /\ UNCHANGED vars
  BY DEF pmmVars, vars
<1>2. Got' = Got
  BY <1>1 DEF Got
<1>3. FreeBlocks' = FreeBlocks
  BY <1>1, ZenonT(60) DEF FreeBlocks
<1>4. PmmInv'
  BY <1>1, NextInv DEF FramesInv
<1>5. \A h \in held' : h[2] = 0
  BY <1>1 DEF FramesInv
<1>6. SmallBlocksAreLow'
  BY <1>2, <1>3 DEF FramesInv, SmallBlocksAreLow, Low, Top
<1>7. (Got \subseteq Low \/ Low \subseteq Got)'
  BY <1>2 DEF FramesInv, Low
<1>. QED
  BY <1>2, <1>4, <1>5, <1>6, <1>7 DEF FramesInv

(* The page tables that vmm_init makes. *)
Needed == {pd_index(v) : v \in Linear \cup High \cup Fb}

LEMMA NeededIs ==
  ASSUME BootFb
  PROVE  /\ IsFiniteSet(Needed) /\ Cardinality(Needed) \in Nat
         /\ Cardinality(Needed) + 2 < IDENTITY - StartPage
         /\ IDENTITY - StartPage <= Cardinality(Needed) + TABLE + 3
         /\ Cardinality(Needed) + TABLE + 3 < EndPage - StartPage
<1>1. Needed \subseteq 0 .. DIRECTORY - 1
  BY WindowsApart, IndexIs DEF Needed
<1>2. IsFiniteSet(0 .. DIRECTORY - 1)
  BY MemoryIs, FS_Interval
<1>3. IsFiniteSet(Needed)
  BY <1>1, <1>2, FS_Subset
<1>4. /\ Cardinality(Needed) + 2 < IDENTITY - StartPage
      /\ IDENTITY - StartPage <= Cardinality(Needed) + TABLE + 3
      /\ Cardinality(Needed) + TABLE + 3 < EndPage - StartPage
  BY MemoryAssumption DEF BootFb, Needed, Fb
<1>. QED
  BY <1>3, <1>4, FS_CardinalityType

LEMMA PresentIs == IsFiniteSet(Present) /\ Cardinality(Present) \in Nat
<1>1. Present \subseteq 0 .. DIRECTORY - 1 /\ IsFiniteSet(0 .. DIRECTORY - 1)
  BY MemoryIs, FS_Interval DEF Present
<1>. QED
  BY <1>1, FS_Subset, FS_CardinalityType

(* The loops of vmm_init stay within their windows, those of kheap.c within the
   heap's first table. *)
LEMMA MappingHas ==
  ASSUME ControlInv
  PROVE  /\ BootFb /\ HeapSize \in Nat /\ HeapSize <= TABLE
         /\ Heap = Window(KHEAP_START, HeapSize)
         /\ Heap \subseteq Window(KHEAP_START, TABLE)
         /\ Heap \subseteq Window(KHEAP_START, TABLE + TABLE)
         /\ Mapping \subseteq Frame
         /\ Heap \subseteq Mapping
         /\ Mapping \ Heap \subseteq Linear \cup High \cup Fb
         /\ pc \notin Loops => /\ Mapping = Linear \cup High \cup Fb \cup Heap
                               /\ HeapPage = KHEAP_START + HeapSize
                               /\ HeapPage \in Window(KHEAP_START, TABLE + TABLE)
                               /\ HeapPage \notin Mapping
<1>1. BootFb /\ HeapSize \in Nat /\ HeapSize <= TABLE /\ Heap = Window(KHEAP_START, HeapSize)
  BY MemoryIs DEF ControlInv, BootFb, Heap
<1>2. /\ Heap \subseteq Window(KHEAP_START, TABLE)
      /\ Heap \subseteq Window(KHEAP_START, TABLE + TABLE)
  BY <1>1, MemoryIs DEF Window
<1>3. turn \in Nat /\ heap_end \in Nat
  BY DEF ControlInv
<1>4. /\ Linear \subseteq Frame /\ High \subseteq Frame /\ Fb \subseteq Frame
      /\ Window(KHEAP_START, TABLE + TABLE) \subseteq Frame
  BY <1>1, WindowsApart
<1>5. ASSUME pc \in Loops
      PROVE  Heap = {} /\ Mapping \subseteq Linear \cup High \cup Fb
  <2>1. Heap = {}
    BY <1>1, <1>5, MemoryIs, WindowHas DEF HeapSize
  <2>2. turn < LoopEnds(pc)
    BY <1>5 DEF ControlInv
  <2>3. pc = "identity" => Window(0, turn) \subseteq Linear
    BY <1>3, <2>2, MemoryIs DEF LoopEnds, Window, Linear
  <2>4. pc = "kernel" => Window(KERNEL, turn) \subseteq High
    BY <1>3, <2>2, MemoryIs DEF LoopEnds, Window, High
  <2>5. pc = "framebuffer" => Window(fb[1], turn) \subseteq Fb
    <3>1. pc = "framebuffer" => turn < fb[2]
      BY <2>2 DEF LoopEnds
    <3>2. fb[1] \in Nat /\ fb[2] \in Nat
      BY <1>1, WindowsApart
    <3>. QED
      BY <1>3, <3>1, <3>2 DEF Window, Fb
  <2>. QED
    BY <1>5, <2>1, <2>3, <2>4, <2>5 DEF Mapping, Loops
<1>6. ASSUME pc \notin Loops
      PROVE  /\ Mapping = Linear \cup High \cup Fb \cup Heap
             /\ HeapPage = KHEAP_START + HeapSize
             /\ HeapPage \in Window(KHEAP_START, TABLE + TABLE)
             /\ HeapPage \notin Mapping
  <2>1. Mapping = Linear \cup High \cup Fb \cup Heap
    BY <1>6 DEF Mapping, Loops
  <2>2. HeapPage = KHEAP_START + HeapSize
    BY <1>3, <1>6, MemoryIs DEF HeapSize, HeapPage
  <2>3. HeapPage \in Window(KHEAP_START, TABLE + TABLE)
    BY <1>1, <2>2, MemoryIs DEF Window
  <2>4. HeapPage \notin Heap
    BY <1>1, <2>2, MemoryIs, WindowHas
  <2>. QED
    BY <1>1, <2>1, <2>2, <2>3, <2>4, WindowsApart
<1>. QED
  BY <1>1, <1>2, <1>4, <1>5, <1>6

(* A call of vmm_map_page for which there is a table, or a frame left that is
   mapped to itself, does not fault. *)
LEMMA TableReached ==
  ASSUME FramesInv, ControlInv, TablesInv, MappedInv, NEW v \in Frame, NEW p,
         vmm_map_page(v, p), pc # "directory",
         TableMissing(v) => Cardinality(Got) < IDENTITY - StartPage
  PROVE  /\ FramesInv' /\ TableFor(v) \in Low /\ Reached(TableFor(v))
         /\ TableMissing(v) => /\ NextFrame \in Low /\ NextFrame \notin Got
                               /\ Got' = Got \cup {NextFrame}
         /\ ~TableMissing(v) => Got' = Got
<1>1. BootFb /\ Low \subseteq Linear /\ Linear \subseteq Frame
  BY MappingHas, WindowsApart
<1>2. ASSUME TableMissing(v)
      PROVE  /\ FramesInv' /\ TableFor(v) \in Low /\ NextFrame \in Low
             /\ NextFrame \notin Got /\ Got' = Got \cup {NextFrame}
  <2>1. Cardinality(Got) \in Nat /\ ~(Low \subseteq Got) /\ Got # RegionPages
    <3>1. Cardinality(Got) < IDENTITY - StartPage
      BY <1>2
    <3>2. IDENTITY - StartPage <= EndPage - StartPage
      BY TopIs
    <3>. QED
      BY <3>1, <3>2, TopIs, FramesCount
  <2>2. pmm_alloc_page
    BY <1>2 DEF vmm_map_page
  <2>3. /\ FramesInv' /\ NextFrame \in Low /\ NextFrame \notin Got
        /\ Got' = Got \cup {NextFrame}
    BY <2>1, <2>2, AllocFrame
  <2>. QED
    BY <1>2, <2>3 DEF TableFor
<1>3. ASSUME ~TableMissing(v)
      PROVE  FramesInv' /\ TableFor(v) \in Low /\ Got' = Got
  <2>1. UNCHANGED pmmVars
    BY <1>3 DEF vmm_map_page
  <2>2. pd_index(v) \in Present /\ TableFor(v) = directory[pd_index(v)]
    BY <1>3, IndexIs DEF Present, TableMissing, TableFor
  <2>. QED
    BY <1>3, <2>1, <2>2, FramesStay DEF TablesInv
<1>4. TableFor(v) \in Low
  BY <1>2, <1>3
<1>5. Reached(TableFor(v))
  <2>. DEFINE t == TableFor(v)
  <2>1. t \in Linear /\ t \in Frame
    BY <1>1, <1>4
  <2>. HIDE DEF t
  <2>2. CASE cr3 = "boot"
    BY <2>1, <2>2 DEF Reached, Translate, BootWalk, t
  <2>3. CASE cr3 # "boot"
    <3>1. pc \notin Loops
      BY <2>3 DEF ControlInv
    <3>2. t \in Mapping /\ t \notin Heap /\ t \notin High
      BY <2>1, <3>1, MappingHas, WindowsApart
    <3>3. Walk(t) = t
      BY <3>2 DEF MappedInv
    <3>. QED
      BY <2>3, <3>3 DEF Reached, Translate, t
  <2>. QED
    BY <2>2, <2>3
<1>. QED
  BY <1>2, <1>3, <1>4, <1>5

(* One page more is mapped. *)
LEMMA MapInv ==
  ASSUME FramesInv, ControlInv, TablesInv, MappedInv, pc # "directory",
         NEW v \in Frame, NEW p \in Frame, vmm_map_page(v, p), v \notin Mapping,
         TableMissing(v) => Cardinality(Got) < IDENTITY - StartPage,
         kernel_directory' = kernel_directory, Mapping' = Mapping \cup {v},
         Heap \subseteq Heap', Heap' \subseteq Heap \cup {v},
         v \notin Heap' => p = IF v \in High THEN v - KERNEL ELSE v
  PROVE  /\ FramesInv' /\ TablesInv' /\ MappedInv'
         /\ \A u \in Frame : Walk(u)' = IF u = v THEN p ELSE Walk(u)
         /\ HeapFrames \subseteq HeapFrames'
         /\ Cardinality(Got') - Cardinality(Present')
              = Cardinality(Got) - Cardinality(Present)
<1>1. /\ FramesInv' /\ TableFor(v) \in Low /\ Reached(TableFor(v))
      /\ TableMissing(v) => /\ NextFrame \in Low /\ NextFrame \notin Got
                            /\ Got' = Got \cup {NextFrame}
      /\ ~TableMissing(v) => Got' = Got
  BY TableReached
<1>2. BootFb /\ Mapping \subseteq Frame /\ None \notin Frame
  BY MappingHas, WindowsApart
<1>3. /\ TablesInv'
      /\ \A u \in Frame : Walk(u)' = IF u = v THEN p ELSE Walk(u)
      /\ Present' = Present \cup {pd_index(v)}
      /\ HeapFrames \subseteq HeapFrames'
  BY <1>1, <1>2, MapStep
<1>4. MappedInv'
  <2>1. ASSUME NEW u \in Frame PROVE Walk(u)' # None <=> u \in Mapping'
    BY <1>2, <1>3 DEF MappedInv
  <2>2. ASSUME NEW u \in Mapping' \ Heap'
        PROVE  Walk(u)' = IF u \in High THEN u - KERNEL ELSE u
    <3>1. u \in Frame
      BY <1>2
    <3>2. CASE u = v
      BY <1>3, <2>2, <3>1, <3>2
    <3>3. CASE u # v
      <4>1. u \in Mapping \ Heap
        BY <2>2, <3>3
      <4>. QED
        BY <1>3, <3>1, <3>3, <4>1 DEF MappedInv
    <3>. QED
      BY <3>2, <3>3
  <2>3. ASSUME NEW d \in 0 .. DIRECTORY - 1
        PROVE  d \in Present' <=> \E u \in Mapping' : d = pd_index(u)
    BY <1>3 DEF MappedInv
  <2>. QED
    BY <2>1, <2>2, <2>3 DEF MappedInv, Frame, None, High, Window, pd_index
<1>5. Cardinality(Got') - Cardinality(Present') = Cardinality(Got) - Cardinality(Present)
  <2>1. /\ IsFiniteSet(Got) /\ IsFiniteSet(Present)
        /\ Cardinality(Got) \in Nat /\ Cardinality(Present) \in Nat
    BY FramesCount, PresentIs
  <2>2. pd_index(v) \in Present <=> ~TableMissing(v)
    BY IndexIs DEF Present, TableMissing
  <2>3. CASE TableMissing(v)
    <3>1. Cardinality(Got') = Cardinality(Got) + 1
      BY <1>1, <2>1, <2>3, FS_AddElement
    <3>2. Cardinality(Present') = Cardinality(Present) + 1
      BY <1>3, <2>1, <2>2, <2>3, FS_AddElement
    <3>. QED
      BY <2>1, <3>1, <3>2
  <2>4. CASE ~TableMissing(v)
    <3>1. Got' = Got /\ Present' = Present
      BY <1>1, <1>3, <2>2, <2>4
    <3>. QED
      BY <3>1
  <2>. QED
    BY <2>3, <2>4
<1>. QED
  BY <1>1, <1>3, <1>4, <1>5

LEMMA TablesStay ==
  ASSUME TablesInv, MappedInv, UNCHANGED tableVars, kernel_directory' = kernel_directory,
         Got \subseteq Got', Mapping' = Mapping, Heap' = Heap
  PROVE  /\ TablesInv' /\ MappedInv' /\ Present' = Present
         /\ \A v : Walk(v)' = Walk(v)
         /\ HeapFrames \subseteq HeapFrames'
<1>1. directory' = directory /\ tables' = tables
  BY DEF tableVars
<1>2. Present' = Present
  BY <1>1 DEF Present, None
<1>3. \A v : Walk(v)' = Walk(v)
  BY <1>1 DEF Walk, pd_index, pt_index, None
<1>4. TablesInv'
  BY <1>1, <1>2 DEF TablesInv, Page, Low, Entry, Frame, None
<1>5. MappedInv'
  BY <1>2, <1>3 DEF MappedInv, Frame, None, High, Window, pd_index
<1>6. HeapFrames \subseteq HeapFrames'
  BY <1>1, <1>2 DEF HeapFrames
<1>. QED
  BY <1>2, <1>3, <1>4, <1>5, <1>6

(* The frame for the directory is mapped to itself. *)
LEMMA AllocDirectoryInv == VmmInv /\ AllocDirectory => VmmInv'
<1>. SUFFICES ASSUME VmmInv, AllocDirectory PROVE VmmInv'
  OBVIOUS
<1>1. /\ pc = "directory" /\ pmm_alloc_page /\ kernel_directory' = NextFrame
      /\ pc' = IF Reached(NextFrame) THEN "identity" ELSE "halted"
      /\ fb' = fb /\ directory' = directory /\ tables' = tables /\ cr3' = cr3 /\ turn' = turn
      /\ heap_end' = heap_end /\ new_size' = new_size /\ phys' = phys
  BY DEF AllocDirectory, Continue, tableVars, heapVars
<1>2. FramesInv /\ ControlInv /\ BeforeInv
  BY <1>1 DEF VmmInv
<1>3. BootFb /\ Low \subseteq Linear /\ Low \subseteq Page
  BY <1>2, MappingHas, WindowsApart
<1>4. StartPage \in Low /\ StartPage \in RegionPages
  BY TopIs DEF Low, RegionPages
<1>5. /\ FramesInv' /\ NextFrame \in Low /\ NextFrame \notin Got
      /\ Got' = Got \cup {NextFrame}
  BY <1>1, <1>2, <1>4, AllocFrame DEF BeforeInv
<1>6. pc' = "identity"
  <2>1. cr3 = "boot"
    BY <1>1, <1>2 DEF ControlInv
  <2>2. Reached(NextFrame)
    BY <1>3, <1>5, <2>1 DEF Reached, Translate, BootWalk
  <2>. QED
    BY <1>1, <2>2
<1>7. directory' = Blank(DIRECTORY) /\ tables' = <<>> /\ Got = {}
  BY <1>1, <1>2 DEF BeforeInv
<1>8. Present' = {}
  BY <1>7 DEF Present, Blank
<1>9. Mapping' = {} /\ Heap' = {} /\ HeapSize' = 0
  <2>1. turn' = 0
    BY <1>1, <1>2 DEF ControlInv
  <2>2. HeapSize' = 0
    BY <1>6 DEF HeapSize, Loops
  <2>3. Heap' = {}
    BY <2>2, MemoryIs, WindowHas DEF Heap
  <2>4. Mapping' = Window(0, 0)
    BY <1>6, <2>1 DEF Mapping, Window
  <2>. QED
    BY <2>2, <2>3, <2>4, WindowHas
<1>10. TablesInv'
  <2>1. directory' \in [0 .. DIRECTORY - 1 -> Page \cup {None}]
    BY <1>7 DEF Blank
  <2>2. DOMAIN tables' = {}
    BY <1>7
  <2>. QED
    BY <1>1, <1>5, <1>8, <2>1, <2>2 DEF TablesInv, Low, Page, None, Entry, Frame
<1>11. MappedInv'
  <2>1. ASSUME NEW v \in Frame PROVE Walk(v)' = None
    <3>1. pd_index(v) \in 0 .. DIRECTORY - 1
      BY IndexIs
    <3>2. directory'[pd_index(v)] = None
      BY <1>7, <3>1 DEF Blank
    <3>. QED
      BY <3>2 DEF Walk, pd_index, None
  <2>. QED
    BY <1>8, <1>9, <2>1 DEF MappedInv, Frame, None
<1>12. HeapInv'
  BY <1>6, <1>9 DEF HeapInv
<1>13. CountInv'
  <2>1. Cardinality(Got') = 1 /\ Cardinality(Present') = 0
    BY <1>5, <1>7, <1>8, FS_EmptySet, FS_Singleton
  <2>. QED
    BY <1>6, <1>9, <2>1 DEF CountInv
<1>14. ControlInv'
  <2>1. kernel_directory' \in Page /\ phys' \in Page
    BY <1>1, <1>2, <1>3, <1>5 DEF ControlInv
  <2>2. (turn < LoopEnds(pc))'
    BY <1>1, <1>2, <1>6, MemoryIs DEF ControlInv, LoopEnds
  <2>. QED
    BY <1>1, <1>2, <1>6, <1>9, <2>1, <2>2, MemoryIs DEF ControlInv, Loops, Page
<1>. QED
  BY <1>5, <1>6, <1>10, <1>11, <1>12, <1>13, <1>14 DEF VmmInv

LEMMA SwitchInv == VmmInv /\ Switch => VmmInv'
<1>. SUFFICES ASSUME VmmInv, Switch PROVE VmmInv'
  OBVIOUS
<1>1. /\ pc = "switch" /\ pc' = "frame" /\ cr3' = "kernel"
      /\ UNCHANGED pmmVars /\ UNCHANGED tableVars
      /\ fb' = fb /\ kernel_directory' = kernel_directory /\ turn' = turn
      /\ heap_end' = heap_end /\ new_size' = new_size /\ phys' = phys
  BY DEF Switch, heapVars
<1>2. FramesInv /\ ControlInv /\ TablesInv /\ MappedInv /\ HeapInv /\ CountInv
  BY <1>1 DEF VmmInv
<1>3. HeapSize' = HeapSize /\ Heap' = Heap /\ Mapping' = Mapping
  <2>1. HeapSize' = HeapSize
    BY <1>1 DEF HeapSize, HeapPage, Loops
  <2>2. Heap' = Heap
    BY <2>1 DEF Heap, Window
  <2>3. Fb' = Fb
    BY <1>1 DEF Fb, Window
  <2>4. Mapping = Linear \cup High \cup Fb \cup Heap
    BY <1>1 DEF Mapping
  <2>5. Mapping' = Linear \cup High \cup Fb' \cup Heap'
    BY <1>1 DEF Mapping, Linear, High, Window
  <2>. QED
    BY <2>1, <2>2, <2>3, <2>4, <2>5
<1>4. FramesInv' /\ Got' = Got
  BY <1>1, <1>2, FramesStay
<1>5. /\ TablesInv' /\ MappedInv' /\ Present' = Present
      /\ \A v : Walk(v)' = Walk(v)
      /\ HeapFrames \subseteq HeapFrames'
  BY <1>1, <1>2, <1>3, <1>4, TablesStay
<1>6. HeapInv'
  BY <1>1, <1>2, <1>3, <1>5 DEF HeapInv
<1>7. CountInv'
  BY <1>1, <1>2, <1>3, <1>4, <1>5 DEF CountInv
<1>8. ControlInv'
  BY <1>1, <1>2, <1>3 DEF ControlInv, Loops, Page
<1>. QED
  BY <1>1, <1>4, <1>5, <1>6, <1>7, <1>8 DEF VmmInv

LEMMA ExpandInv == VmmInv /\ Expand => VmmInv'
<1>. SUFFICES ASSUME VmmInv, Expand PROVE VmmInv'
  OBVIOUS
<1>1. /\ pc = "kmain" /\ pc' = "frame" /\ cr3' = cr3 /\ new_size' \in Expansions
      /\ UNCHANGED pmmVars /\ UNCHANGED tableVars
      /\ fb' = fb /\ kernel_directory' = kernel_directory /\ turn' = turn
      /\ heap_end' = heap_end /\ phys' = phys
  BY DEF Expand
<1>2. FramesInv /\ ControlInv /\ TablesInv /\ MappedInv /\ HeapInv /\ CountInv
  BY <1>1 DEF VmmInv
<1>3. HeapSize' = HeapSize /\ Heap' = Heap /\ Mapping' = Mapping
  <2>1. HeapSize' = HeapSize
    BY <1>1 DEF HeapSize, HeapPage, Loops
  <2>2. Heap' = Heap
    BY <2>1 DEF Heap, Window
  <2>3. Fb' = Fb
    BY <1>1 DEF Fb, Window
  <2>4. Mapping = Linear \cup High \cup Fb \cup Heap
    BY <1>1 DEF Mapping
  <2>5. Mapping' = Linear \cup High \cup Fb' \cup Heap'
    BY <1>1 DEF Mapping, Linear, High, Window
  <2>. QED
    BY <2>1, <2>2, <2>3, <2>4, <2>5
<1>4. FramesInv' /\ Got' = Got
  BY <1>1, <1>2, FramesStay
<1>5. /\ TablesInv' /\ MappedInv' /\ Present' = Present
      /\ \A v : Walk(v)' = Walk(v)
      /\ HeapFrames \subseteq HeapFrames'
  BY <1>1, <1>2, <1>3, <1>4, TablesStay
<1>6. HeapInv'
  BY <1>1, <1>2, <1>3, <1>5 DEF HeapInv
<1>7. CountInv'
  BY <1>1, <1>2, <1>3, <1>4, <1>5 DEF CountInv
<1>8. ControlInv'
  <2>1. new_size' \in Nat \ {0}
    BY <1>1, VmmAssumption
  <2>2. turn' < new_size'
    BY <1>1, <1>2, <2>1 DEF ControlInv
  <2>. QED
    BY <1>1, <1>2, <1>3, <2>1, <2>2 DEF ControlInv, Loops, Page
<1>. QED
  BY <1>1, <1>4, <1>5, <1>6, <1>7, <1>8 DEF VmmInv

(* How many tables there are. *)
LEMMA TablesCount ==
  ASSUME ControlInv, MappedInv
  PROVE  /\ pc \in Loops => Present \subseteq Needed
         /\ pc \notin Loops /\ HeapSize = 0 => Present = Needed
         /\ pc \notin Loops /\ HeapSize > 0 =>
              /\ Cardinality(Present) = Cardinality(Needed) + 1
              /\ FirstTable \in Present
         /\ FirstTable + 1 \notin Present
<1>1. /\ BootFb /\ HeapSize \in Nat /\ HeapSize <= TABLE
      /\ Heap = Window(KHEAP_START, HeapSize)
      /\ Heap \subseteq Window(KHEAP_START, TABLE)
      /\ Mapping \ Heap \subseteq Linear \cup High \cup Fb
      /\ pc \notin Loops => Mapping = Linear \cup High \cup Fb \cup Heap
  BY MappingHas
<1>2. \A d : d \in Present <=> \E v \in Mapping : d = pd_index(v)
  <2>1. \A v \in Mapping : pd_index(v) \in 0 .. DIRECTORY - 1
    BY MappingHas, IndexIs
  <2>. QED
    BY <2>1 DEF MappedInv, Present
<1>3. pc \in Loops => Present \subseteq Needed
  <2>1. SUFFICES ASSUME pc \in Loops, NEW d \in Present PROVE d \in Needed
    OBVIOUS
  <2>2. Heap = {}
    BY <1>1, <2>1, MemoryIs, WindowHas DEF HeapSize
  <2>. QED
    BY <1>1, <1>2, <2>1, <2>2 DEF Needed
<1>4. pc \notin Loops /\ HeapSize = 0 => Present = Needed
  <2>1. SUFFICES ASSUME pc \notin Loops, HeapSize = 0 PROVE Present = Needed
    OBVIOUS
  <2>2. Heap = {}
    BY <1>1, <2>1, MemoryIs, WindowHas
  <2>. QED
    BY <1>1, <1>2, <2>1, <2>2 DEF Needed
<1>5. /\ \A v \in Heap : pd_index(v) = FirstTable
      /\ \A v \in Linear \cup High \cup Fb : pd_index(v) # FirstTable /\ pd_index(v) # FirstTable + 1
      /\ FirstTable \in Nat
  BY <1>1, HeapIndex
<1>6. ASSUME pc \notin Loops, HeapSize > 0
      PROVE  Present = Needed \cup {FirstTable} /\ FirstTable \notin Needed
  <2>1. KHEAP_START \in Heap
    BY <1>1, <1>6, MemoryIs DEF Window
  <2>2. FirstTable \notin Needed
    BY <1>5 DEF Needed
  <2>3. \A d : d \in Present <=> d \in Needed \/ d = FirstTable
    BY <1>1, <1>2, <1>5, <1>6, <2>1 DEF Needed
  <2>. QED
    BY <2>2, <2>3
<1>7. pc \notin Loops /\ HeapSize > 0 =>
        Cardinality(Present) = Cardinality(Needed) + 1 /\ FirstTable \in Present
  BY <1>1, <1>6, NeededIs, FS_AddElement
<1>8. FirstTable + 1 \notin Present
  BY <1>1, <1>2, <1>5
<1>. QED
  BY <1>3, <1>4, <1>7, <1>8

(* A step that maps page v, and does nothing else to the address space. *)
Maps(v, p) ==
  /\ v \in Frame \ Mapping /\ Mapping' = Mapping \cup {v} /\ fb' = fb
  /\ \A u \in Frame : Walk(u)' = IF u = v THEN p ELSE Walk(u)

(* One turn of a loop of vmm_init, whichever it is: there are frames left for all
   its page tables. *)
LEMMA LoopInv ==
  ASSUME VmmInv, NEW loop, NEW next, NEW first \in Nat,
         NEW v, v = first + turn, NEW p, p = IF v \in High THEN v - KERNEL ELSE v,
         Loop(loop, v, p, next),
         \/ loop = "identity" /\ next = "kernel" /\ first = 0
         \/ loop = "kernel" /\ next = "framebuffer" /\ first = KERNEL
         \/ loop = "framebuffer" /\ next = "switch" /\ first = fb[1]
  PROVE  VmmInv' /\ Maps(v, p)
<1>. DEFINE more == turn + 1 < LoopEnds(loop)
<1>1. /\ pc = loop /\ vmm_map_page(v, p)
      /\ pc' = IF Reached(TableFor(v)) THEN IF more THEN loop ELSE next ELSE "halted"
      /\ turn' = IF more THEN turn + 1 ELSE 0
      /\ fb' = fb /\ kernel_directory' = kernel_directory /\ cr3' = cr3
      /\ heap_end' = heap_end /\ new_size' = new_size /\ phys' = phys
  BY DEF Loop, Continue, heapVars
<1>2. loop \in Loops /\ pc \in Loops /\ pc # "directory" /\ pc # "halted" /\ pc # "map"
  BY <1>1 DEF Loops
<1>3. FramesInv /\ ControlInv /\ TablesInv /\ MappedInv /\ CountInv
  BY <1>2 DEF VmmInv
<1>4. /\ BootFb /\ fb[1] \in Nat /\ fb[2] \in Nat /\ fb[2] > 0
      /\ Linear \subseteq Frame /\ High \subseteq Frame /\ Fb \subseteq Frame
      /\ \A u \in Linear : u \notin High /\ u \notin Fb
      /\ \A u \in High : u \notin Fb
  BY <1>3, MappingHas, WindowsApart
<1>5. turn \in Nat /\ turn < LoopEnds(loop) /\ LoopEnds(loop) \in Nat
  BY <1>1, <1>2, <1>3, <1>4, MemoryIs DEF ControlInv, LoopEnds
<1>. DEFINE base == IF loop = "identity" THEN {}
                    ELSE IF loop = "kernel" THEN Linear ELSE Linear \cup High
            all  == Window(first, LoopEnds(loop))
<1>6. /\ loop = "identity" => all = Linear
      /\ loop = "kernel" => all = High
      /\ loop = "framebuffer" => all = Fb
  BY DEF LoopEnds, Linear, High, Fb
<1>7. Mapping = base \cup Window(first, turn)
  BY <1>1 DEF Mapping
<1>8. v \in all /\ v \in Linear \cup High \cup Fb /\ v \in Frame
  <2>1. v \in all
    BY <1>5, WindowHas
  <2>. QED
    BY <1>4, <1>6, <2>1
<1>9. v \notin Mapping
  <2>1. v \notin base
    BY <1>4, <1>6, <1>8
  <2>2. v \notin Window(first, turn)
    BY <1>5, WindowHas
  <2>. QED
    BY <1>7, <2>1, <2>2
<1>10. p \in Frame
  <2>1. CASE v \in High
    <3>1. v \in Nat /\ KERNEL <= v /\ v < KERNEL + IDENTITY
      BY <2>1, MemoryIs DEF High, Window
    <3>2. v - KERNEL \in Linear
      BY <3>1, MemoryIs DEF Linear, Window
    <3>. QED
      BY <1>4, <2>1, <3>2
  <2>. QED
    BY <1>8, <2>1
<1>11. HeapSize = 0 /\ Heap = {}
  BY <1>2, MemoryIs, WindowHas DEF HeapSize, Heap
<1>12. ASSUME TableMissing(v) PROVE Cardinality(Got) < IDENTITY - StartPage
  <2>1. Present \subseteq Needed /\ pd_index(v) \in Needed
    BY <1>2, <1>3, <1>8, TablesCount DEF Needed
  <2>2. pd_index(v) \notin Present
    BY <1>12 DEF Present, TableMissing
  <2>3. IsFiniteSet(Present \cup {pd_index(v)}) /\ Present \cup {pd_index(v)} \subseteq Needed
    BY <2>1, PresentIs, FS_AddElement
  <2>4. Cardinality(Present) + 1 <= Cardinality(Needed)
    BY <1>4, <2>2, <2>3, PresentIs, NeededIs, FS_AddElement, FS_Subset
  <2>5. Cardinality(Got) = 1 + Cardinality(Present)
    BY <1>2, <1>3, <1>11, PresentIs DEF CountInv
  <2>. QED
    BY <1>4, <2>4, <2>5, NeededIs, PresentIs, TopIs
<1>13. Reached(TableFor(v))
  BY <1>1, <1>2, <1>3, <1>8, <1>12, TableReached
<1>14. pc' = IF more THEN loop ELSE next
  BY <1>1, <1>13
<1>15. pc' \in Loops \cup {"switch"}
  BY <1>2, <1>14 DEF Loops
<1>16. HeapSize' = 0 /\ Heap' = {}
  <2>1. pc' = "switch" => turn' = 0
    BY <1>1, <1>2, <1>14 DEF Loops
  <2>2. heap_end' = KHEAP_START
    BY <1>1, <1>2, <1>3 DEF ControlInv
  <2>3. HeapSize' = 0
    BY <1>15, <2>1, <2>2, MemoryIs DEF HeapSize, HeapPage, Loops
  <2>. QED
    BY <2>3, MemoryIs, WindowHas DEF Heap
<1>17. Mapping' = Mapping \cup {v}
  <2>1. Window(first, turn + 1) = Window(first, turn) \cup {v}
    BY <1>5, WindowHas
  <2>2. CASE more
    <3>1. Mapping' = base \cup Window(first, turn + 1)
      BY <1>1, <1>14, <2>2 DEF Mapping, Linear, High, Window
    <3>. QED
      BY <1>7, <2>1, <3>1
  <2>3. CASE ~more
    <3>1. turn + 1 = LoopEnds(loop)
      BY <1>5, <2>3
    <3>2. Mapping \cup {v} = base \cup all
      BY <1>7, <2>1, <3>1
    <3>3. pc' = next /\ turn' = 0
      BY <1>1, <1>14, <2>3
    <3>4. Window(KERNEL, 0) = {} /\ Window(fb[1], 0) = {}
      BY <1>4, MemoryIs, WindowHas
    <3>5. CASE loop = "identity"
      <4>1. Mapping' = Linear \cup Window(KERNEL, 0)
        BY <3>3, <3>5 DEF Mapping, Linear, Window
      <4>. QED
        BY <1>6, <3>2, <3>4, <3>5, <4>1
    <3>6. CASE loop = "kernel"
      <4>1. Mapping' = Linear \cup High \cup Window(fb[1], 0)
        BY <1>1, <3>3, <3>6 DEF Mapping, Linear, High, Window
      <4>. QED
        BY <1>6, <3>2, <3>4, <3>6, <4>1
    <3>7. CASE loop = "framebuffer"
      <4>1. Mapping' = Linear \cup High \cup Fb \cup {}
        <5>1. Fb' = Fb
          BY <1>1 DEF Fb, Window
        <5>2. pc' = "switch"
          BY <3>3, <3>7
        <5>3. Mapping' = Linear \cup High \cup Fb' \cup Heap'
          BY <5>2 DEF Mapping, Linear, High, Window
        <5>. QED
          BY <1>16, <5>1, <5>3
      <4>. QED
        BY <1>6, <3>2, <3>7, <4>1
    <3>. QED
      BY <1>2, <3>5, <3>6, <3>7 DEF Loops
  <2>. QED
    BY <2>2, <2>3
<1>18. /\ FramesInv' /\ TablesInv' /\ MappedInv'
       /\ \A u \in Frame : Walk(u)' = IF u = v THEN p ELSE Walk(u)
       /\ Cardinality(Got') - Cardinality(Present')
            = Cardinality(Got) - Cardinality(Present)
  BY <1>1, <1>2, <1>3, <1>8, <1>9, <1>10, <1>11, <1>12, <1>16, <1>17, MapInv
<1>19. pc' # "map" /\ pc' # "halted" /\ pc' # "directory"
  BY <1>15 DEF Loops
<1>20. HeapInv'
  BY <1>16, <1>19 DEF HeapInv
<1>21. CountInv'
  <2>1. Cardinality(Got') \in Nat /\ Cardinality(Present') \in Nat
    <3>1. Present' \subseteq 0 .. DIRECTORY - 1
      BY DEF Present
    <3>3. IsFiniteSet(0 .. DIRECTORY - 1)
      BY MemoryIs, FS_Interval
    <3>2. IsFiniteSet(Got')
      <4>1. Got' = Got \/ Got' = Got \cup {NextFrame}
        BY <1>1, <1>2, <1>3, <1>8, <1>12, TableReached
      <4>. QED
        BY <1>3, <4>1, FramesCount, FS_AddElement
    <3>. QED
      BY <3>1, <3>2, <3>3, FS_Subset, FS_CardinalityType
  <2>2. Cardinality(Got) = 1 + Cardinality(Present)
    BY <1>2, <1>3, <1>11, PresentIs DEF CountInv
  <2>3. Cardinality(Got') = 1 + Cardinality(Present')
    BY <1>3, <1>18, <2>1, <2>2, PresentIs, FramesCount
  <2>. QED
    BY <1>16, <1>19, <2>1, <2>3 DEF CountInv
<1>22. ControlInv'
  <2>1. (pc \in Loops => turn < LoopEnds(pc))'
    <3>1. CASE more
      BY <1>1, <1>14, <3>1 DEF LoopEnds
    <3>2. CASE ~more
      BY <1>1, <1>4, <1>14, <3>2, MemoryIs DEF LoopEnds, Loops
    <3>. QED
      BY <3>1, <3>2
  <2>2. turn' \in Nat /\ (pc' = "switch" => turn' = 0)
    BY <1>1, <1>2, <1>5, <1>14 DEF Loops
  <2>3. cr3' = "boot" /\ heap_end' = KHEAP_START
    BY <1>1, <1>2, <1>3 DEF ControlInv
  <2>4. /\ pc' \notin {"directory", "frame", "map", "kmain", "halted"}
        /\ pc' \in Loops \cup {"directory", "switch", "frame", "map", "kmain", "halted"}
    BY <1>15 DEF Loops
  <2>5. HeapSize' \in 0 .. TABLE
    BY <1>16, MemoryIs
  <2>. QED
    BY <1>1, <1>3, <1>15, <1>16, <2>1, <2>2, <2>3, <2>4, <2>5, MemoryIs
       DEF ControlInv, Page, Loops
<1>23. Maps(v, p)
  BY <1>1, <1>8, <1>9, <1>17, <1>18 DEF Maps
<1>. QED
  BY <1>18, <1>19, <1>20, <1>21, <1>22, <1>23 DEF VmmInv

(* What is left of the region while the heap has one table. *)
LEMMA HeapCount ==
  ASSUME ControlInv, MappedInv, CountInv, pc \in {"frame", "map"}
  PROVE  /\ Cardinality(Got) < EndPage - StartPage
         /\ HeapSize = 0 => Cardinality(Got) < IDENTITY - StartPage
         /\ HeapSize = TABLE /\ pc = "map" => Cardinality(Got) >= IDENTITY - StartPage
<1>1. /\ BootFb /\ HeapSize \in Nat /\ HeapSize <= TABLE
      /\ pc \notin Loops /\ pc # "halted"
  BY MappingHas DEF Loops
<1>2. /\ HeapSize = 0 => Cardinality(Present) = Cardinality(Needed)
      /\ HeapSize > 0 => Cardinality(Present) = Cardinality(Needed) + 1
  BY <1>1, TablesCount
<1>3. Cardinality(Got) = 1 + Cardinality(Present) + HeapSize + (IF pc = "map" THEN 1 ELSE 0)
  BY <1>1 DEF CountInv
<1>. QED
  BY <1>1, <1>2, <1>3, NeededIs, PresentIs, MemoryIs, TopIs

(* The frame for a page of the heap is one that nobody has. *)
LEMMA HeapFrameInv == VmmInv /\ HeapFrame => VmmInv'
<1>. SUFFICES ASSUME VmmInv, HeapFrame PROVE VmmInv'
  OBVIOUS
<1>1. /\ pc = "frame" /\ pc' = "map" /\ cr3' = cr3 /\ pmm_alloc_page /\ phys' = NextFrame
      /\ UNCHANGED tableVars /\ fb' = fb /\ kernel_directory' = kernel_directory
      /\ turn' = turn /\ heap_end' = heap_end /\ new_size' = new_size
  BY DEF HeapFrame
<1>2. FramesInv /\ ControlInv /\ TablesInv /\ MappedInv /\ HeapInv /\ CountInv
  BY <1>1 DEF VmmInv
<1>3. HeapSize' = HeapSize /\ Heap' = Heap /\ Mapping' = Mapping
  <2>1. HeapSize' = HeapSize
    BY <1>1 DEF HeapSize, HeapPage, Loops
  <2>2. Heap' = Heap
    BY <2>1 DEF Heap, Window
  <2>3. Fb' = Fb
    BY <1>1 DEF Fb, Window
  <2>4. Mapping = Linear \cup High \cup Fb \cup Heap
    BY <1>1 DEF Mapping
  <2>5. Mapping' = Linear \cup High \cup Fb' \cup Heap'
    BY <1>1 DEF Mapping, Linear, High, Window
  <2>. QED
    BY <2>1, <2>2, <2>3, <2>4, <2>5
<1>4. Got # RegionPages
  <2>1. Cardinality(Got) < EndPage - StartPage
    BY <1>1, <1>2, HeapCount
  <2>. QED
    BY <1>2, <2>1, FramesCount
<1>5. /\ FramesInv' /\ NextFrame \in RegionPages /\ NextFrame \notin Got
      /\ Got' = Got \cup {NextFrame}
  BY <1>1, <1>2, <1>4, AllocFrame
<1>6. /\ TablesInv' /\ MappedInv' /\ Present' = Present
      /\ \A v : Walk(v)' = Walk(v)
      /\ HeapFrames \subseteq HeapFrames'
  BY <1>1, <1>2, <1>3, <1>5, TablesStay
<1>7. HeapInv'
  <2>1. phys' \in HeapFrames'
    <3>1. NextFrame # kernel_directory /\ \A d \in Present : directory[d] # NextFrame
      BY <1>2, <1>5 DEF TablesInv
    <3>2. directory' = directory
      BY <1>1 DEF tableVars
    <3>. QED
      BY <1>1, <1>5, <1>6, <3>1, <3>2 DEF HeapFrames
  <2>2. \A v \in Heap : Walk(v) \in Got
    BY <1>2 DEF HeapInv, HeapFrames
  <2>3. \A v \in Heap' : Walk(v)' # phys'
    BY <1>1, <1>3, <1>5, <1>6, <2>2
  <2>4. \A v \in Heap' : Walk(v)' \in HeapFrames'
    BY <1>2, <1>3, <1>6 DEF HeapInv
  <2>5. \A u, v \in Heap' : Walk(u)' = Walk(v)' => u = v
    BY <1>2, <1>3, <1>6 DEF HeapInv
  <2>. QED
    BY <2>1, <2>3, <2>4, <2>5 DEF HeapInv
<1>8. CountInv'
  <2>1. /\ IsFiniteSet(Got) /\ Cardinality(Got) \in Nat /\ Cardinality(Present) \in Nat
        /\ HeapSize \in Nat
    BY <1>2, FramesCount, PresentIs, MappingHas
  <2>2. Cardinality(Got') = Cardinality(Got) + 1
    BY <1>5, <2>1, FS_AddElement
  <2>3. Cardinality(Got) = 1 + Cardinality(Present) + HeapSize
    BY <1>1, <1>2, <2>1 DEF CountInv
  <2>. QED
    BY <1>1, <1>3, <1>6, <2>1, <2>2, <2>3 DEF CountInv
<1>9. ControlInv'
  <2>1. phys' \in Page
    <3>1. RegionPages \subseteq Page
      BY Sizes
    <3>. QED
      BY <1>1, <1>5, <3>1
  <2>2. phys' \in Page'
    BY <2>1 DEF Page
  <2>. QED
    BY <1>1, <1>2, <1>3, <2>2 DEF ControlInv, Loops, Page
<1>. QED
  BY <1>1, <1>5, <1>6, <1>7, <1>8, <1>9 DEF VmmInv

(* A page of the heap's first table is mapped. *)
LEMMA MapHeapInv ==
  ASSUME VmmInv, MapHeap, HeapSize < TABLE
  PROVE  VmmInv' /\ Maps(HeapPage, phys)
<1>. DEFINE v == HeapPage
            more == turn + 1 < new_size
<1>1. /\ pc = "map" /\ vmm_map_page(v, phys)
      /\ pc' = IF Reached(TableFor(v)) THEN IF more THEN "frame" ELSE "kmain" ELSE "halted"
      /\ turn' = IF ~Reached(TableFor(v)) THEN turn ELSE IF more THEN turn + 1 ELSE 0
      /\ heap_end' = IF Reached(TableFor(v)) /\ ~more THEN heap_end + new_size ELSE heap_end
      /\ fb' = fb /\ kernel_directory' = kernel_directory /\ cr3' = cr3
      /\ new_size' = new_size /\ phys' = phys
  BY DEF MapHeap, Continue
<1>2. pc \notin Loops /\ pc # "directory" /\ pc # "halted"
  BY <1>1 DEF Loops
<1>3. FramesInv /\ ControlInv /\ TablesInv /\ MappedInv /\ HeapInv /\ CountInv
  BY <1>1 DEF VmmInv
<1>4. /\ BootFb /\ HeapSize \in Nat /\ HeapSize <= TABLE /\ Mapping \subseteq Frame
      /\ Heap = Window(KHEAP_START, HeapSize)
      /\ Mapping = Linear \cup High \cup Fb \cup Heap
      /\ v = KHEAP_START + HeapSize /\ v \notin Mapping
      /\ v \in Window(KHEAP_START, TABLE + TABLE)
  BY <1>2, <1>3, MappingHas
<1>5. v \in Frame /\ phys \in Frame /\ Page \subseteq Frame
  BY <1>3, <1>4, WindowsApart DEF ControlInv
<1>6. ASSUME TableMissing(v) PROVE Cardinality(Got) < IDENTITY - StartPage
  <2>1. v \in Window(KHEAP_START, TABLE)
    BY <1>4, MemoryIs, WindowHas
  <2>2. pd_index(v) = FirstTable
    BY <1>4, <2>1, HeapIndex
  <2>3. FirstTable \notin Present
    BY <1>6, <2>2 DEF Present, TableMissing
  <2>4. HeapSize = 0
    BY <1>2, <1>3, <1>4, <2>3, TablesCount
  <2>. QED
    BY <1>1, <1>3, <2>4, HeapCount
<1>. HIDE DEF v
<1>7. Reached(TableFor(v))
  BY <1>1, <1>2, <1>3, <1>5, <1>6, TableReached
<1>8. turn \in Nat /\ heap_end \in Nat /\ new_size \in Nat \ {0} /\ turn < new_size
  BY <1>1, <1>3 DEF ControlInv
<1>9. /\ pc' = IF more THEN "frame" ELSE "kmain"
      /\ turn' = IF more THEN turn + 1 ELSE 0
      /\ heap_end' = IF more THEN heap_end ELSE heap_end + new_size
  BY <1>1, <1>7
<1>10. pc' \in {"frame", "kmain"} /\ pc' \notin Loops /\ pc' # "map"
  BY <1>9 DEF Loops
<1>11. HeapSize' = HeapSize + 1 /\ Heap' = Heap \cup {v}
  <2>1. HeapPage' = HeapPage + 1
    <3>1. heap_end' + turn' = heap_end + turn + 1
      BY <1>8, <1>9
    <3>. QED
      BY <3>1 DEF HeapPage
  <2>2. HeapSize = HeapPage - KHEAP_START /\ HeapSize' = HeapPage' - KHEAP_START
    BY <1>2, <1>10 DEF HeapSize, Loops
  <2>3. HeapSize' = HeapSize + 1
    BY <1>4, <2>1, <2>2, MemoryIs DEF v
  <2>. QED
    BY <1>4, <2>3, MemoryIs, WindowHas DEF Heap, Window
<1>12. Mapping' = Mapping \cup {v}
  <2>1. Fb' = Fb
    BY <1>1 DEF Fb, Window
  <2>2. Mapping' = Linear \cup High \cup Fb' \cup Heap'
    BY <1>10 DEF Mapping, Linear, High, Window, Loops
  <2>. QED
    BY <1>4, <1>11, <2>1, <2>2
<1>13. /\ FramesInv' /\ TablesInv' /\ MappedInv'
       /\ \A u \in Frame : Walk(u)' = IF u = v THEN phys ELSE Walk(u)
       /\ HeapFrames \subseteq HeapFrames'
       /\ Cardinality(Got') - Cardinality(Present')
            = Cardinality(Got) - Cardinality(Present)
  BY <1>1, <1>2, <1>3, <1>4, <1>5, <1>6, <1>11, <1>12, MapInv
<1>14. HeapInv'
  <2>1. /\ phys \in HeapFrames /\ \A u \in Heap : Walk(u) # phys /\ Walk(u) \in HeapFrames
        /\ \A u, w \in Heap : Walk(u) = Walk(w) => u = w
    BY <1>1, <1>3 DEF HeapInv
  <2>2. Heap \subseteq Frame /\ v \notin Heap
    BY <1>4
  <2>3. ASSUME NEW u \in Heap'
        PROVE  \/ u = v /\ Walk(u)' = phys
               \/ u \in Heap /\ u # v /\ Walk(u)' = Walk(u)
    <3>1. u \in Frame /\ (u = v \/ u \in Heap)
      BY <1>5, <1>11, <2>2
    <3>2. Walk(u)' = IF u = v THEN phys ELSE Walk(u)
      BY <1>13, <3>1
    <3>. QED
      BY <2>2, <3>1, <3>2
  <2>4. \A u \in Heap' : Walk(u)' \in HeapFrames'
    BY <1>13, <2>1, <2>3
  <2>5. \A u, w \in Heap' : Walk(u)' = Walk(w)' => u = w
    BY <2>1, <2>3
  <2>. QED
    BY <1>10, <2>4, <2>5 DEF HeapInv
<1>15. CountInv'
  <2>1. Cardinality(Got') \in Nat /\ Cardinality(Present') \in Nat
    <3>1. Present' \subseteq 0 .. DIRECTORY - 1
      BY DEF Present
    <3>2. IsFiniteSet(0 .. DIRECTORY - 1)
      BY MemoryIs, FS_Interval
    <3>3. IsFiniteSet(Got')
      <4>1. Got' = Got \/ Got' = Got \cup {NextFrame}
        BY <1>1, <1>2, <1>3, <1>5, <1>6, TableReached
      <4>. QED
        BY <1>3, <4>1, FramesCount, FS_AddElement
    <3>. QED
      BY <3>1, <3>2, <3>3, FS_Subset, FS_CardinalityType
  <2>2. Cardinality(Got) = 1 + Cardinality(Present) + HeapSize + 1
    BY <1>1, <1>2, <1>3 DEF CountInv
  <2>3. Cardinality(Got') = 1 + Cardinality(Present') + (HeapSize + 1)
    BY <1>3, <1>4, <1>13, <2>1, <2>2, PresentIs, FramesCount
  <2>. QED
    BY <1>4, <1>10, <1>11, <2>1, <2>3 DEF CountInv
<1>16. ControlInv'
  <2>1. turn' \in Nat /\ heap_end' \in Nat /\ (pc' = "frame" => turn' < new_size')
        /\ (pc' = "kmain" => turn' = 0)
    BY <1>1, <1>8, <1>9
  <2>2. HeapSize' \in 0 .. TABLE
    BY <1>4, <1>11, MemoryIs
  <2>3. cr3' = "kernel"
    BY <1>1, <1>3 DEF ControlInv, Loops
  <2>. QED
    BY <1>1, <1>3, <1>8, <1>10, <2>1, <2>2, <2>3 DEF ControlInv, Page, Loops
<1>17. Maps(v, phys)
  BY <1>1, <1>4, <1>5, <1>12, <1>13 DEF Maps
<1>. QED
  BY <1>10, <1>13, <1>14, <1>15, <1>16, <1>17 DEF VmmInv, v

(* The first page beyond it is where the heap faults: no frame that is mapped to
   itself is left for the second table. *)
LEMMA SecondTable ==
  ASSUME VmmInv, pc = "map", HeapSize = TABLE, vmm_map_page(HeapPage, phys)
  PROVE  /\ TableMissing(HeapPage) /\ ~Reached(TableFor(HeapPage)) /\ FramesInv'
         /\ Got \subseteq Got'
<1>1. pc \notin Loops /\ pc # "directory"
  BY DEF Loops
<1>2. FramesInv /\ ControlInv /\ TablesInv /\ MappedInv /\ HeapInv /\ CountInv
  BY <1>1 DEF VmmInv
<1>3. /\ BootFb /\ Mapping = Linear \cup High \cup Fb \cup Heap
      /\ HeapPage = KHEAP_START + TABLE
      /\ Heap \subseteq Window(KHEAP_START, TABLE + TABLE)
  BY <1>1, <1>2, MappingHas
<1>4. TableMissing(HeapPage)
  <2>1. pd_index(HeapPage) = FirstTable + 1 /\ FirstTable + 1 \notin Present
    BY <1>2, <1>3, HeapIndex, TablesCount
  <2>2. HeapPage \in Frame
    BY <1>1, <1>2, <1>3, MappingHas, WindowsApart
  <2>. QED
    BY <2>1, <2>2, IndexIs DEF Present, TableMissing
<1>5. /\ FramesInv' /\ NextFrame \in RegionPages /\ NextFrame \notin Got
      /\ Got' = Got \cup {NextFrame} /\ NextFrame \notin Low
  <2>1. pmm_alloc_page
    BY <1>4 DEF vmm_map_page
  <2>2. Got # RegionPages /\ Low \subseteq Got
    BY <1>2, HeapCount, FramesCount
  <2>. QED
    BY <1>2, <2>1, <2>2, AllocFrame
<1>. DEFINE t == NextFrame
<1>6. t \in Nat /\ t \in Page /\ t \in Frame /\ t >= IDENTITY
  <2>1. t \in Page /\ t \in Frame /\ t \in Nat
    BY <1>3, <1>5, Sizes, WindowsApart
  <2>2. StartPage <= t
    BY <1>5, TopIs DEF RegionPages
  <2>. QED
    BY <1>5, <2>1, <2>2, TopIs DEF Low
<1>. HIDE DEF t
<1>7. Walk(t) # t
  <2>1. CASE t \notin Mapping
    BY <1>2, <1>3, <1>6, <2>1, WindowsApart DEF MappedInv
  <2>2. CASE t \in Linear
    BY <1>6, <2>2, MemoryIs DEF Linear, Window
  <2>3. CASE t \in High
    <3>1. t \in Mapping \ Heap
      BY <1>3, <2>3, WindowsApart
    <3>2. Walk(t) = t - KERNEL
      BY <1>2, <2>3, <3>1 DEF MappedInv
    <3>. QED
      BY <1>6, <3>2, MemoryIs
  <2>4. CASE t \in Fb
    BY <1>3, <1>6, <2>4, WindowsApart
  <2>5. CASE t \in Heap
    BY <1>2, <1>5, <2>5 DEF HeapInv, HeapFrames, t
  <2>. QED
    BY <1>3, <2>1, <2>2, <2>3, <2>4, <2>5
<1>8. ~Reached(TableFor(HeapPage))
  <2>1. cr3 # "boot"
    BY <1>2 DEF ControlInv, Loops
  <2>. QED
    BY <1>4, <1>7, <2>1 DEF Reached, Translate, TableFor, t
<1>. QED
  BY <1>4, <1>5, <1>8

LEMMA MapHeapHalts ==
  ASSUME VmmInv, MapHeap, HeapSize = TABLE
  PROVE  VmmInv' /\ UNCHANGED tableVars
<1>1. /\ pc = "map" /\ vmm_map_page(HeapPage, phys)
      /\ fb' = fb /\ kernel_directory' = kernel_directory /\ cr3' = cr3
      /\ new_size' = new_size /\ phys' = phys
  BY DEF MapHeap
<1>2. /\ TableMissing(HeapPage) /\ ~Reached(TableFor(HeapPage)) /\ FramesInv'
      /\ Got \subseteq Got'
  BY <1>1, SecondTable
<1>3. pc' = "halted" /\ turn' = turn /\ heap_end' = heap_end /\ UNCHANGED tableVars
  BY <1>1, <1>2 DEF MapHeap, Continue, vmm_map_page
<1>4. FramesInv /\ ControlInv /\ TablesInv /\ MappedInv /\ HeapInv /\ CountInv
  BY <1>1 DEF VmmInv
<1>5. HeapSize' = HeapSize /\ Heap' = Heap /\ Mapping' = Mapping
  <2>1. HeapSize' = HeapSize
    BY <1>1, <1>3 DEF HeapSize, HeapPage, Loops
  <2>2. Heap' = Heap
    BY <2>1 DEF Heap, Window
  <2>3. Fb' = Fb
    BY <1>1 DEF Fb, Window
  <2>4. Mapping = Linear \cup High \cup Fb \cup Heap
    BY <1>1 DEF Mapping
  <2>5. Mapping' = Linear \cup High \cup Fb' \cup Heap'
    BY <1>3 DEF Mapping, Linear, High, Window
  <2>. QED
    BY <2>1, <2>2, <2>3, <2>4, <2>5
<1>6. /\ TablesInv' /\ MappedInv' /\ Present' = Present
      /\ \A v : Walk(v)' = Walk(v)
      /\ HeapFrames \subseteq HeapFrames'
  BY <1>1, <1>2, <1>3, <1>4, <1>5, TablesStay
<1>7. HeapInv'
  BY <1>3, <1>4, <1>5, <1>6 DEF HeapInv
<1>8. CountInv'
  BY <1>3 DEF CountInv
<1>9. ControlInv'
  <2>1. TableMissing(HeapPage)'
    BY <1>2, <1>3 DEF TableMissing, HeapPage, tableVars, pd_index, None
  <2>. QED
    BY <1>1, <1>3, <1>4, <1>5, <2>1 DEF ControlInv, Loops, Page
<1>. QED
  BY <1>2, <1>3, <1>6, <1>7, <1>8, <1>9 DEF VmmInv

LEMMA VmmInitInv == VmmInit => VmmInv
<1>. SUFFICES ASSUME VmmInit PROVE VmmInv
  OBVIOUS
<1>1. /\ Init /\ fb \in FbStarts \X FbSizes /\ kernel_directory = 0 /\ phys = 0
      /\ directory = Blank(DIRECTORY) /\ tables = <<>> /\ cr3 = "boot"
      /\ pc = "directory" /\ turn = 0 /\ heap_end = KHEAP_START
      /\ new_size = KHEAP_INITIAL_SIZE
  BY DEF VmmInit
<1>2. FramesInv
  BY <1>1, InitFrames
<1>3. BeforeInv
  BY <1>1 DEF BeforeInv, Got, Init
<1>4. 0 \in Page
  BY MemoryIs DEF Page
<1>5. HeapSize \in 0 .. TABLE
  BY <1>1, MemoryIs DEF HeapSize, HeapPage, Loops
<1>6. ControlInv
  BY <1>1, <1>4, <1>5, MemoryIs DEF ControlInv, Loops
<1>. QED
  BY <1>1, <1>2, <1>3, <1>6 DEF VmmInv

LEMMA VmmStay == VmmInv /\ UNCHANGED vmmVars => VmmInv'
<1>. SUFFICES ASSUME VmmInv, UNCHANGED vmmVars PROVE VmmInv'
  OBVIOUS
<1>1. /\ UNCHANGED pmmVars /\ UNCHANGED tableVars
      /\ fb' = fb /\ kernel_directory' = kernel_directory /\ cr3' = cr3
      /\ pc' = pc /\ turn' = turn /\ directory' = directory /\ tables' = tables
      /\ heap_end' = heap_end /\ new_size' = new_size /\ phys' = phys
  BY DEF vmmVars, tableVars, heapVars
<1>2. FramesInv /\ ControlInv
  BY DEF VmmInv
<1>3. FramesInv' /\ Got' = Got
  BY <1>1, <1>2, FramesStay
<1>4. HeapSize' = HeapSize
  BY <1>1 DEF HeapSize, HeapPage, Loops
<1>5. Heap' = Heap
  BY <1>4 DEF Heap, Window
<1>6. Mapping' = Mapping
  BY <1>1, <1>5 DEF Mapping, Linear, High, Window, Fb
<1>7. ControlInv'
  <2>1. (pc \in Loops => turn < LoopEnds(pc))'
    BY <1>1, <1>2 DEF ControlInv, LoopEnds, Loops
  <2>2. (pc = "halted" => HeapSize = TABLE /\ TableMissing(HeapPage))'
    BY <1>1, <1>2, <1>4 DEF ControlInv, TableMissing, HeapPage, pd_index, None
  <2>. QED
    BY <1>1, <1>2, <1>4, <2>1, <2>2 DEF ControlInv, Loops, Page
<1>8. CASE pc = "directory"
  <2>1. BeforeInv'
    BY <1>1, <1>3, <1>8 DEF VmmInv, BeforeInv, Blank, None
  <2>. QED
    BY <1>1, <1>3, <1>7, <1>8, <2>1 DEF VmmInv
<1>9. CASE pc # "directory"
  <2>1. TablesInv /\ MappedInv /\ HeapInv /\ CountInv
    BY <1>9 DEF VmmInv
  <2>2. /\ TablesInv' /\ MappedInv' /\ Present' = Present
        /\ \A v : Walk(v)' = Walk(v)
        /\ HeapFrames \subseteq HeapFrames'
    BY <1>1, <1>3, <1>5, <1>6, <2>1, TablesStay
  <2>3. HeapInv'
    BY <1>1, <1>5, <2>1, <2>2 DEF HeapInv
  <2>4. CountInv'
    BY <1>1, <1>3, <1>4, <2>1, <2>2 DEF CountInv
  <2>. QED
    BY <1>1, <1>3, <1>7, <1>9, <2>2, <2>3, <2>4 DEF VmmInv
<1>. QED
  BY <1>8, <1>9

(* Every turn of a loop of vmm_init maps its page. *)
LEMMA LoopsInv ==
  ASSUME VmmInv
  PROVE  /\ MapIdentity => VmmInv' /\ Maps(turn, turn) /\ turn \in Linear
         /\ MapKernel => /\ VmmInv' /\ Maps(KERNEL + turn, turn)
                         /\ KERNEL + turn \in High /\ turn = KERNEL + turn - KERNEL
         /\ MapFramebuffer => /\ VmmInv' /\ Maps(fb[1] + turn, fb[1] + turn)
                              /\ fb[1] + turn \in Fb
<1>1. ControlInv /\ turn \in Nat
  BY DEF VmmInv, ControlInv
<1>2. /\ BootFb /\ fb[1] \in Nat /\ fb[2] \in Nat
      /\ \A v \in Linear : v \notin High
      /\ \A v \in High : v \notin Fb
  BY <1>1, MappingHas, WindowsApart
<1>3. ASSUME MapIdentity PROVE VmmInv' /\ Maps(turn, turn) /\ turn \in Linear
  <2>1. Loop("identity", turn, turn, "kernel")
    BY <1>3 DEF MapIdentity
  <2>2. turn < IDENTITY
    BY <1>1, <2>1 DEF Loop, ControlInv, Loops, LoopEnds
  <2>3. turn \in Linear /\ turn = 0 + turn /\ 0 \in Nat
    BY <1>1, <2>2, MemoryIs DEF Linear, Window
  <2>. QED
    BY <1>2, <2>1, <2>3, LoopInv
<1>4. ASSUME MapKernel
      PROVE  /\ VmmInv' /\ Maps(KERNEL + turn, turn)
             /\ KERNEL + turn \in High /\ turn = KERNEL + turn - KERNEL
  <2>1. Loop("kernel", KERNEL + turn, turn, "framebuffer")
    BY <1>4 DEF MapKernel
  <2>2. turn < IDENTITY
    BY <1>1, <2>1 DEF Loop, ControlInv, Loops, LoopEnds
  <2>3. turn = KERNEL + turn - KERNEL /\ KERNEL \in Nat
    BY <1>1, MemoryIs
  <2>4. KERNEL + turn \in High
    BY <1>1, <2>2, <2>3, MemoryIs DEF High, Window
  <2>. DEFINE v == KERNEL + turn
  <2>5. v = KERNEL + turn /\ v - KERNEL = turn /\ v \in High
    BY <1>1, <2>3, <2>4
  <2>6. Loop("kernel", v, turn, "framebuffer")
    BY <2>1, Zenon
  <2>. HIDE DEF v
  <2>7. VmmInv' /\ Maps(v, turn)
    BY <2>3, <2>5, <2>6, LoopInv
  <2>. QED
    BY <2>3, <2>4, <2>7 DEF v
<1>5. ASSUME MapFramebuffer
      PROVE  VmmInv' /\ Maps(fb[1] + turn, fb[1] + turn) /\ fb[1] + turn \in Fb
  <2>1. Loop("framebuffer", fb[1] + turn, fb[1] + turn, "switch")
    BY <1>5 DEF MapFramebuffer
  <2>2. turn < fb[2]
    BY <1>1, <2>1 DEF Loop, ControlInv, Loops, LoopEnds
  <2>3. fb[1] + turn \in Fb
    BY <1>1, <1>2, <2>2 DEF Fb, Window
  <2>. QED
    BY <1>2, <2>1, <2>3, LoopInv
<1>. QED
  BY <1>3, <1>4, <1>5

LEMMA HeapSizeCases == VmmInv => HeapSize = TABLE \/ HeapSize < TABLE
BY MemoryIs DEF VmmInv, ControlInv

LEMMA VmmNextInv == VmmInv /\ [VmmNext]_vmmVars => VmmInv'
<1>. SUFFICES ASSUME VmmInv, [VmmNext]_vmmVars PROVE VmmInv'
  OBVIOUS
<1>1. CASE AllocDirectory
  BY <1>1, AllocDirectoryInv
<1>2. CASE MapIdentity \/ MapKernel \/ MapFramebuffer
  BY <1>2, LoopsInv
<1>3. CASE Switch
  BY <1>3, SwitchInv
<1>4. CASE HeapFrame
  BY <1>4, HeapFrameInv
<1>5. CASE MapHeap
  BY <1>5, HeapSizeCases, MapHeapInv, MapHeapHalts
<1>6. CASE Expand
  BY <1>6, ExpandInv
<1>7. CASE UNCHANGED vmmVars
  BY <1>7, VmmStay
<1>. QED
  BY <1>1, <1>2, <1>3, <1>4, <1>5, <1>6, <1>7 DEF VmmNext

LEMMA VmmInvAlways == VmmSpec => []VmmInv
BY VmmInitInv, VmmNextInv, PTL DEF VmmSpec

-----------------------------------------------------------------------------
(* What follows. *)

LEMMA MappedIs ==
  ASSUME VmmInv, pc # "directory"
  PROVE  /\ BootFb /\ Mapped = Mapping /\ HeapMapped = Heap
         /\ {e \in DOMAIN directory : directory[e] # None} = Present
         /\ Tables = {directory[d] : d \in Present} /\ Tables \subseteq Linear
<1>1. ControlInv /\ TablesInv /\ MappedInv
  BY DEF VmmInv
<1>2. /\ BootFb /\ Mapping \subseteq Frame /\ Mapping \ Heap \subseteq Linear \cup High \cup Fb
      /\ Heap \subseteq Mapping
      /\ Heap \subseteq Window(KHEAP_START, TABLE + TABLE)
  BY <1>1, MappingHas
<1>3. Mapped = Mapping
  BY <1>1, <1>2 DEF Mapped, MappedInv
<1>4. \A v \in Linear \cup High : ~(v >= KHEAP_START)
  BY MemoryIs DEF Linear, High, Window
<1>5. \A v \in Heap : v >= KHEAP_START /\ v \notin Fb
  <2>1. \A v \in Heap : v >= KHEAP_START
    BY <1>2, MemoryIs DEF Window
  <2>. QED
    BY <1>2, <2>1, WindowsApart
<1>6. HeapMapped = Heap
  BY <1>2, <1>3, <1>4, <1>5 DEF HeapMapped, Fb
<1>7. DOMAIN directory = 0 .. DIRECTORY - 1
  BY <1>1 DEF TablesInv
<1>8. {e \in DOMAIN directory : directory[e] # None} = Present
  BY <1>7 DEF Present
<1>9. Tables = {directory[d] : d \in Present}
  BY <1>8 DEF Tables
<1>10. Low \subseteq Linear
  BY <1>2, WindowsApart
<1>11. \A d \in Present : directory[d] \in Linear
  BY <1>1, <1>10 DEF TablesInv
<1>. QED
  BY <1>2, <1>3, <1>6, <1>8, <1>9, <1>11

(* As many values as arguments. *)
LEMMA ImageCount ==
  ASSUME NEW S, IsFiniteSet(S), NEW f, DOMAIN f = S,
         \A x, y \in S : f[x] = f[y] => x = y
  PROVE  /\ IsFiniteSet({f[x] : x \in S})
         /\ Cardinality({f[x] : x \in S}) = Cardinality(S)
<1>. DEFINE T == {f[x] : x \in S}
            g == [x \in S |-> f[x]]
<1>1. g \in [S -> T] /\ \A x, y \in S : g[x] = g[y] => x = y
  OBVIOUS
<1>2. \A z \in T : \E x \in S : g[x] = z
  OBVIOUS
<1>3. g \in Bijection(S, T)
  BY <1>1, <1>2 DEF Bijection, Injection, Surjection, IsInjective
<1>4. ExistsBijection(S, T)
  BY <1>3 DEF ExistsBijection
<1>. QED
  BY <1>4, FS_Bijection

LEMMA ApartFollows == VmmInv => FramesApart
<1>. SUFFICES ASSUME VmmInv PROVE FramesApart
  OBVIOUS
<1>1. ControlInv /\ FramesInv
  BY DEF VmmInv
<1>2. VmmTypeOK
  <2>1. directory \in [0 .. DIRECTORY - 1 -> Page \cup {None}]
    <3>1. CASE pc = "directory"
      BY <3>1 DEF VmmInv, BeforeInv, Blank
    <3>2. CASE pc # "directory"
      BY <3>2 DEF VmmInv, TablesInv
    <3>. QED
      BY <3>1, <3>2
  <2>2. \A f \in DOMAIN tables : tables[f] \in [0 .. TABLE - 1 -> Entry]
    <3>1. CASE pc = "directory"
      <4>1. DOMAIN tables = {}
        BY <3>1 DEF VmmInv, BeforeInv
      <4>. QED
        BY <4>1
    <3>2. CASE pc # "directory"
      BY <3>2 DEF VmmInv, TablesInv
    <3>. QED
      BY <3>1, <3>2
  <2>. QED
    BY <1>1, <2>1, <2>2 DEF ControlInv, VmmTypeOK, Loops
<1>3. SUFFICES ASSUME pc # "directory"
      PROVE  LET all == {kernel_directory} \cup Tables \cup {Walk(v) : v \in HeapMapped}
             IN  /\ Cardinality(all)
                      = 1 + Cardinality({e \in DOMAIN directory : directory[e] # None})
                          + Cardinality(HeapMapped)
                 /\ all \subseteq StartPage .. EndPage - 1
  BY <1>2 DEF FramesApart
<1>4. TablesInv /\ HeapInv
  BY <1>3 DEF VmmInv
<1>5. /\ HeapMapped = Heap /\ {e \in DOMAIN directory : directory[e] # None} = Present
      /\ Tables = {directory[d] : d \in Present}
  BY <1>3, MappedIs
<1>. DEFINE frame == [v \in Heap |-> Walk(v)]
            table == [d \in Present |-> directory[d]]
            H == {frame[v] : v \in Heap}
            T == {table[d] : d \in Present}
<1>6. H = {Walk(v) : v \in HeapMapped} /\ T = Tables
  BY <1>5
<1>7. IsFiniteSet(Heap) /\ Cardinality(Heap) \in Nat
  <2>1. Heap = KHEAP_START .. KHEAP_START + HeapSize - 1 /\ HeapSize \in Nat
    BY <1>1, MappingHas DEF Window
  <2>2. IsFiniteSet(Heap)
    BY <2>1, MemoryIs, FS_Interval
  <2>. QED
    BY <2>2, FS_CardinalityType
<1>8. IsFiniteSet(H) /\ Cardinality(H) = Cardinality(Heap)
  <2>1. \A u, v \in Heap : frame[u] = frame[v] => u = v
    BY <1>4 DEF HeapInv
  <2>2. DOMAIN frame = Heap
    OBVIOUS
  <2>. HIDE DEF frame
  <2>. QED
    BY <1>7, <2>1, <2>2, ImageCount
<1>9. IsFiniteSet(T) /\ Cardinality(T) = Cardinality(Present)
  <2>1. \A d, e \in Present : table[d] = table[e] => d = e
    BY <1>4 DEF TablesInv
  <2>2. DOMAIN table = Present
    OBVIOUS
  <2>. HIDE DEF table
  <2>. QED
    BY <2>1, <2>2, PresentIs, ImageCount
<1>10. /\ kernel_directory \notin T /\ kernel_directory \notin H /\ T \cap H = {}
       /\ {kernel_directory} \cup T \cup H \subseteq Got
  <2>1. \A v \in Heap : /\ Walk(v) \in Got /\ Walk(v) # kernel_directory
                        /\ \A d \in Present : directory[d] # Walk(v)
    BY <1>4 DEF HeapInv, HeapFrames
  <2>2. \A d \in Present : directory[d] \in Got /\ directory[d] # kernel_directory
    BY <1>4 DEF TablesInv
  <2>3. kernel_directory \in Got
    BY <1>4 DEF TablesInv
  <2>4. \A x \in T : \E d \in Present : x = directory[d]
    OBVIOUS
  <2>5. \A x \in H : \E v \in Heap : x = Walk(v)
    OBVIOUS
  <2>. HIDE DEF T, H
  <2>. QED
    BY <2>1, <2>2, <2>3, <2>4, <2>5
<1>. HIDE DEF T, H
<1>11. Cardinality({kernel_directory} \cup T \cup H)
         = 1 + Cardinality(Present) + Cardinality(Heap)
  <2>1. IsFiniteSet(T \cup {kernel_directory})
    BY <1>9, FS_AddElement
  <2>2. Cardinality(T \cup {kernel_directory}) = Cardinality(T) + 1
    BY <1>9, <1>10, FS_AddElement
  <2>3. (T \cup {kernel_directory}) \cap H = {}
    BY <1>10
  <2>4. Cardinality((T \cup {kernel_directory}) \cup H)
          = Cardinality(T \cup {kernel_directory}) + Cardinality(H)
              - Cardinality((T \cup {kernel_directory}) \cap H)
    BY <1>8, <2>1, FS_Union
  <2>5. {kernel_directory} \cup T \cup H = (T \cup {kernel_directory}) \cup H
    OBVIOUS
  <2>6. Cardinality((T \cup {kernel_directory}) \cap H) = 0
    BY <2>3, FS_EmptySet
  <2>7. Cardinality({kernel_directory} \cup T \cup H)
          = (Cardinality(T) + 1) + Cardinality(H) - 0
    BY <2>2, <2>4, <2>5, <2>6, Zenon
  <2>8. Cardinality(T) \in Nat /\ Cardinality(H) \in Nat
    BY <1>8, <1>9, FS_CardinalityType
  <2>. QED
    BY <1>8, <1>9, <2>7, <2>8
<1>12. Got \subseteq StartPage .. EndPage - 1
  BY <1>1, FramesCount DEF RegionPages
<1>. QED
  BY <1>5, <1>6, <1>10, <1>11, <1>12

LEMMA FirstTableFollows == VmmInv => FirstTableServes
<1>. SUFFICES ASSUME VmmInv, pc = "halted" PROVE FirstTableServes
  BY DEF FirstTableServes
<1>1. ControlInv /\ TablesInv /\ pc \notin Loops /\ pc # "directory"
  BY DEF VmmInv, Loops
<1>2. HeapSize = TABLE /\ TableMissing(HeapPage)
  BY <1>1 DEF ControlInv
<1>3. HeapPage = KHEAP_START + TABLE
  BY <1>1, <1>2, MappingHas
<1>4. kernel_directory \in Linear /\ Tables \subseteq Linear
  BY <1>1, MappedIs, WindowsApart DEF TablesInv
<1>. QED
  BY <1>2, <1>3, <1>4 DEF FirstTableServes

LEMMA ExactFollows == VmmInv => MappedIsExact
<1>. SUFFICES ASSUME VmmInv, pc = "kmain" PROVE MappedIsExact
  BY DEF MappedIsExact
<1>1. ControlInv /\ pc \notin Loops /\ pc # "directory"
  BY DEF VmmInv, Loops
<1>2. Mapped = Linear \cup High \cup Fb \cup Heap /\ Heap = Window(KHEAP_START, HeapSize)
  BY <1>1, MappedIs, MappingHas
<1>3. heap_end \in Nat /\ HeapSize = heap_end - KHEAP_START
  BY <1>1 DEF ControlInv, HeapSize, HeapPage
<1>4. Window(KHEAP_START, HeapSize) = KHEAP_START .. heap_end - 1
  BY <1>3, MemoryIs DEF Window
<1>. QED
  BY <1>2, <1>4 DEF MappedIsExact, Fb

(* pmm_alloc_pages(0) is called for the directory, for every page table and for
   every page of the heap, and its result is used untested: it is never NULL and
   never a frame that another of them has. *)
THEOREM FramesStayApart == VmmSpec => []FramesApart
BY ApartFollows, VmmInvAlways, PTL

(* No write of vmm_init, kheap_init or expand_heap to the directory or to a
   table faults before the heap needs its second table, and there it does: the
   frames below 8 MB are gone by then. *)
THEOREM FaultsOnlyAtSecondTable == VmmSpec => []FirstTableServes
BY FirstTableFollows, VmmInvAlways, PTL

(* The three loops of vmm_init and the loops of kheap.c leave exactly the pages
   mapped that kmain and the tasks use, whatever framebuffer the BIOS reports. *)
THEOREM MapsExactlyWhatIsUsed == VmmSpec => []MappedIsExact
BY ExactFollows, VmmInvAlways, PTL

-----------------------------------------------------------------------------
(* The refinement: a step maps one page to a frame that is right for it, or
   leaves the address space as it is. *)

LEMMA MapIsPromised ==
  ASSUME VmmInv, pc # "directory", NEW v, NEW p, Maps(v, p), p # None,
         p \in PageTables!Promised(v)
  PROVE  PageTables!Map
<1>1. Mapped = Mapping
  BY MappedIs
<1>2. /\ v \in Frame /\ v \notin Mapped /\ fb' = fb
      /\ \A u \in Frame : Walk(u)' = IF u = v THEN p ELSE Walk(u)
  BY <1>1 DEF Maps
<1>3. Mapped' = {u \in Frame : Walk(u)' # None}
  BY DEF Mapped, Frame, None
<1>4. \A u : u \in Mapped <=> u \in Frame /\ Walk(u) # None
  BY DEF Mapped
<1>5. Mapped' = {v} \cup Mapped
  BY <1>2, <1>3, <1>4
<1>6. Space' = [u \in Mapped' |-> Walk(u)']
  BY DEF Space
<1>7. DOMAIN Space = Mapped /\ DOMAIN Space' = Mapped'
      /\ \A u \in Mapped : Space[u] = Walk(u)
  BY <1>6 DEF Space
<1>8. Space' = [u \in {v} \cup DOMAIN Space |-> IF u = v THEN p ELSE Space[u]]
  <2>1. \A u \in {v} \cup Mapped : Walk(u)' = IF u = v THEN p ELSE Space[u]
    BY <1>2, <1>4, <1>7
  <2>. QED
    BY <1>5, <1>6, <1>7, <2>1
<1>9. v \in DOMAIN Space' \ DOMAIN Space
  BY <1>2, <1>5, <1>7
<1>10. Window(fb[1], fb[2])' = Window(fb[1], fb[2])
  BY <1>2 DEF Window
<1>. QED
  BY <1>8, <1>9, <1>10 DEF PageTables!Map

LEMMA HeapPromised ==
  ASSUME VmmInv, pc = "map", HeapSize < TABLE
  PROVE  phys \in PageTables!Promised(HeapPage) /\ phys # None
<1>1. /\ ControlInv /\ MappedInv /\ HeapInv /\ FramesInv
      /\ pc \notin Loops /\ pc # "directory"
  BY DEF VmmInv, Loops
<1>2. /\ BootFb /\ Mapped = Linear \cup High \cup Fb \cup Heap
      /\ HeapPage \in Window(KHEAP_START, TABLE + TABLE)
  BY <1>1, MappedIs, MappingHas
<1>3. HeapPage \notin Linear \cup High \cup Window(fb[1], fb[2])
  BY <1>2, WindowsApart DEF Fb
<1>4. /\ phys \in Got /\ phys \in RegionPages /\ phys \in Page
      /\ \A v \in Heap : Walk(v) # phys
  BY <1>1, FramesCount, Sizes DEF HeapInv, HeapFrames
<1>5. ASSUME NEW u \in DOMAIN Space \ (Linear \cup High) PROVE Space[u] # phys
  <2>1. u \in Mapped /\ Space[u] = Walk(u)
    BY <1>5 DEF Space
  <2>2. CASE u \in Heap
    BY <1>4, <2>1, <2>2
  <2>3. CASE u \notin Heap
    <3>1. u \in Fb /\ u \in Mapping \ Heap /\ u \notin High
      BY <1>1, <1>2, <1>5, <2>1, <2>3, MappedIs
    <3>2. Walk(u) = u
      BY <1>1, <3>1 DEF MappedInv
    <3>. QED
      BY <1>2, <1>4, <2>1, <3>1, <3>2, WindowsApart
  <2>. QED
    BY <2>2, <2>3
<1>6. phys \in StartPage .. EndPage - 1
  BY <1>4 DEF RegionPages
<1>7. phys # None
  BY <1>2, <1>4, WindowsApart
<1>. QED
  BY <1>3, <1>5, <1>6, <1>7 DEF PageTables!Promised

LEMMA StepMaps ==
  VmmInv /\ [VmmNext]_vmmVars => [PageTables!Map]_<<Space, Window(fb[1], fb[2])>>
<1>. DEFINE same == UNCHANGED <<Space, Window(fb[1], fb[2])>>
<1>. SUFFICES ASSUME VmmInv, [VmmNext]_vmmVars PROVE PageTables!Map \/ same
  OBVIOUS
<1>1. ASSUME UNCHANGED tableVars, fb' = fb PROVE same
  <2>1. directory' = directory /\ tables' = tables
    BY <1>1 DEF tableVars
  <2>2. \A v : Walk(v)' = Walk(v)
    BY <2>1 DEF Walk, pd_index, pt_index, None
  <2>3. Mapped' = Mapped
    BY <2>2 DEF Mapped, Frame, None
  <2>4. Space' = Space
    BY <2>2, <2>3 DEF Space
  <2>5. Window(fb[1], fb[2])' = Window(fb[1], fb[2])
    BY <1>1 DEF Window
  <2>. QED
    BY <2>4, <2>5
<1>. HIDE DEF same
<1>2. ControlInv
  BY DEF VmmInv
<1>3. /\ BootFb /\ Linear \subseteq Frame /\ High \subseteq Frame /\ Fb \subseteq Frame
      /\ None \notin Frame
      /\ \A v \in Linear : v \notin High /\ v \notin Fb
      /\ \A v \in High : v \notin Fb
  BY <1>2, MappingHas, WindowsApart
<1>4. CASE AllocDirectory \/ Switch \/ HeapFrame \/ Expand
  <2>1. UNCHANGED tableVars /\ fb' = fb
    BY <1>4 DEF AllocDirectory, Switch, HeapFrame, Expand
  <2>. QED
    BY <1>1, <2>1
<1>5. CASE MapIdentity
  <2>1. Maps(turn, turn) /\ turn \in Linear /\ pc # "directory"
    BY <1>5, LoopsInv DEF MapIdentity, Loop
  <2>2. turn \in PageTables!Promised(turn) /\ turn # None
    BY <1>3, <2>1 DEF PageTables!Promised
  <2>. QED
    BY <2>1, <2>2, MapIsPromised
<1>6. CASE MapKernel
  <2>. DEFINE v == KERNEL + turn
  <2>1. pc # "directory"
    BY <1>6 DEF MapKernel, Loop
  <2>2. Maps(v, turn) /\ v \in High
    BY <1>6, LoopsInv
  <2>3. turn \in Nat /\ turn # None /\ turn = v - KERNEL
    BY <1>2, MemoryIs DEF ControlInv, None
  <2>. HIDE DEF v
  <2>4. turn \in PageTables!Promised(v)
    BY <1>3, <2>2, <2>3 DEF PageTables!Promised, Fb
  <2>. QED
    BY <2>1, <2>2, <2>3, <2>4, MapIsPromised
<1>7. CASE MapFramebuffer
  <2>. DEFINE v == fb[1] + turn
  <2>1. Maps(v, v) /\ v \in Fb /\ pc # "directory"
    BY <1>7, LoopsInv DEF MapFramebuffer, Loop
  <2>. HIDE DEF v
  <2>2. v \in PageTables!Promised(v) /\ v # None
    BY <1>3, <2>1 DEF PageTables!Promised, Fb
  <2>. QED
    BY <2>1, <2>2, MapIsPromised
<1>8. CASE MapHeap
  <2>1. pc = "map"
    BY <1>8 DEF MapHeap
  <2>2. CASE HeapSize < TABLE
    <3>1. Maps(HeapPage, phys)
      BY <1>8, <2>2, MapHeapInv
    <3>2. phys \in PageTables!Promised(HeapPage) /\ phys # None
      BY <2>1, <2>2, HeapPromised
    <3>. QED
      BY <2>1, <3>1, <3>2, MapIsPromised
  <2>3. CASE HeapSize = TABLE
    <3>1. UNCHANGED tableVars /\ fb' = fb
      BY <1>8, <2>3, MapHeapHalts DEF MapHeap
    <3>. QED
      BY <1>1, <3>1
  <2>. QED
    BY <2>2, <2>3, HeapSizeCases
<1>9. CASE UNCHANGED vmmVars
  <2>1. UNCHANGED tableVars /\ fb' = fb
    BY <1>9 DEF vmmVars
  <2>. QED
    BY <1>1, <2>1
<1>. QED
  BY <1>4, <1>5, <1>6, <1>7, <1>8, <1>9 DEF VmmNext

LEMMA NothingMapped == VmmInit => Space = <<>>
<1>. SUFFICES ASSUME VmmInit PROVE Space = <<>>
  OBVIOUS
<1>1. directory = Blank(DIRECTORY)
  BY DEF VmmInit
<1>2. \A v \in Frame : Walk(v) = None
  BY <1>1, IndexIs DEF Walk, Blank
<1>3. Mapped = {}
  BY <1>2 DEF Mapped
<1>. QED
  BY <1>3 DEF Space

(* vmm_map_page, as vmm_init and kheap.c call it, maps a page that was not
   mapped to the frame it ought to have, and never changes or loses a page that
   an earlier call mapped. *)
THEOREM PagingKeepsItsPromise == VmmSpec => ImplementsAddressSpace
<1>1. VmmInit => PageTables!Init
  BY NothingMapped DEF PageTables!Init
<1>. QED
  BY <1>1, StepMaps, VmmInvAlways, PTL
     DEF VmmSpec, ImplementsAddressSpace, PageTables!Spec
=============================================================================
