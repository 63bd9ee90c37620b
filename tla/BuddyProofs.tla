---------------------------- MODULE BuddyProofs ----------------------------
(***************************************************************************)
(* The page allocator of Buddy for every address space, every set of       *)
(* regions and every order: what its operations preserve, and why the      *)
(* merging in bbuddy_pfree may trust what it reads.  MallocProofs puts     *)
(* these facts together for the specification.                             *)
(***************************************************************************)
EXTENDS Buddy, FiniteSetTheorems, TLAPS

-----------------------------------------------------------------------------
(* Induction: a non-empty set of natural numbers has a least element, and   *)
(* with a bound a greatest.                                                 *)
LEMMA LeastNumber ==
  ASSUME NEW T \in SUBSET Nat, T # {}
  PROVE  \E i \in T : \A j \in T : i <= j
<1>1. \E i \in T : \A j \in T : ~(<<j, i>> \in OpToRel(<, Nat))
  BY NatLessThanWellFounded, WFMin
<1>2. OpToRel(<, Nat) = {ss \in Nat \X Nat : ss[1] < ss[2]}
  BY Zenon DEF OpToRel
<1>3. \A i, j \in Nat : i < j => <<i, j>> \in {ss \in Nat \X Nat : ss[1] < ss[2]}
  BY SMT
<1>4. \A i, j \in Nat : i < j => <<i, j>> \in OpToRel(<, Nat)
  BY <1>2, <1>3, Zenon
<1>5. \A i, j \in Nat : ~(j < i) => i <= j
  BY SMT
<1> QED  BY <1>1, <1>4, <1>5, Zenon

LEMMA GreatestNumber ==
  ASSUME NEW T \in SUBSET Nat, T # {}, NEW n \in Nat, \A i \in T : i <= n
  PROVE  \E i \in T : \A j \in T : j <= i
<1> DEFINE U == {j \in Nat : \E i \in T : j = n - i}
<1>1. PICK t \in T : TRUE
  OBVIOUS
<1>2. n - t \in U
  BY SMT
<1>3. PICK u \in U : \A j \in U : u <= j
  <2>1. U \in SUBSET Nat /\ U # {}
    BY <1>2
  <2> HIDE DEF U
  <2> QED  BY <2>1, LeastNumber
<1>4. PICK i \in T : u = n - i
  BY <1>3
<1>5. \A j \in T : n - j \in U
  BY SMT
<1>6. \A j \in T : j <= i
  <2> TAKE j \in T
  <2>1. u <= n - j
    BY <1>3, <1>5
  <2> QED  BY <1>4, <2>1, SMT
<1> QED  BY <1>4, <1>6

(* Min and Max of FiniteSetsExt *)
LEMMA MinFacts ==
  ASSUME NEW T \in SUBSET Nat, T # {}
  PROVE  Min(T) \in T /\ \A j \in T : Min(T) <= j
<1>1. \E i \in T : \A j \in T : i <= j
  BY LeastNumber
<1> QED  BY <1>1, Zenon DEF Min

LEMMA MaxFacts ==
  ASSUME NEW T \in SUBSET Nat, T # {}, NEW n \in Nat, \A i \in T : i <= n
  PROVE  Max(T) \in T /\ \A j \in T : j <= Max(T)
<1>1. \E i \in T : \A j \in T : j <= i
  BY GreatestNumber
<1>2. \E i \in T : \A j \in T : i >= j
  BY <1>1
<1>3. Max(T) \in T /\ \A j \in T : Max(T) >= j
  BY <1>2, Zenon DEF Max
<1> QED  BY <1>3

-----------------------------------------------------------------------------
(* Powers of two *)
LEMMA Pow ==
  /\ MaxOrder \in Nat
  /\ 2^0 = 1
  /\ \A k \in 0..(MaxOrder + 1) : 2^k \in Nat /\ 2^k > 0
  /\ \A k \in 0..MaxOrder : 2^(k + 1) = 2 * 2^k
BY BuddyAssumption, PowerAssumption

(* They grow. *)
LEMMA PowGrows ==
  ASSUME NEW j \in 0..(MaxOrder + 1), NEW k \in 0..(MaxOrder + 1), j < k
  PROVE  2 * 2^j <= 2^k
<1> DEFINE T == {i \in 0..(MaxOrder + 1) : j < i /\ ~(2 * 2^j <= 2^i)}
<1>1. SUFFICES ASSUME T # {} PROVE FALSE
  OBVIOUS
<1>2. PICK i \in T : \A l \in T : i <= l
  <2>1. T \in SUBSET Nat
    BY Pow
  <2> HIDE DEF T
  <2> QED  BY <1>1, <2>1, LeastNumber
<1>3. i - 1 \in 0..MaxOrder /\ i - 1 >= j
  BY <1>2, Pow
<1>4. 2^((i - 1) + 1) = 2 * 2^(i - 1)
  BY <1>3, Pow
<1>5. 2^i = 2 * 2^(i - 1)
  <2>1. (i - 1) + 1 = i
    BY <1>2, Pow
  <2> QED  BY <1>4, <2>1
<1>6. CASE i - 1 = j
  BY <1>2, <1>5, <1>6, Pow
<1>7. CASE i - 1 > j
  <2>1. i - 1 \notin T
    BY <1>2, <1>3
  <2>2. 2 * 2^j <= 2^(i - 1)
    BY <1>3, <1>7, <2>1, Pow
  <2>3. 2^(i - 1) \in Nat /\ 2^j \in Nat /\ 2^i \in Nat
    BY <1>3, Pow
  <2> QED  BY <1>2, <1>5, <2>2, <2>3
<1> QED  BY <1>3, <1>6, <1>7

-----------------------------------------------------------------------------
(* Alignment, through multiples *)
LEMMA AlignedMultiple ==
  ASSUME NEW p \in Nat, NEW k \in 0..(MaxOrder + 1)
  PROVE  Aligned(p, k) <=> \E q \in Nat : p = q * 2^k
<1> DEFINE d == 2^k
<1>1. d \in Nat /\ d > 0
  BY Pow
<1> HIDE DEF d
<1>2. p = d * (p \div d) + (p % d) /\ p \div d \in Nat /\ p % d \in Nat
  BY <1>1, SMT
<1>3. ASSUME p % d = 0 PROVE \E q \in Nat : p = q * d
  <2>1. p = (p \div d) * d
    BY <1>1, <1>2, <1>3, SMT
  <2> QED  BY <1>2, <2>1
<1>4. ASSUME NEW q \in Nat, p = q * d PROVE p % d = 0
  BY <1>1, <1>4, SMT
<1> QED  BY <1>3, <1>4 DEF d, Aligned

LEMMA AlignedZero == ASSUME NEW p \in Nat PROVE Aligned(p, 0)
<1>1. p % 1 = 0
  BY SMT
<1> QED  BY <1>1, Pow DEF Aligned

(* Sums and differences of aligned numbers are aligned. *)
LEMMA AlignedSum ==
  ASSUME NEW p \in Nat, NEW q \in Nat, NEW k \in 0..(MaxOrder + 1),
         Aligned(p, k), Aligned(q, k)
  PROVE  /\ Aligned(p + q, k)
         /\ q <= p => Aligned(p - q, k)
<1>0. 2^k \in Nat /\ 2^k > 0
  BY Pow
<1>1. PICK a \in Nat : p = a * 2^k
  BY AlignedMultiple
<1>2. PICK b \in Nat : q = b * 2^k
  BY AlignedMultiple
<1> DEFINE d == 2^k
<1> HIDE DEF d
<1>3. p + q = (a + b) * d /\ a + b \in Nat /\ p + q \in Nat
  BY <1>0, <1>1, <1>2, SMT DEF d
<1>4. ASSUME q <= p PROVE p - q = (a - b) * d /\ a - b \in Nat /\ p - q \in Nat
  <2>1. a * d - b * d = (a - b) * d
    BY <1>0, SMT DEF d
  <2>2. b <= a
    BY <1>0, <1>1, <1>2, <1>4, SMT DEF d
  <2> QED  BY <1>0, <1>1, <1>2, <1>4, <2>1, <2>2, SMT DEF d
<1>5. Aligned(p + q, k)
  BY <1>3, AlignedMultiple DEF d
<1>6. ASSUME q <= p PROVE Aligned(p - q, k)
  BY <1>4, <1>6, AlignedMultiple DEF d
<1> QED  BY <1>5, <1>6

(* Two aligned numbers are the same or a whole chunk apart. *)
LEMMA Grid ==
  ASSUME NEW p \in Nat, NEW q \in Nat, NEW k \in 0..(MaxOrder + 1),
         Aligned(p, k), Aligned(q, k), p < q
  PROVE  p + 2^k <= q
<1>0. 2^k \in Nat /\ 2^k > 0
  BY Pow
<1>1. PICK a \in Nat : p = a * 2^k
  BY AlignedMultiple
<1>2. PICK b \in Nat : q = b * 2^k
  BY AlignedMultiple
<1> DEFINE d == 2^k
<1> HIDE DEF d
<1>3. a < b
  BY <1>0, <1>1, <1>2, SMT DEF d
<1>4. (a + 1) * d <= b * d
  BY <1>0, <1>3, SMT DEF d
<1>5. (a + 1) * d = a * d + d
  BY <1>0, SMT DEF d
<1> QED  BY <1>0, <1>1, <1>2, <1>4, <1>5 DEF d

(* One order less *)
LEMMA AlignedPred ==
  ASSUME NEW p \in Nat, NEW k \in 0..MaxOrder, Aligned(p, k + 1)
  PROVE  Aligned(p, k)
<1>0. 2^k \in Nat /\ 2^(k + 1) = 2 * 2^k /\ k \in 0..(MaxOrder + 1) /\ k + 1 \in 0..(MaxOrder + 1)
  BY Pow
<1>1. PICK a \in Nat : p = a * 2^(k + 1)
  BY <1>0, AlignedMultiple
<1> DEFINE d == 2^k
<1> HIDE DEF d
<1>2. p = (2 * a) * d /\ 2 * a \in Nat
  BY <1>0, <1>1, SMT DEF d
<1> QED  BY <1>0, <1>2, AlignedMultiple DEF d

LEMMA AlignedDown ==
  ASSUME NEW p \in Nat, NEW k \in 0..(MaxOrder + 1), NEW j \in 0..k, Aligned(p, k)
  PROVE  Aligned(p, j)
<1> DEFINE T == {i \in Nat : i <= k /\ ~Aligned(p, k - i)}
<1>1. SUFFICES ASSUME ~Aligned(p, j) PROVE FALSE
  OBVIOUS
<1>2. k - (k - j) = j /\ k - j \in Nat /\ k - j <= k
  BY Pow
<1>3. k - j \in T
  BY <1>1, <1>2
<1>4. PICK i \in T : \A l \in T : i <= l
  <2>1. T \in SUBSET Nat /\ T # {}
    BY <1>3
  <2> HIDE DEF T
  <2> QED  BY <2>1, LeastNumber
<1>5. i # 0
  <2>1. k - 0 = k
    BY Pow
  <2> QED  BY <1>4, <2>1
<1>6. i - 1 \in Nat /\ i - 1 <= k /\ i - 1 \notin T
  BY <1>4, <1>5, Pow
<1>7. Aligned(p, k - (i - 1))
  BY <1>6
<1>8. k - (i - 1) = (k - i) + 1 /\ k - i \in 0..MaxOrder
  BY <1>4, <1>5, Pow
<1>9. Aligned(p, k - i)
  BY <1>7, <1>8, AlignedPred
<1> QED  BY <1>4, <1>9

LEMMA AlignedPow ==
  ASSUME NEW k \in 0..(MaxOrder + 1), NEW j \in 0..k
  PROVE  Aligned(2^k, j)
<1>1. 2^k \in Nat /\ 2^k = 1 * 2^k
  BY Pow
<1>2. Aligned(2^k, k)
  BY <1>1, AlignedMultiple
<1> QED  BY <1>1, <1>2, AlignedDown

-----------------------------------------------------------------------------
(* Chunks *)
LEMMA ChunkMember ==
  ASSUME NEW p \in Nat, NEW k \in 0..(MaxOrder + 1)
  PROVE  /\ \A q : q \in Chunk(p, k) <=> q \in Nat /\ p <= q /\ q < p + 2^k
         /\ p \in Chunk(p, k)
<1>1. 2^k \in Nat /\ 2^k > 0
  BY Pow
<1> QED  BY <1>1 DEF Chunk

(* Aligned chunks that meet are nested. *)
LEMMA Nested ==
  ASSUME NEW p \in Nat, NEW c \in Nat, NEW k \in 0..(MaxOrder + 1), NEW j \in 0..k,
         Aligned(p, j), Aligned(c, k), NEW q, q \in Chunk(p, j), q \in Chunk(c, k)
  PROVE  /\ Chunk(p, j) \subseteq Chunk(c, k)
         /\ j = k => p = c
<1>1. j \in 0..(MaxOrder + 1) /\ 2^k \in Nat /\ 2^j \in Nat /\ c + 2^k \in Nat
  BY Pow
<1>2. q \in Nat /\ p <= q /\ q < p + 2^j /\ c <= q /\ q < c + 2^k
  BY <1>1, ChunkMember
<1>3. Aligned(c, j) /\ Aligned(c + 2^k, j)
  BY <1>1, AlignedDown, AlignedPow, AlignedSum
<1>4. p + 2^j <= c + 2^k
  <2>1. p < c + 2^k
    BY <1>1, <1>2
  <2> QED  BY <1>1, <1>3, <2>1, Grid
<1>5. c <= p
  <2>1. ASSUME p < c PROVE FALSE
    <3>1. p + 2^j <= c
      BY <1>1, <1>3, <2>1, Grid
    <3> QED  BY <1>1, <1>2, <3>1
  <2> QED  BY <2>1
<1>6. Chunk(p, j) \subseteq Chunk(c, k)
  <2>1. \A x \in Nat : p <= x /\ x < p + 2^j => c <= x /\ x < c + 2^k
    BY <1>1, <1>4, <1>5
  <2> QED  BY <1>1, <2>1, ChunkMember
<1>7. j = k => p = c
  BY <1>1, <1>4, <1>5
<1> QED  BY <1>6, <1>7

(* The chunk around a page *)
LEMMA AroundFacts ==
  ASSUME NEW p \in Nat, NEW j \in 0..(MaxOrder + 1)
  PROVE  /\ Around(p, j) \in Nat
         /\ Aligned(Around(p, j), j)
         /\ p \in Chunk(Around(p, j), j)
<1> DEFINE d == 2^j
<1>0. d \in Nat /\ d > 0
  BY Pow
<1> HIDE DEF d
<1>1. p = d * (p \div d) + (p % d) /\ p \div d \in Nat /\ p % d \in 0..(d - 1)
  BY <1>0, SMT
<1>2. p - (p % d) = (p \div d) * d /\ p - (p % d) \in Nat
  BY <1>0, <1>1, SMT
<1>3. Around(p, j) = (p \div d) * d /\ Around(p, j) \in Nat /\ Around(p, j) = p - (p % d)
  BY <1>2 DEF Around, d
<1>4. Aligned(Around(p, j), j)
  BY <1>1, <1>3, AlignedMultiple DEF d
<1>5. Around(p, j) <= p /\ p < Around(p, j) + 2^j
  BY <1>0, <1>1, <1>3, SMT DEF d
<1> QED  BY <1>3, <1>4, <1>5, ChunkMember

LEMMA AroundUnique ==
  ASSUME NEW p \in Nat, NEW c \in Nat, NEW j \in 0..(MaxOrder + 1),
         Aligned(c, j), p \in Chunk(c, j)
  PROVE  Around(p, j) = c
<1>1. j \in 0..j
  OBVIOUS
<1> QED  BY <1>1, AroundFacts, Nested

LEMMA AroundSelf ==
  ASSUME NEW p \in Nat, NEW j \in 0..(MaxOrder + 1), Aligned(p, j)
  PROVE  Around(p, j) = p
BY ChunkMember, AroundUnique

(* Of two neighbours, one is aligned to the next order. *)
LEMMA OddAligned ==
  ASSUME NEW p \in Nat, NEW k \in 0..MaxOrder, Aligned(p, k), ~Aligned(p, k + 1)
  PROVE  2^k <= p /\ Aligned(p - 2^k, k + 1)
<1>0. 2^k \in Nat /\ 2^k > 0 /\ 2^(k + 1) = 2 * 2^k /\ k \in 0..(MaxOrder + 1) /\ k + 1 \in 0..(MaxOrder + 1)
  BY Pow
<1>1. PICK a \in Nat : p = a * 2^k
  BY <1>0, AlignedMultiple
<1> DEFINE d == 2^k  h == a \div 2
<1>2. h \in Nat /\ (a = 2 * h \/ a = 2 * h + 1)
  BY SMT
<1> HIDE DEF d, h
<1>3. CASE a = 2 * h
  <2>1. p = h * (2 * d)
    BY <1>0, <1>1, <1>2, <1>3, SMT DEF d
  <2> QED  BY <1>0, <1>2, <2>1, AlignedMultiple DEF d
<1>4. CASE a = 2 * h + 1
  <2>1. p = h * (2 * d) + d /\ h * (2 * d) \in Nat
    BY <1>0, <1>1, <1>2, <1>4, SMT DEF d
  <2>2. d <= p /\ p - d = h * (2 * d) /\ p - d \in Nat
    BY <1>0, <2>1, SMT DEF d
  <2> QED  BY <1>0, <1>2, <2>2, AlignedMultiple DEF d
<1> QED  BY <1>2, <1>3, <1>4

LEMMA EvenAligned ==
  ASSUME NEW p \in Nat, NEW k \in 0..MaxOrder, Aligned(p, k + 1)
  PROVE  Aligned(p + 2^k, k) /\ ~Aligned(p + 2^k, k + 1)
<1>0. 2^k \in Nat /\ 2^k > 0 /\ 2^(k + 1) = 2 * 2^k /\ k \in 0..(MaxOrder + 1) /\ k + 1 \in 0..(MaxOrder + 1)
  BY Pow
<1>1. Aligned(p + 2^k, k)
  <2>1. k \in 0..k
    BY <1>0
  <2>2. Aligned(p, k) /\ Aligned(2^k, k)
    BY <1>0, <2>1, AlignedPred, AlignedPow
  <2> QED  BY <1>0, <2>2, AlignedSum
<1>2. ASSUME Aligned(p + 2^k, k + 1) PROVE FALSE
  <2>1. p + 2^(k + 1) <= p + 2^k
    BY <1>0, <1>2, Grid
  <2> QED  BY <1>0, <2>1
<1> QED  BY <1>1, <1>2

(* The two halves of a chunk *)
LEMMA Halves ==
  ASSUME NEW u \in Nat, NEW k \in 0..MaxOrder
  PROVE  \A q : q \in Chunk(u, k + 1) <=> q \in Chunk(u, k) \/ q \in Chunk(u + 2^k, k)
<1>0. 2^k \in Nat /\ 2^k > 0 /\ 2^(k + 1) = 2 * 2^k /\ k \in 0..(MaxOrder + 1) /\ k + 1 \in 0..(MaxOrder + 1)
  BY Pow
<1>1. u + 2^k \in Nat
  BY <1>0
<1>2. \A q \in Nat : (u <= q /\ q < u + 2^(k + 1)) <=> (u <= q /\ q < u + 2^k) \/ (u + 2^k <= q /\ q < (u + 2^k) + 2^k)
  BY <1>0
<1>3. \A q : /\ q \in Chunk(u, k + 1) <=> q \in Nat /\ u <= q /\ q < u + 2^(k + 1)
             /\ q \in Chunk(u, k) <=> q \in Nat /\ u <= q /\ q < u + 2^k
             /\ q \in Chunk(u + 2^k, k) <=> q \in Nat /\ u + 2^k <= q /\ q < (u + 2^k) + 2^k
  BY <1>0, <1>1, ChunkMember
<1> QED  BY <1>2, <1>3, Zenon

(* A chunk and its buddy are the halves of the next larger chunk. *)
LEMMA BuddyFacts ==
  ASSUME NEW p \in Nat, NEW j \in 0..MaxOrder
  PROVE  /\ Buddy(p, j) \in Nat /\ Aligned(Buddy(p, j), j)
         /\ \A q : q \in Chunk(Around(p, j + 1), j + 1)
                     <=> q \in Chunk(Around(p, j), j) \/ q \in Chunk(Buddy(p, j), j)
         /\ \/ Around(p, j) = Around(p, j + 1) /\ Buddy(p, j) = Around(p, j) + 2^j
            \/ Buddy(p, j) = Around(p, j + 1) /\ Around(p, j) = Buddy(p, j) + 2^j
<1> DEFINE c == Around(p, j)
<1>0. 2^j \in Nat /\ 2^j > 0 /\ 2^(j + 1) = 2 * 2^j /\ j \in 0..(MaxOrder + 1) /\ j + 1 \in 0..(MaxOrder + 1)
  BY Pow
<1>1. c \in Nat /\ Aligned(c, j) /\ p \in Chunk(c, j)
  BY <1>0, AroundFacts
<1>b. Buddy(p, j) = IF Aligned(c, j + 1) THEN c + 2^j ELSE c - 2^j
  BY DEF Buddy
<1> HIDE DEF c
<1>2. CASE Aligned(c, j + 1)
  <2>1. Buddy(p, j) = c + 2^j /\ c + 2^j \in Nat
    BY <1>0, <1>1, <1>2, <1>b
  <2>2. Aligned(c + 2^j, j)
    BY <1>1, <1>2, EvenAligned
  <2>3. \A q : q \in Chunk(c, j + 1) <=> q \in Chunk(c, j) \/ q \in Chunk(c + 2^j, j)
    BY <1>1, Halves
  <2>4. Around(p, j + 1) = c
    BY <1>0, <1>1, <1>2, <2>3, AroundUnique
  <2> QED  BY <2>1, <2>2, <2>3, <2>4 DEF c
<1>3. CASE ~Aligned(c, j + 1)
  <2> DEFINE u == c - 2^j
  <2>1. 2^j <= c /\ Aligned(u, j + 1)
    BY <1>1, <1>3, OddAligned
  <2>2. Buddy(p, j) = u /\ u \in Nat /\ u + 2^j = c
    BY <1>0, <1>1, <1>3, <1>b, <2>1
  <2> HIDE DEF u
  <2>3. \A q : q \in Chunk(u, j + 1) <=> q \in Chunk(u, j) \/ q \in Chunk(c, j)
    BY <2>2, Halves
  <2>4. Around(p, j + 1) = u
    BY <1>0, <1>1, <2>1, <2>2, <2>3, AroundUnique
  <2>5. Aligned(u, j)
    BY <2>1, <2>2, AlignedPred
  <2> QED  BY <2>2, <2>3, <2>4, <2>5 DEF c
<1> QED  BY <1>2, <1>3

-----------------------------------------------------------------------------
(* The inductive invariant.  Pages are mapped only behind the descriptor of *)
(* their region, so that no chunk reaches over the end of one.              *)
BuddyType ==
  /\ free \in [Order -> SUBSET Page]
  /\ level \in [Page -> Order \cup {Garbage}]
  /\ mapped \subseteq Page /\ bitmap \subseteq mapped
  /\ held \subseteq Page \X (1..2^MaxOrder)
  /\ \A q \in mapped : \E r \in Region : q \in Pages(r[1], r[2]) /\ q # r[1]

(* The chunks of the lists: aligned, free, with their level in place; apart *)
(* from each other; all that is free.  Buddies are never both in a list.    *)
FreeInv ==
  /\ \A k \in Order : \A c \in free[k] :
       Aligned(c, k) /\ Chunk(c, k) \subseteq mapped \ bitmap /\ level[c] = k
  /\ \A k, l \in Order : \A c \in free[k], d \in free[l] :
       \A q \in Chunk(c, k) : q \in Chunk(d, l) => c = d /\ k = l
  /\ \A q \in mapped \ bitmap : \E k \in Order : \E c \in free[k] : q \in Chunk(c, k)
  /\ \A k \in Order : \A c \in free[k] :
       k < MaxOrder /\ c + 2^k \in free[k] => ~Aligned(c, k + 1)
  /\ nr_free_pages = Cardinality(mapped \ bitmap)

(* The blocks of the callers: whole chunks, allocated, apart from each other. *)
HeldInv ==
  /\ \A h \in held :
       LET k == num_pages_to_order(h[2]) IN
       /\ k \in Order /\ h[2] <= 2^k
       /\ Aligned(h[1], k) /\ Chunk(h[1], k) \subseteq bitmap
  /\ \A g, h \in held :
       \A q \in Chunk(g[1], num_pages_to_order(g[2])) :
         q \in Chunk(h[1], num_pages_to_order(h[2])) => g = h

BuddyInv == BuddyType /\ FreeInv /\ HeldInv

LEMMA PageFacts ==
  /\ \A q \in Page : q \in Nat /\ q < 2^(MaxOrder + 1)
  /\ IsFiniteSet(Page)
<1>1. 2^(MaxOrder + 1) \in Nat /\ MaxOrder + 1 \in 0..(MaxOrder + 1)
  BY Pow
<1>2. \A q \in Page : q \in Nat /\ q < 2^(MaxOrder + 1)
  BY <1>1, BuddyAssumption
<1>3. IsFiniteSet(0..(2^(MaxOrder + 1) - 1))
  BY <1>1, FS_Interval
<1> QED  BY <1>2, <1>3, BuddyAssumption, FS_Subset

LEMMA OrderFacts ==
  /\ \A k \in Order : k \in 0..(MaxOrder + 1) /\ k \in 0..MaxOrder /\ k \in Nat
  /\ \A k \in Order : 2^k \in Nat /\ 2^k > 0
BY Pow DEF Order

(* What is known of a chunk in a list *)
LEMMA FreeChunk ==
  ASSUME BuddyInv, NEW k \in Order, NEW c \in free[k]
  PROVE  /\ c \in Page /\ c \in Nat /\ Aligned(c, k)
         /\ Chunk(c, k) \subseteq mapped \ bitmap /\ level[c] = k
<1>1. c \in Page
  BY DEF BuddyInv, BuddyType
<1> QED  BY <1>1, PageFacts DEF BuddyInv, FreeInv

(* What is known of a block *)
LEMMA HeldBlock ==
  ASSUME BuddyInv, NEW h \in held
  PROVE  LET k == num_pages_to_order(h[2]) IN
         /\ h[1] \in Page /\ h[1] \in Nat /\ h[2] \in Nat /\ h[2] > 0 /\ h = <<h[1], h[2]>>
         /\ k \in Order /\ h[2] <= 2^k
         /\ Aligned(h[1], k) /\ Chunk(h[1], k) \subseteq bitmap
         /\ Pages(h[1], h[2]) \subseteq Chunk(h[1], k)
<1> DEFINE k == num_pages_to_order(h[2])
<1>1. h \in Page \X (1..2^MaxOrder) /\ MaxOrder \in Order /\ 2^MaxOrder \in Nat
  BY Pow DEF BuddyInv, BuddyType, Order
<1>2. h[1] \in Page /\ h[1] \in Nat /\ h[2] \in Nat /\ h[2] > 0 /\ h = <<h[1], h[2]>>
  BY <1>1, PageFacts
<1>3. k \in Order /\ h[2] <= 2^k /\ Aligned(h[1], k) /\ Chunk(h[1], k) \subseteq bitmap
  BY DEF BuddyInv, HeldInv
<1> HIDE DEF k
<1>4. 2^k \in Nat
  BY <1>3, OrderFacts
<1>5. Pages(h[1], h[2]) \subseteq Chunk(h[1], k)
  BY <1>2, <1>3, <1>4 DEF Pages, Chunk
<1> QED  BY <1>2, <1>3, <1>5 DEF k

(* Page 0 is in no region. *)
LEMMA ZeroUnmapped == BuddyInv => 0 \notin mapped
<1>1. ASSUME NEW r \in Region PROVE 0 \notin Pages(r[1], r[2])
  <2>1. r[1] \in Nat /\ r[1] # 0 /\ r[2] \in Nat
    BY RegionAssumption
  <2> QED  BY <2>1 DEF Pages
<1> QED  BY <1>1 DEF BuddyInv, BuddyType

-----------------------------------------------------------------------------
(* The invariant says what FreeListsExact says. *)
LEMMA ListsAreExact == BuddyInv => FreeListsExact
<1> SUFFICES ASSUME BuddyInv PROVE FreeListsExact
  OBVIOUS
<1> DEFINE chunks == {x \in Page \X Order : x[1] \in free[x[2]]}
<1>1. \A x \in chunks : x[1] \in Page /\ x[2] \in Order /\ x[1] \in free[x[2]] /\ x = <<x[1], x[2]>>
  OBVIOUS
<1>2. \A k \in Order : \A c \in free[k] : <<c, k>> \in chunks
  BY FreeChunk
<1> HIDE DEF chunks
<1>3. \A x \in chunks : Aligned(x[1], x[2])
  BY <1>1, FreeChunk
<1>4. \A x, y \in chunks : x # y => Chunk(x[1], x[2]) \cap Chunk(y[1], y[2]) = {}
  <2> TAKE x, y \in chunks
  <2>1. ASSUME NEW q \in Chunk(x[1], x[2]), q \in Chunk(y[1], y[2]) PROVE x = y
    <3>1. x[1] = y[1] /\ x[2] = y[2]
      BY <1>1, <2>1 DEF BuddyInv, FreeInv
    <3> QED  BY <1>1, <3>1
  <2> QED  BY <2>1
<1>5. UNION {Chunk(x[1], x[2]) : x \in chunks} = mapped \ bitmap
  <2>1. ASSUME NEW x \in chunks PROVE Chunk(x[1], x[2]) \subseteq mapped \ bitmap
    BY <1>1, FreeChunk
  <2>2. ASSUME NEW q \in mapped \ bitmap PROVE \E x \in chunks : q \in Chunk(x[1], x[2])
    <3>0. PICK k \in Order : \E c \in free[k] : q \in Chunk(c, k)
      BY DEF BuddyInv, FreeInv
    <3>1. PICK c \in free[k] : q \in Chunk(c, k)
      BY <3>0
    <3>2. <<c, k>> \in chunks /\ <<c, k>>[1] = c /\ <<c, k>>[2] = k
      BY <1>2
    <3> QED  BY <3>1, <3>2
  <2> QED  BY <2>1, <2>2
<1>6. nr_free_pages = Cardinality(mapped \ bitmap)
  BY DEF BuddyInv, FreeInv
<1> QED  BY <1>3, <1>4, <1>5, <1>6 DEF FreeListsExact, chunks

(* A buddy that is free is the start of a chunk, not larger than the one it *)
(* would be merged with: a larger one would reach over the block that is    *)
(* still allocated.                                                         *)
LEMMA BuddyIsChunk ==
  ASSUME BuddyInv, NEW h \in held, NEW j \in Order, num_pages_to_order(h[2]) <= j,
         Buddy(h[1], j) \in mapped \ bitmap
  PROVE  \E l \in 0..j : l \in Order /\ Buddy(h[1], j) \in free[l] /\ level[Buddy(h[1], j)] = l
<1> DEFINE p == h[1]  k == num_pages_to_order(h[2])  b == Buddy(p, j)  u == Around(p, j + 1)
<1>1. /\ p \in Nat /\ k \in Order /\ Aligned(p, k) /\ Chunk(p, k) \subseteq bitmap
      /\ j \in 0..MaxOrder /\ j + 1 \in 0..(MaxOrder + 1) /\ j \in 0..(MaxOrder + 1)
  BY HeldBlock, Pow DEF Order
<1>2. /\ b \in Nat /\ Aligned(b, j)
      /\ \A q : q \in Chunk(u, j + 1) <=> q \in Chunk(Around(p, j), j) \/ q \in Chunk(b, j)
  BY <1>1, BuddyFacts
<1>3. u \in Nat /\ Aligned(u, j + 1) /\ p \in Chunk(u, j + 1)
  BY <1>1, AroundFacts
<1>4. b \in mapped \ bitmap /\ p \in bitmap
  BY <1>1, OrderFacts, ChunkMember
<1> HIDE DEF p, k, b, u
<1>5a. PICK l \in Order : \E c \in free[l] : b \in Chunk(c, l)
  BY <1>4 DEF BuddyInv, FreeInv
<1>5. PICK c \in free[l] : b \in Chunk(c, l)
  BY <1>5a
<1>6. c \in Nat /\ Aligned(c, l) /\ Chunk(c, l) \subseteq mapped \ bitmap /\ level[c] = l
  BY FreeChunk
<1>7. l \in Nat /\ l \in 0..(MaxOrder + 1) /\ j \in Nat
  BY <1>1, OrderFacts
<1>8. CASE l <= j
  <2>1. l \in 0..j /\ l \in 0..l
    BY <1>7, <1>8
  <2>2. Aligned(b, l)
    BY <1>1, <1>2, <2>1, AlignedDown
  <2>3. b \in Chunk(b, l)
    BY <1>2, <1>7, ChunkMember
  <2>4. b = c
    BY <1>2, <1>5, <1>6, <1>7, <2>1, <2>2, <2>3, Nested
  <2> QED  BY <1>6, <2>1, <2>4 DEF b, p
<1>9. CASE l > j
  <2>1. j + 1 \in 0..l
    BY <1>7, <1>9
  <2>2. b \in Chunk(u, j + 1)
    BY <1>1, <1>2, ChunkMember
  <2>3. Chunk(u, j + 1) \subseteq Chunk(c, l)
    BY <1>3, <1>5, <1>6, <1>7, <2>1, <2>2, Nested
  <2> QED  BY <1>3, <1>4, <1>6, <2>3
<1> QED  BY <1>7, <1>8, <1>9

(* bbuddy_pfree reads a level only where one was written. *)
LEMMA LevelIsTrusted == BuddyInv => LevelTrusted
<1> SUFFICES ASSUME BuddyInv,
                    NEW h \in held, NEW j \in Order, num_pages_to_order(h[2]) <= j,
                    ~allocated_in_map(Buddy(h[1], j))
             PROVE  level[Buddy(h[1], j)] \in Order
                    /\ Buddy(h[1], j) \in free[level[Buddy(h[1], j)]]
  BY DEF LevelTrusted
<1>1. Buddy(h[1], j) \in mapped \ bitmap
  BY DEF allocated_in_map
<1> QED  BY <1>1, BuddyIsChunk

(* Whatever is free and aligned lies in a chunk at least as large: two free *)
(* halves would be buddies, and both in a list.                             *)
InLargeChunk(p, k) == \E l \in Order : k <= l /\ \E c \in free[l] : p \in Chunk(c, l)

LEMMA FreeRunInChunk ==
  ASSUME BuddyInv, NEW k \in Order, NEW p \in Page,
         Aligned(p, k), Chunk(p, k) \subseteq mapped \ bitmap
  PROVE  InLargeChunk(p, k)
<1> DEFINE Bad(i) == \E q \in Page : /\ Aligned(q, i) /\ Chunk(q, i) \subseteq mapped \ bitmap
                                     /\ ~InLargeChunk(q, i)
           T == {i \in Order : Bad(i)}
<1>1. SUFFICES ASSUME T # {} PROVE FALSE
  OBVIOUS
<1>2. PICK i \in T : \A l \in T : i <= l
  <2>1. T \in SUBSET Nat
    BY OrderFacts
  <2> HIDE DEF T
  <2> QED  BY <1>1, <2>1, LeastNumber
<1>3. PICK q \in Page : /\ Aligned(q, i) /\ Chunk(q, i) \subseteq mapped \ bitmap
                        /\ ~InLargeChunk(q, i)
  BY <1>2
<1>4. i \in Order /\ i \in 0..(MaxOrder + 1) /\ i \in 0..MaxOrder /\ i \in Nat /\ q \in Nat
  BY <1>2, OrderFacts, PageFacts
<1>5. \A l \in T : i <= l
  BY <1>2
<1> HIDE DEF InLargeChunk
<1>6. i # 0
  <2>1. SUFFICES ASSUME i = 0 PROVE FALSE
    OBVIOUS
  <2>2. q \in mapped \ bitmap
    BY <1>3, <1>4, ChunkMember
  <2>3. PICK l \in Order : \E c \in free[l] : q \in Chunk(c, l)
    BY <2>2 DEF BuddyInv, FreeInv
  <2>4. l >= 0
    BY OrderFacts
  <2> QED  BY <1>3, <2>1, <2>3, <2>4 DEF InLargeChunk
<1> DEFINE k1 == i - 1
<1>7. k1 \in Order /\ k1 \in 0..MaxOrder /\ k1 \in Nat /\ k1 + 1 = i /\ k1 < MaxOrder /\ k1 \in 0..(MaxOrder + 1)
  BY <1>4, <1>6, Pow DEF Order
<1>8. ASSUME NEW x \in Nat, Aligned(x, k1), x \in Chunk(q, i), Chunk(x, k1) \subseteq Chunk(q, i)
      PROVE  x \in free[k1]
  <2>1. x \in Page
    BY <1>3, <1>8 DEF BuddyInv, BuddyType
  <2>2. Chunk(x, k1) \subseteq mapped \ bitmap
    BY <1>3, <1>8
  <2>3. k1 \notin T
    BY <1>4, <1>5, <1>7
  <2>4. InLargeChunk(x, k1)
    BY <1>7, <1>8, <2>1, <2>2, <2>3
  <2>5. PICK l \in Order : k1 <= l /\ \E c \in free[l] : x \in Chunk(c, l)
    BY <2>4 DEF InLargeChunk
  <2>6. PICK c \in free[l] : x \in Chunk(c, l)
    BY <2>5
  <2>7. c \in Nat /\ Aligned(c, l) /\ l \in 0..(MaxOrder + 1) /\ l \in Nat
    BY FreeChunk, OrderFacts
  <2>8. CASE l = k1
    <3>1. x \in Chunk(x, k1) /\ l \in 0..l
      BY <1>7, <1>8, <2>7, ChunkMember
    <3>2. x = c
      BY <1>7, <1>8, <2>6, <2>7, <2>8, <3>1, Nested
    <3> QED  BY <2>8, <3>2
  <2>9. CASE l # k1
    <3>1. i <= l /\ i \in 0..l
      BY <1>4, <1>7, <2>5, <2>7, <2>9
    <3>2. Chunk(q, i) \subseteq Chunk(c, l)
      BY <1>3, <1>4, <1>8, <2>6, <2>7, <3>1, Nested
    <3>3. q \in Chunk(c, l)
      BY <1>4, <3>2, ChunkMember
    <3> QED  BY <1>3, <3>1, <3>3 DEF InLargeChunk
  <2> QED  BY <2>8, <2>9
<1>9. \A y : y \in Chunk(q, i) <=> y \in Chunk(q, k1) \/ y \in Chunk(q + 2^k1, k1)
  BY <1>4, <1>7, Halves
<1>10. 2^k1 \in Nat /\ q + 2^k1 \in Nat
  BY <1>4, <1>7, OrderFacts
<1>11. q \in Chunk(q, k1) /\ q + 2^k1 \in Chunk(q + 2^k1, k1)
  BY <1>4, <1>7, <1>10, ChunkMember
<1>12. Aligned(q, k1) /\ Aligned(q + 2^k1, k1)
  BY <1>3, <1>4, <1>7, AlignedPred, EvenAligned
<1>13. q \in free[k1]
  BY <1>4, <1>8, <1>9, <1>11, <1>12
<1>14. q + 2^k1 \in free[k1]
  BY <1>8, <1>9, <1>10, <1>11, <1>12
<1> QED  BY <1>3, <1>7, <1>13, <1>14 DEF BuddyInv, FreeInv

LEMMA NothingIsFragmented == BuddyInv => NoFalseENOMEM
<1> SUFFICES ASSUME BuddyInv, NEW k \in Order, NEW p \in Page,
                    Aligned(p, k), Chunk(p, k) \subseteq mapped \ bitmap
             PROVE  2^k <= pmaxalloc
  BY DEF NoFalseENOMEM
<1> DEFINE orders == {i \in Order : free[i] # {}}
<1>1. PICK l \in Order : k <= l /\ \E c \in free[l] : p \in Chunk(c, l)
  BY FreeRunInChunk DEF InLargeChunk
<1>2. l \in orders
  BY <1>1
<1>3. orders \in SUBSET Nat /\ (\A i \in orders : i <= MaxOrder) /\ MaxOrder \in Nat
  BY Pow DEF Order
<1>4. pmaxalloc = 2^Max(orders)
  BY <1>2 DEF pmaxalloc
<1>5. Max(orders) \in Order /\ l <= Max(orders)
  <2>1. orders \subseteq Order
    OBVIOUS
  <2> HIDE DEF orders
  <2> QED  BY <1>2, <1>3, <2>1, MaxFacts
<1> HIDE DEF orders
<1> DEFINE m == Max(orders)
<1>6. k \in 0..(MaxOrder + 1) /\ m \in 0..(MaxOrder + 1) /\ k <= m /\ 2^k \in Nat /\ 2^m \in Nat
  BY <1>1, <1>5, OrderFacts
<1> HIDE DEF m
<1>7. 2^k <= 2^m
  <2>1. CASE k < m
    <3>1. 2 * 2^k <= 2^m
      BY <1>6, <2>1, PowGrows
    <3> QED  BY <1>6, <3>1
  <2>2. CASE k = m
    BY <1>6, <2>2
  <2> QED  BY <1>6, <2>1, <2>2
<1> QED  BY <1>4, <1>7 DEF m

-----------------------------------------------------------------------------
(* bbuddy_palloc *)
LEMMA PowMono ==
  ASSUME NEW j \in 0..(MaxOrder + 1), NEW k \in 0..(MaxOrder + 1), j <= k
  PROVE  2^j <= 2^k
<1>1. 2^j \in Nat /\ 2^k \in Nat
  BY Pow
<1>2. CASE j < k
  <2>1. 2 * 2^j <= 2^k
    BY <1>2, PowGrows
  <2> QED  BY <1>1, <2>1
<1>3. CASE j = k
  BY <1>1, <1>3
<1> QED  BY <1>2, <1>3, Pow

LEMMA OrderOfRequest ==
  ASSUME NEW n \in Nat, n <= 2^(MaxOrder + 1)
  PROVE  num_pages_to_order(n) \in 0..(MaxOrder + 1) /\ n <= 2^num_pages_to_order(n)
<1> DEFINE T == {k \in 0..(MaxOrder + 1) : n <= 2^k}
<1>1. MaxOrder + 1 \in T /\ T \in SUBSET Nat
  BY Pow
<1>2. Min(T) \in T
  <2> HIDE DEF T
  <2> QED  BY <1>1, MinFacts
<1> QED  BY <1>2 DEF num_pages_to_order

(* The chunk it takes is large enough. *)
LEMMA PallocTakes ==
  ASSUME BuddyInv, NEW n \in Nat, n <= 2^(MaxOrder + 1), Palloc(n)
  PROVE  /\ n # 0
         /\ \E i \in Order : \E k \in 0..i : \E c \in free[i] :
              k = num_pages_to_order(n) /\ n <= 2^k /\ Take(c, i, k, n)
<1> DEFINE k == num_pages_to_order(n)
           orders == {i \in Order : i >= k /\ free[i] # {}}
           m == Min(orders)
<1>1. n # 0 /\ orders # {} /\ \E c \in free[m] : Take(c, m, k, n)
  BY DEF Palloc
<1>2. k \in 0..(MaxOrder + 1) /\ n <= 2^k
  BY OrderOfRequest
<1>3. m \in Order /\ m >= k
  <2>1. orders \in SUBSET Nat
    BY OrderFacts
  <2>2. m \in orders
    <3> HIDE DEF orders
    <3> QED  BY <1>1, <2>1, MinFacts
  <2> QED  BY <2>2
<1>4. k \in 0..m
  <2> HIDE DEF k, m
  <2> QED  BY <1>2, <1>3, OrderFacts
<1> QED  BY <1>1, <1>2, <1>3, <1>4

(* What the splitting leaves over, next to the chunk that is handed out *)
LEMMA SparesApart ==
  ASSUME NEW c \in Nat, NEW j \in 0..MaxOrder, NEW l \in 0..MaxOrder,
         NEW q, q \in Chunk(c + 2^j, j), q \in Chunk(c + 2^l, l)
  PROVE  j = l
<1>0. j \in 0..(MaxOrder + 1) /\ l \in 0..(MaxOrder + 1) /\ 2^j \in Nat /\ 2^l \in Nat
  BY Pow
<1>1. /\ q \in Nat /\ c + 2^j <= q /\ q < (c + 2^j) + 2^j
      /\ c + 2^l <= q /\ q < (c + 2^l) + 2^l
  <2>1. c + 2^j \in Nat /\ c + 2^l \in Nat
    BY <1>0
  <2> QED  BY <1>0, <2>1, ChunkMember
<1>2. ASSUME j < l PROVE FALSE
  <2>1. 2 * 2^j <= 2^l
    BY <1>0, <1>2, PowGrows
  <2> QED  BY <1>0, <1>1, <2>1
<1>3. ASSUME l < j PROVE FALSE
  <2>1. 2 * 2^l <= 2^j
    BY <1>0, <1>3, PowGrows
  <2> QED  BY <1>0, <1>1, <2>1
<1> QED  BY <1>2, <1>3

LEMMA SpareNotTaken ==
  ASSUME NEW c \in Nat, NEW j \in 0..MaxOrder, NEW k \in 0..j,
         NEW q, q \in Chunk(c + 2^j, j)
  PROVE  q \notin Chunk(c, k)
<1>0. j \in 0..(MaxOrder + 1) /\ k \in 0..(MaxOrder + 1) /\ 2^j \in Nat /\ 2^k \in Nat /\ c + 2^j \in Nat
  BY Pow
<1>1. c + 2^j <= q /\ q \in Nat
  BY <1>0, ChunkMember
<1>2. 2^k <= 2^j
  BY <1>0, PowMono
<1>3. q \in Chunk(c, k) => q < c + 2^k
  BY <1>0, ChunkMember
<1> QED  BY <1>0, <1>1, <1>2, <1>3

SplitAt(c, i, k, q) == q \in Chunk(c, k) \/ \E j \in k..(i - 1) : q \in Chunk(c + 2^j, j)

LEMMA SplitCovers ==
  ASSUME NEW c \in Nat, NEW i \in 0..(MaxOrder + 1), NEW k \in 0..i
  PROVE  \A q : q \in Chunk(c, i) <=> SplitAt(c, i, k, q)
<1> DEFINE Ok(l) == \A q : q \in Chunk(c, l) <=> SplitAt(c, l, k, q)
           T == {l \in 0..(MaxOrder + 1) : k <= l /\ ~Ok(l)}
<1>1. SUFFICES ASSUME T # {} PROVE FALSE
  BY Pow
<1>2. PICK l \in T : \A x \in T : l <= x
  <2>1. T \in SUBSET Nat
    BY Pow
  <2> HIDE DEF T
  <2> QED  BY <1>1, <2>1, LeastNumber
<1>3. l \in 0..(MaxOrder + 1) /\ k <= l /\ ~Ok(l) /\ k \in Nat /\ l \in Nat
  BY <1>2, Pow
<1>4. l # k
  <2>1. \A q : SplitAt(c, k, k, q) <=> q \in Chunk(c, k)
    BY <1>3 DEF SplitAt
  <2> QED  BY <1>3, <2>1
<1> DEFINE a == l - 1
<1>5. a \in 0..MaxOrder /\ k <= a /\ a + 1 = l /\ a \in 0..(MaxOrder + 1) /\ a < l
  BY <1>3, <1>4, Pow
<1>6. Ok(a)
  <2>1. a \notin T
    BY <1>2, <1>5
  <2> QED  BY <1>5, <2>1
<1>7. \A q : q \in Chunk(c, l) <=> q \in Chunk(c, a) \/ q \in Chunk(c + 2^a, a)
  BY <1>5, Halves
<1>8. k..(l - 1) = (k..(a - 1)) \cup {a}
  BY <1>3, <1>5
<1>9. \A q : SplitAt(c, l, k, q) <=> SplitAt(c, a, k, q) \/ q \in Chunk(c + 2^a, a)
  <2> HIDE DEF a
  <2> QED  BY <1>8, Zenon DEF SplitAt
<1>10. Ok(l)
  BY <1>6, <1>7, <1>9, Zenon
<1> QED  BY <1>3, <1>10

(* Counting *)
LEMMA CountApart ==
  ASSUME NEW S, IsFiniteSet(S), NEW T, IsFiniteSet(T), S \cap T = {}
  PROVE  Cardinality(S \cup T) = Cardinality(S) + Cardinality(T)
<1>1. Cardinality(S \cup T) = Cardinality(S) + Cardinality(T) - Cardinality({})
  BY FS_Union
<1>2. Cardinality({}) = 0 /\ Cardinality(S) \in Nat /\ Cardinality(T) \in Nat
  BY FS_EmptySet, FS_CardinalityType
<1> QED  BY <1>1, <1>2

LEMMA CountChunk ==
  ASSUME NEW p \in Nat, NEW k \in 0..(MaxOrder + 1)
  PROVE  IsFiniteSet(Chunk(p, k)) /\ Cardinality(Chunk(p, k)) = 2^k
<1>1. 2^k \in Nat /\ 2^k > 0 /\ p + 2^k - 1 \in Int /\ ~(p > p + 2^k - 1)
  BY Pow
<1>2. IsFiniteSet(p..(p + 2^k - 1)) /\ Cardinality(p..(p + 2^k - 1)) = (p + 2^k - 1) - p + 1
  BY <1>1, FS_Interval
<1> QED  BY <1>1, <1>2 DEF Chunk

(* The lists after a chunk was taken: the other chunks, and the spares. *)
LEMMA TakeLists ==
  ASSUME BuddyInv, NEW i \in Order, NEW k \in 0..i, NEW c \in free[i], NEW n,
         Take(c, i, k, n)
  PROVE  /\ free' \in [Order -> SUBSET Page]
         /\ \A j \in Order : \A x : x \in free'[j] <=>
              \/ x \in free[j] /\ ~(x = c /\ j = i)
              \/ k <= j /\ j < i /\ x = c + 2^j
         /\ \A j \in Order : \A x : x \in free[j] /\ ~(x = c /\ j = i) =>
              x \in Nat /\ \A q \in Chunk(x, j) : q \notin Chunk(c, i)
         /\ \A j \in Order : k <= j /\ j < i =>
              /\ c + 2^j \in Nat /\ Aligned(c + 2^j, j) /\ Aligned(c, j + 1)
              /\ Chunk(c + 2^j, j) \subseteq Chunk(c, i)
              /\ Chunk(c + 2^j, j) \cap Chunk(c, k) = {}
<1>0. /\ c \in Nat /\ c \in Page /\ Aligned(c, i) /\ Chunk(c, i) \subseteq mapped \ bitmap
      /\ i \in 0..(MaxOrder + 1) /\ i \in 0..MaxOrder /\ i \in Nat /\ k \in Nat
  BY FreeChunk, OrderFacts
<1>1. ASSUME NEW j \in Order, k <= j, j < i
      PROVE  /\ c + 2^j \in Nat /\ Aligned(c + 2^j, j) /\ Aligned(c, j + 1)
             /\ Chunk(c + 2^j, j) \subseteq Chunk(c, i)
             /\ Chunk(c + 2^j, j) \cap Chunk(c, k) = {}
             /\ c + 2^j \in Page
  <2>1. /\ j \in 0..MaxOrder /\ j \in 0..(MaxOrder + 1) /\ 2^j \in Nat /\ c + 2^j \in Nat
        /\ j + 1 \in 0..i /\ j \in k..(i - 1) /\ k \in 0..j
    <3>1. j \in Nat /\ j \in 0..MaxOrder /\ j \in 0..(MaxOrder + 1) /\ 2^j \in Nat
      BY OrderFacts, Zenon
    <3>2. j + 1 \in 0..i /\ j \in k..(i - 1) /\ k \in 0..j
      BY <1>0, <1>1, <3>1
    <3> QED  BY <1>0, <3>1, <3>2
  <2>2. Aligned(c, j + 1)
    BY <1>0, <2>1, AlignedDown
  <2>3. Aligned(c + 2^j, j)
    BY <1>0, <2>1, <2>2, EvenAligned
  <2>4. \A q : q \in Chunk(c, i) <=> SplitAt(c, i, k, q)
    BY <1>0, SplitCovers
  <2>5. Chunk(c + 2^j, j) \subseteq Chunk(c, i)
    BY <2>1, <2>4 DEF SplitAt
  <2>6. Chunk(c + 2^j, j) \cap Chunk(c, k) = {}
    BY <1>0, <2>1, SpareNotTaken
  <2>7. c + 2^j \in Page
    <3>1. c + 2^j \in Chunk(c + 2^j, j)
      BY <2>1, ChunkMember
    <3> QED  BY <1>0, <2>5, <3>1 DEF BuddyInv, BuddyType
  <2> QED  BY <2>1, <2>2, <2>3, <2>5, <2>6, <2>7
<1>2. free' = [j \in Order |->
                IF j = i THEN free[j] \ {c}
                ELSE IF k <= j /\ j < i THEN free[j] \cup {c + 2^j}
                ELSE free[j]]
  BY DEF Take
<1>3. free \in [Order -> SUBSET Page]
  BY DEF BuddyInv, BuddyType
<1>4. free' \in [Order -> SUBSET Page]
  <2>1. \A j \in Order : free[j] \subseteq Page
    BY <1>3
  <2>2. \A j \in Order : k <= j /\ j < i => c + 2^j \in Page
    BY <1>1
  <2> QED  BY <1>2, <2>1, <2>2
<1>5. ASSUME NEW j \in Order, NEW x
      PROVE  x \in free'[j] <=> \/ x \in free[j] /\ ~(x = c /\ j = i)
                                \/ k <= j /\ j < i /\ x = c + 2^j
  BY <1>0, <1>2, OrderFacts
<1>6. ASSUME NEW j \in Order, NEW x, x \in free[j], ~(x = c /\ j = i)
      PROVE  x \in Nat /\ \A q \in Chunk(x, j) : q \notin Chunk(c, i)
  <2>1. x \in Nat
    BY <1>6, FreeChunk
  <2> QED  BY <1>6, <2>1 DEF BuddyInv, FreeInv
<1> QED  BY <1>1, <1>4, <1>5, <1>6

(* Every list has the levels of its chunks in place afterwards. *)
LEMMA TakeLevels ==
  ASSUME BuddyInv, NEW i \in Order, NEW k \in 0..i, NEW c \in free[i], NEW n,
         Take(c, i, k, n)
  PROVE  /\ level' \in [Page -> Order \cup {Garbage}]
         /\ \A j \in Order : \A x \in free'[j] : level'[x] = j
<1> DEFINE spares == {j \in Order : k <= j /\ j < i}
<1>0. c \in Nat /\ i \in 0..(MaxOrder + 1) /\ k \in 0..(MaxOrder + 1) /\ i \in Nat /\ k \in Nat
  BY FreeChunk, OrderFacts, Pow
<1>1. level' = [q \in Page |->
                 IF q \in Chunk(c, k) THEN Garbage
                 ELSE IF \E j \in spares : q = c + 2^j
                      THEN CHOOSE j \in spares : q = c + 2^j
                 ELSE level[q]]
  BY DEF Take
<1>2. level \in [Page -> Order \cup {Garbage}]
  BY DEF BuddyInv, BuddyType
<1>3. \A q : (\E j \in spares : q = c + 2^j) =>
              (CHOOSE j \in spares : q = c + 2^j) \in spares
                /\ q = c + 2^(CHOOSE j \in spares : q = c + 2^j)
  BY Zenon
<1>4. level' \in [Page -> Order \cup {Garbage}]
  <2>1. spares \subseteq Order
    OBVIOUS
  <2> HIDE DEF spares
  <2> QED  BY <1>1, <1>2, <1>3, <2>1
<1>5. \A q : q \in Chunk(c, i) <=> SplitAt(c, i, k, q)
  BY <1>0, SplitCovers
<1>6. ASSUME NEW j \in Order, NEW x \in free'[j] PROVE level'[x] = j
  <2>0. x \in Page
    BY TakeLists
  <2>1. CASE x \in free[j] /\ ~(x = c /\ j = i)
    <3>1. x \in Nat /\ level[x] = j /\ x \in Chunk(x, j)
      BY <2>1, FreeChunk, OrderFacts, ChunkMember
    <3>2. x \notin Chunk(c, i)
      BY <2>1, <3>1, TakeLists
    <3>3. x \notin Chunk(c, k)
      BY <1>5, <3>2 DEF SplitAt
    <3>4. ~\E l \in spares : x = c + 2^l
      <4>1. ASSUME NEW l \in spares, x = c + 2^l PROVE FALSE
        <5>1. l \in Order /\ k <= l /\ l < i
          OBVIOUS
        <5>2. Chunk(x, l) \subseteq Chunk(c, i) /\ x \in Nat
          BY <4>1, <5>1, TakeLists
        <5>3. x \in Chunk(x, l)
          BY <5>1, <5>2, OrderFacts, ChunkMember
        <5> QED  BY <3>2, <5>2, <5>3
      <4> QED  BY <4>1
    <3> HIDE DEF spares
    <3> QED  BY <1>1, <2>0, <3>1, <3>3, <3>4
  <2>2. CASE k <= j /\ j < i /\ x = c + 2^j
    <3>1. j \in spares
      BY <2>2
    <3>2. x \in Nat /\ x \in Chunk(c + 2^j, j)
      <4>1. x \in Nat
        BY <2>2, TakeLists
      <4> QED  BY <2>2, <4>1, OrderFacts, ChunkMember
    <3>3. x \notin Chunk(c, k)
      BY <2>2, <3>2, TakeLists
    <3>4. ASSUME NEW l \in spares, x = c + 2^l PROVE l = j
      <4>1. l \in 0..MaxOrder /\ j \in 0..MaxOrder /\ l \in 0..(MaxOrder + 1)
        BY OrderFacts
      <4>2. x \in Chunk(c + 2^l, l)
        BY <3>2, <3>4, <4>1, ChunkMember
      <4> QED  BY <1>0, <3>2, <4>1, <4>2, SparesApart
    <3> HIDE DEF spares
    <3>5. (CHOOSE l \in spares : x = c + 2^l) = j
      BY <1>3, <2>2, <3>1, <3>4
    <3> QED  BY <1>1, <2>0, <2>2, <3>1, <3>3, <3>5
  <2> QED  BY <2>1, <2>2, TakeLists
<1> QED  BY <1>4, <1>6

LEMMA TakeFreeInv ==
  ASSUME BuddyInv, NEW i \in Order, NEW k \in 0..i, NEW c \in free[i], NEW n,
         Take(c, i, k, n)
  PROVE  FreeInv'
<1>0. /\ c \in Nat /\ Aligned(c, i) /\ Chunk(c, i) \subseteq mapped \ bitmap
      /\ i \in 0..(MaxOrder + 1) /\ i \in Nat /\ k \in Nat /\ k \in 0..(MaxOrder + 1)
  BY FreeChunk, OrderFacts, Pow
<1>1. mapped' = mapped /\ bitmap' = bitmap \cup Chunk(c, k) /\ nr_free_pages' = nr_free_pages - 2^k
  BY DEF Take
<1>2. \A j \in Order : \A x : x \in free'[j] <=>
        \/ x \in free[j] /\ ~(x = c /\ j = i)
        \/ k <= j /\ j < i /\ x = c + 2^j
  BY TakeLists
<1>3. ASSUME NEW j \in Order, NEW x, x \in free[j], ~(x = c /\ j = i)
      PROVE  /\ x \in Nat /\ Aligned(x, j) /\ Chunk(x, j) \subseteq mapped \ bitmap
             /\ \A q \in Chunk(x, j) : q \notin Chunk(c, i)
  BY <1>3, TakeLists, FreeChunk
<1>4. ASSUME NEW j \in Order, k <= j, j < i
      PROVE  /\ c + 2^j \in Nat /\ Aligned(c + 2^j, j) /\ Aligned(c, j + 1)
             /\ Chunk(c + 2^j, j) \subseteq Chunk(c, i)
             /\ Chunk(c + 2^j, j) \cap Chunk(c, k) = {}
  BY <1>4, TakeLists
<1>5. \A q : q \in Chunk(c, i) <=> SplitAt(c, i, k, q)
  BY <1>0, SplitCovers
<1>6. Chunk(c, k) \subseteq Chunk(c, i)
  BY <1>5 DEF SplitAt
<1>7. \A j \in Order : \A x \in free'[j] :
        Aligned(x, j) /\ Chunk(x, j) \subseteq mapped' \ bitmap' /\ level'[x] = j
  <2> TAKE j \in Order
  <2> TAKE x \in free'[j]
  <2>1. level'[x] = j
    BY TakeLevels
  <2>2. Aligned(x, j) /\ Chunk(x, j) \subseteq mapped' \ bitmap'
    <3>1. CASE x \in free[j] /\ ~(x = c /\ j = i)
      BY <1>1, <1>3, <1>6, <3>1
    <3>2. CASE k <= j /\ j < i /\ x = c + 2^j
      BY <1>0, <1>1, <1>4, <3>2
    <3> QED  BY <1>2, <3>1, <3>2
  <2> QED  BY <2>1, <2>2
<1>8. \A j, l \in Order : \A x \in free'[j], y \in free'[l] :
        \A q \in Chunk(x, j) : q \in Chunk(y, l) => x = y /\ j = l
  <2> TAKE j, l \in Order
  <2> TAKE x \in free'[j], y \in free'[l]
  <2> SUFFICES ASSUME NEW q \in Chunk(x, j), q \in Chunk(y, l) PROVE x = y /\ j = l
    OBVIOUS
  <2> DEFINE OldX == x \in free[j] /\ ~(x = c /\ j = i)
             OldY == y \in free[l] /\ ~(y = c /\ l = i)
             NewX == k <= j /\ j < i /\ x = c + 2^j
             NewY == k <= l /\ l < i /\ y = c + 2^l
  <2>1. CASE OldX /\ OldY
    BY <2>1 DEF BuddyInv, FreeInv
  <2>2. CASE OldX /\ NewY
    BY <1>3, <1>4, <2>2
  <2>3. CASE NewX /\ OldY
    BY <1>3, <1>4, <2>3
  <2>4. CASE NewX /\ NewY
    <3>1. j \in 0..MaxOrder /\ l \in 0..MaxOrder
      BY OrderFacts
    <3>2. j = l
      BY <1>0, <2>4, <3>1, SparesApart
    <3> QED  BY <2>4, <3>2
  <2> QED  BY <1>2, <2>1, <2>2, <2>3, <2>4
<1>9. \A q \in mapped' \ bitmap' : \E j \in Order : \E x \in free'[j] : q \in Chunk(x, j)
  <2> TAKE q \in mapped' \ bitmap'
  <2>1. q \in mapped \ bitmap /\ q \notin Chunk(c, k)
    BY <1>1
  <2>2. CASE q \in Chunk(c, i)
    <3>1. PICK j \in k..(i - 1) : q \in Chunk(c + 2^j, j)
      BY <1>5, <2>1, <2>2 DEF SplitAt
    <3>2. j \in Order /\ k <= j /\ j < i
      BY <1>0, Pow DEF Order
    <3> QED  BY <1>2, <3>1, <3>2
  <2>3. CASE q \notin Chunk(c, i)
    <3>1. PICK j \in Order : \E x \in free[j] : q \in Chunk(x, j)
      BY <2>1 DEF BuddyInv, FreeInv
    <3>2. PICK x \in free[j] : q \in Chunk(x, j)
      BY <3>1
    <3>3. x \in free'[j]
      BY <1>2, <2>3, <3>2
    <3> QED  BY <3>2, <3>3
  <2> QED  BY <2>2, <2>3
<1>10. \A j \in Order : \A x \in free'[j] :
         j < MaxOrder /\ x + 2^j \in free'[j] => ~Aligned(x, j + 1)
  <2> TAKE j \in Order
  <2> TAKE x \in free'[j]
  <2> SUFFICES ASSUME j < MaxOrder, x + 2^j \in free'[j], Aligned(x, j + 1) PROVE FALSE
    OBVIOUS
  <2>0. j \in 0..MaxOrder /\ 2^j \in Nat /\ 2^j > 0 /\ j \in 0..(MaxOrder + 1)
    BY OrderFacts
  <2>1. CASE x \in free[j] /\ ~(x = c /\ j = i)
    <3>1. CASE x + 2^j \in free[j] /\ ~(x + 2^j = c /\ j = i)
      BY <2>1, <3>1 DEF BuddyInv, FreeInv
    <3>2. CASE k <= j /\ j < i /\ x + 2^j = c + 2^j
      <4>1. x = c
        BY <1>0, <1>3, <2>0, <2>1, <3>2
      <4>2. c \in Chunk(c, j) /\ c \in Chunk(c, i)
        BY <1>0, <2>0, ChunkMember
      <4> QED  BY <1>3, <2>1, <4>1, <4>2
    <3> QED  BY <1>2, <3>1, <3>2
  <2>2. CASE k <= j /\ j < i /\ x = c + 2^j
    BY <1>0, <1>4, <2>0, <2>2, EvenAligned
  <2> QED  BY <1>2, <2>1, <2>2
<1>11. nr_free_pages' = Cardinality(mapped' \ bitmap')
  <2> DEFINE S == mapped' \ bitmap'  T == Chunk(c, k)
  <2>1. S \cup T = mapped \ bitmap /\ S \cap T = {}
    BY <1>0, <1>1, <1>6
  <2>2. IsFiniteSet(T) /\ Cardinality(T) = 2^k /\ 2^k \in Nat
    BY <1>0, CountChunk, Pow
  <2>3. IsFiniteSet(S)
    <3>1. S \subseteq Page
      BY <1>1 DEF BuddyInv, BuddyType
    <3> QED  BY <3>1, PageFacts, FS_Subset
  <2> HIDE DEF S, T
  <2>4. Cardinality(mapped \ bitmap) = Cardinality(S) + 2^k
    BY <2>1, <2>2, <2>3, CountApart
  <2>5. nr_free_pages = Cardinality(mapped \ bitmap) /\ Cardinality(S) \in Nat
    BY <2>3, FS_CardinalityType DEF BuddyInv, FreeInv
  <2> QED  BY <1>1, <2>2, <2>4, <2>5 DEF S
<1> QED  BY <1>7, <1>8, <1>9, <1>10, <1>11 DEF FreeInv

(* bbuddy_palloc preserves the invariant, and the block it returns was free. *)
LEMMA PallocInv ==
  ASSUME BuddyInv, NEW n \in Nat, n <= 2^(MaxOrder + 1), Palloc(n)
  PROVE  /\ BuddyInv'
         /\ \E c \in Page :
              /\ held' = held \cup {<<c, n>>} /\ <<c, n>> \notin held
              /\ n \in 1..2^MaxOrder
              /\ num_pages_to_order(n) \in Order /\ n <= 2^num_pages_to_order(n)
              /\ Chunk(c, num_pages_to_order(n)) \subseteq mapped \ bitmap
              /\ mapped' = mapped
              /\ bitmap' = bitmap \cup Chunk(c, num_pages_to_order(n))
<1>1. n # 0
  BY PallocTakes
<1>2. PICK i \in Order : \E k \in 0..i : \E c \in free[i] :
        k = num_pages_to_order(n) /\ n <= 2^k /\ Take(c, i, k, n)
  BY PallocTakes
<1>3. PICK k \in 0..i : \E c \in free[i] :
        k = num_pages_to_order(n) /\ n <= 2^k /\ Take(c, i, k, n)
  BY <1>2
<1>4. PICK c \in free[i] : k = num_pages_to_order(n) /\ n <= 2^k /\ Take(c, i, k, n)
  BY <1>3
<1>5. /\ c \in Nat /\ c \in Page /\ Aligned(c, i) /\ Chunk(c, i) \subseteq mapped \ bitmap
      /\ i \in 0..(MaxOrder + 1) /\ i \in 0..MaxOrder /\ i \in Nat /\ k \in Nat
      /\ k \in Order /\ k \in 0..(MaxOrder + 1) /\ MaxOrder \in 0..(MaxOrder + 1) /\ k <= MaxOrder
  BY FreeChunk, OrderFacts, Pow DEF Order
<1>6. Chunk(c, k) \subseteq Chunk(c, i)
  BY <1>5, SplitCovers DEF SplitAt
<1>7. /\ bitmap' = bitmap \cup Chunk(c, k) /\ mapped' = mapped
      /\ held' = held \cup {<<c, n>>}
  BY <1>4 DEF Take
<1>8. n \in 1..2^MaxOrder
  <2>1. 2^k <= 2^MaxOrder /\ 2^k \in Nat /\ 2^MaxOrder \in Nat
    BY <1>5, PowMono, Pow
  <2> QED  BY <1>1, <1>4, <2>1
<1>9. Aligned(c, k)
  BY <1>5, AlignedDown
<1>10. BuddyType'
  <2>1. free' \in [Order -> SUBSET Page]
    BY <1>4, TakeLists
  <2>2. level' \in [Page -> Order \cup {Garbage}]
    BY <1>4, TakeLevels
  <2>3. mapped' \subseteq Page /\ bitmap' \subseteq mapped'
    BY <1>5, <1>6, <1>7 DEF BuddyInv, BuddyType
  <2>4. held' \subseteq Page \X (1..2^MaxOrder)
    BY <1>5, <1>7, <1>8 DEF BuddyInv, BuddyType
  <2>5. \A q \in mapped' : \E r \in Region : q \in Pages(r[1], r[2]) /\ q # r[1]
    BY <1>7 DEF BuddyInv, BuddyType
  <2> QED  BY <2>1, <2>2, <2>3, <2>4, <2>5 DEF BuddyType
<1>11. FreeInv'
  BY <1>4, TakeFreeInv
<1>12. ASSUME NEW h \in held PROVE Chunk(h[1], num_pages_to_order(h[2])) \cap Chunk(c, k) = {}
  BY <1>5, <1>6, HeldBlock
<1>13. <<c, n>> \notin held
  <2>1. c \in Chunk(c, k)
    BY <1>5, ChunkMember
  <2> QED  BY <1>4, <1>12, <2>1
<1>14. HeldInv'
  <2>1. \A h \in held' :
          LET o == num_pages_to_order(h[2]) IN
          o \in Order /\ h[2] <= 2^o /\ Aligned(h[1], o) /\ Chunk(h[1], o) \subseteq bitmap'
    <3> TAKE h \in held'
    <3>1. CASE h \in held
      BY <1>7, <3>1, HeldBlock
    <3>2. CASE h = <<c, n>>
      BY <1>4, <1>5, <1>7, <1>9, <3>2
    <3> QED  BY <1>7, <3>1, <3>2
  <2>2. \A g, h \in held' : \A q \in Chunk(g[1], num_pages_to_order(g[2])) :
          q \in Chunk(h[1], num_pages_to_order(h[2])) => g = h
    <3> TAKE g, h \in held'
    <3>1. CASE g \in held /\ h \in held
      BY <3>1 DEF BuddyInv, HeldInv
    <3>2. CASE g = <<c, n>> /\ h \in held
      BY <1>4, <1>12, <3>2
    <3>3. CASE g \in held /\ h = <<c, n>>
      BY <1>4, <1>12, <3>3
    <3>4. CASE g = <<c, n>> /\ h = <<c, n>>
      BY <3>4
    <3> QED  BY <1>7, <3>1, <3>2, <3>3, <3>4
  <2> QED  BY <2>1, <2>2 DEF HeldInv
<1>15. BuddyInv'
  BY <1>10, <1>11, <1>14 DEF BuddyInv
<1>16. Chunk(c, k) \subseteq mapped \ bitmap
  BY <1>5, <1>6
<1> QED  BY <1>4, <1>5, <1>7, <1>8, <1>13, <1>15, <1>16

-----------------------------------------------------------------------------
(* bbuddy_pfree *)
LEMMA MergedOrderFacts ==
  ASSUME NEW p, NEW k \in Order
  PROVE  /\ MergedOrder(p, k) \in k..(MaxOrder + 1)
         /\ \A j \in k..(MergedOrder(p, k) - 1) : Merges(p, j)
         /\ MergedOrder(p, k) <= MaxOrder => ~Merges(p, MergedOrder(p, k))
<1> DEFINE T == {j \in k..(MaxOrder + 1) : j > MaxOrder \/ ~Merges(p, j)}
           m == MergedOrder(p, k)
<1>0. k \in Nat /\ k <= MaxOrder /\ MaxOrder \in Nat
  BY Pow DEF Order
<1>1. MaxOrder + 1 \in T /\ T \in SUBSET Nat
  BY <1>0
<1>2. m \in T /\ \A j \in T : m <= j
  <2>1. m = Min(T)
    BY DEF MergedOrder
  <2> HIDE DEF T, m
  <2> QED  BY <1>1, <2>1, MinFacts
<1>3. m \in k..(MaxOrder + 1) /\ (m > MaxOrder \/ ~Merges(p, m))
  BY <1>2
<1>4. ASSUME NEW j \in k..(m - 1) PROVE Merges(p, j)
  <2>1. j \in k..(MaxOrder + 1) /\ j < m
    BY <1>0, <1>3
  <2>2. j \notin T
    BY <1>0, <1>2, <1>3, <2>1
  <2> QED  BY <2>1, <2>2
<1> HIDE DEF m
<1>5. m <= MaxOrder => ~Merges(p, m)
  BY <1>0, <1>3
<1> QED  BY <1>3, <1>4, <1>5 DEF m

(* What is merged up to the order m: the block and the buddies on the way. *)
MergedAt(p, k, m, q) == q \in Chunk(p, k) \/ \E j \in k..(m - 1) : q \in Chunk(Buddy(p, j), j)

LEMMA MergeCovers ==
  ASSUME NEW p \in Nat, NEW k \in Order, NEW m \in k..(MaxOrder + 1), Aligned(p, k)
  PROVE  \A q : q \in Chunk(Around(p, m), m) <=> MergedAt(p, k, m, q)
<1> DEFINE Ok(l) == \A q : q \in Chunk(Around(p, l), l) <=> MergedAt(p, k, l, q)
           T == {l \in k..(MaxOrder + 1) : ~Ok(l)}
<1>0. k \in Nat /\ k <= MaxOrder /\ MaxOrder \in Nat /\ k \in 0..(MaxOrder + 1)
  BY Pow DEF Order
<1>1. SUFFICES ASSUME T # {} PROVE FALSE
  OBVIOUS
<1>2. PICK l \in T : \A x \in T : l <= x
  <2>1. T \in SUBSET Nat
    BY <1>0
  <2> HIDE DEF T
  <2> QED  BY <1>1, <2>1, LeastNumber
<1>3. l \in k..(MaxOrder + 1) /\ ~Ok(l) /\ l \in Nat
  BY <1>0, <1>2
<1>4. l # k
  <2>1. k..(k - 1) = {}
    BY <1>0
  <2>2. \A q : MergedAt(p, k, k, q) <=> q \in Chunk(p, k)
    BY <2>1 DEF MergedAt
  <2>3. Around(p, k) = p
    BY <1>0, AroundSelf
  <2> QED  BY <1>3, <2>2, <2>3
<1> DEFINE a == l - 1
<1>5. a \in 0..MaxOrder /\ k <= a /\ a + 1 = l /\ a \in k..(MaxOrder + 1) /\ a < l
  BY <1>0, <1>3, <1>4
<1>6. Ok(a)
  <2>1. a \notin T
    BY <1>0, <1>2, <1>5
  <2> QED  BY <1>5, <2>1
<1>7. \A q : q \in Chunk(Around(p, l), l) <=> q \in Chunk(Around(p, a), a) \/ q \in Chunk(Buddy(p, a), a)
  BY <1>5, BuddyFacts
<1>8. k..(l - 1) = (k..(a - 1)) \cup {a}
  BY <1>0, <1>3, <1>5
<1>9. \A q : MergedAt(p, k, l, q) <=> MergedAt(p, k, a, q) \/ q \in Chunk(Buddy(p, a), a)
  <2> HIDE DEF a
  <2> QED  BY <1>8, Zenon DEF MergedAt
<1>10. Ok(l)
  BY <1>6, <1>7, <1>9, Zenon
<1> QED  BY <1>3, <1>10

(* The buddies that are merged are chunks of the lists.  Merging ends below *)
(* FREELIST_SIZE: page 0, which is in no region, is part of the one chunk   *)
(* that is larger.                                                          *)
LEMMA MergeFacts ==
  ASSUME BuddyInv, NEW h \in held
  PROVE  LET p == h[1]
             k == num_pages_to_order(h[2])
             m == MergedOrder(p, k)
         IN  /\ m \in Order /\ k \in Order /\ k <= m /\ p \in Nat
             /\ \A j \in Order : k <= j /\ j < m => Buddy(p, j) \in free[j]
             /\ Around(p, m) \in Nat /\ Aligned(Around(p, m), m)
             /\ \A q : q \in Chunk(Around(p, m), m) <=>
                         \/ q \in Chunk(p, k)
                         \/ \E j \in Order : k <= j /\ j < m /\ q \in Chunk(Buddy(p, j), j)
             /\ Chunk(Around(p, m), m) \subseteq mapped
             /\ ~Merges(p, m)
<1> DEFINE p == h[1]  k == num_pages_to_order(h[2])  m == MergedOrder(p, k)
<1>1. p \in Nat /\ p \in Page /\ k \in Order /\ Aligned(p, k) /\ Chunk(p, k) \subseteq bitmap
  BY HeldBlock
<1>2. /\ m \in k..(MaxOrder + 1)
      /\ \A j \in k..(m - 1) : Merges(p, j)
      /\ m <= MaxOrder => ~Merges(p, m)
  BY <1>1, MergedOrderFacts
<1> HIDE DEF m
<1>3. k \in Nat /\ k <= MaxOrder /\ MaxOrder \in Nat /\ m \in Nat /\ k <= m /\ m \in 0..(MaxOrder + 1)
  BY <1>1, <1>2, Pow DEF Order
<1>4. ASSUME NEW j \in k..(m - 1)
      PROVE  j \in Order /\ Buddy(p, j) \in free[j]
  <2>1. j \in Order /\ k <= j /\ Merges(p, j)
    BY <1>2, <1>3 DEF Order
  <2>2. Buddy(p, j) \in mapped \ bitmap /\ level[Buddy(p, j)] = j
    BY <2>1 DEF Merges, allocated_in_map
  <2> QED  BY <2>1, <2>2, BuddyIsChunk
<1>5. \A q : q \in Chunk(Around(p, m), m) <=> MergedAt(p, k, m, q)
  BY <1>1, <1>2, MergeCovers
<1>6. Around(p, m) \in Nat /\ Aligned(Around(p, m), m)
  BY <1>1, <1>3, AroundFacts
<1>7. Chunk(Around(p, m), m) \subseteq mapped
  <2>1. \A q \in Chunk(p, k) : q \in mapped
    BY <1>1 DEF BuddyInv, BuddyType
  <2>2. \A j \in k..(m - 1) : Chunk(Buddy(p, j), j) \subseteq mapped
    BY <1>4, FreeChunk
  <2> QED  BY <1>5, <2>1, <2>2 DEF MergedAt
<1>8. m <= MaxOrder
  <2>1. SUFFICES ASSUME m = MaxOrder + 1 PROVE FALSE
    BY <1>2, <1>3
  <2>2. 2^m \in Nat /\ 2^m > 0 /\ p < 2^m
    BY <1>1, <1>3, <2>1, PageFacts, Pow
  <2>3. Aligned(0, m)
    <3>1. 0 = 0 * 2^m
      BY <2>2
    <3> QED  BY <1>3, <3>1, AlignedMultiple
  <2>4. p \in Chunk(0, m) /\ 0 \in Chunk(0, m)
    BY <1>1, <2>2 DEF Chunk
  <2>5. Around(p, m) = 0
    BY <1>1, <1>3, <2>3, <2>4, AroundUnique
  <2> QED  BY <1>7, <2>4, <2>5, ZeroUnmapped
<1>9. \A j : j \in k..(m - 1) <=> j \in Order /\ k <= j /\ j < m
  BY <1>3, <1>8 DEF Order
<1>10. \A q : MergedAt(p, k, m, q) <=>
                \/ q \in Chunk(p, k)
                \/ \E j \in Order : k <= j /\ j < m /\ q \in Chunk(Buddy(p, j), j)
  BY <1>9, Zenon DEF MergedAt
<1>11. m \in Order
  BY <1>3, <1>8 DEF Order
<1> QED  BY <1>1, <1>2, <1>3, <1>4, <1>5, <1>6, <1>7, <1>8, <1>9, <1>10, <1>11 DEF m

(* The lists after a block was freed: the chunks that were not merged, and  *)
(* the merged one.                                                          *)
LEMMA PfreeLists ==
  ASSUME BuddyInv, NEW h \in held, Pfree(h[1], h[2])
  PROVE  LET p == h[1]
             k == num_pages_to_order(h[2])
             m == MergedOrder(p, k)
             A == Around(p, m)
         IN  /\ A \in Page
             /\ free' \in [Order -> SUBSET Page]
             /\ \A j \in Order : \A x : x \in free'[j] <=>
                  \/ x \in free[j] /\ ~(k <= j /\ j < m /\ x = Buddy(p, j))
                  \/ j = m /\ x = A
             /\ \A j \in Order : \A x :
                  x \in free[j] /\ ~(k <= j /\ j < m /\ x = Buddy(p, j)) =>
                    \A q \in Chunk(x, j) : q \notin Chunk(A, m)
<1> DEFINE p == h[1]  k == num_pages_to_order(h[2])  m == MergedOrder(p, k)  A == Around(p, m)
<1>1. /\ m \in Order /\ k \in Order /\ k <= m /\ p \in Nat
      /\ \A j \in Order : k <= j /\ j < m => Buddy(p, j) \in free[j]
      /\ A \in Nat /\ Aligned(A, m)
      /\ \A q : q \in Chunk(A, m) <=>
                  \/ q \in Chunk(p, k)
                  \/ \E j \in Order : k <= j /\ j < m /\ q \in Chunk(Buddy(p, j), j)
      /\ Chunk(A, m) \subseteq mapped
  BY MergeFacts
<1>2. free' = [j \in Order |->
                 IF j = m THEN free[j] \cup {A}
                 ELSE IF k <= j /\ j < m THEN free[j] \ {Buddy(p, j)}
                 ELSE free[j]]
  BY DEF Pfree
<1>3. Chunk(p, k) \subseteq bitmap
  BY HeldBlock
<1> HIDE DEF p, k, m, A
<1>4. A \in Page
  <2>1. A \in Chunk(A, m)
    BY <1>1, OrderFacts, ChunkMember
  <2> QED  BY <1>1, <2>1 DEF BuddyInv, BuddyType
<1>5. free \in [Order -> SUBSET Page]
  BY DEF BuddyInv, BuddyType
<1>6. free' \in [Order -> SUBSET Page]
  <2>1. \A j \in Order : free[j] \subseteq Page
    BY <1>5
  <2> QED  BY <1>2, <1>4, <2>1
<1>7. ASSUME NEW j \in Order, NEW x
      PROVE  x \in free'[j] <=> \/ x \in free[j] /\ ~(k <= j /\ j < m /\ x = Buddy(p, j))
                                \/ j = m /\ x = A
  <2>1. ~(m < m)
    BY <1>1, OrderFacts
  <2> QED  BY <1>2, <2>1
<1>8. ASSUME NEW j \in Order, NEW x, x \in free[j], ~(k <= j /\ j < m /\ x = Buddy(p, j)),
             NEW q \in Chunk(x, j), q \in Chunk(A, m)
      PROVE  FALSE
  <2>1. q \notin bitmap
    BY <1>8, FreeChunk
  <2>2. PICK l \in Order : k <= l /\ l < m /\ q \in Chunk(Buddy(p, l), l)
    BY <1>1, <1>3, <1>8, <2>1
  <2>3. Buddy(p, l) \in free[l]
    BY <1>1, <2>2
  <2>4. x = Buddy(p, l) /\ j = l
    BY <1>8, <2>2, <2>3 DEF BuddyInv, FreeInv
  <2> QED  BY <1>8, <2>2, <2>4
<1> QED  BY <1>4, <1>6, <1>7, <1>8 DEF p, k, m, A

LEMMA PfreeFreeInv ==
  ASSUME BuddyInv, NEW h \in held, Pfree(h[1], h[2])
  PROVE  FreeInv'
<1> DEFINE p == h[1]  k == num_pages_to_order(h[2])  m == MergedOrder(p, k)  A == Around(p, m)
           Stays(x, j) == x \in free[j] /\ ~(k <= j /\ j < m /\ x = Buddy(p, j))
<1>1. /\ m \in Order /\ k \in Order /\ k <= m /\ p \in Nat
      /\ \A j \in Order : k <= j /\ j < m => Buddy(p, j) \in free[j]
      /\ A \in Nat /\ Aligned(A, m)
      /\ \A q : q \in Chunk(A, m) <=>
                  \/ q \in Chunk(p, k)
                  \/ \E j \in Order : k <= j /\ j < m /\ q \in Chunk(Buddy(p, j), j)
      /\ Chunk(A, m) \subseteq mapped
      /\ ~Merges(p, m)
  BY MergeFacts
<1>2. /\ A \in Page
      /\ \A j \in Order : \A x : x \in free'[j] <=> Stays(x, j) \/ (j = m /\ x = A)
      /\ \A j \in Order : \A x : Stays(x, j) => \A q \in Chunk(x, j) : q \notin Chunk(A, m)
  BY PfreeLists
<1>3. /\ mapped' = mapped /\ bitmap' = bitmap \ Chunk(p, k) /\ nr_free_pages' = nr_free_pages + 2^k
      /\ level' = [level EXCEPT ![A] = m]
  BY DEF Pfree
<1>4. Chunk(p, k) \subseteq bitmap
  BY HeldBlock
<1>5. level \in [Page -> Order \cup {Garbage}] /\ bitmap \subseteq mapped /\ mapped \subseteq Page
  BY DEF BuddyInv, BuddyType
<1>b. m < MaxOrder => /\ Buddy(p, m) \in Nat
                      /\ \/ A = Around(p, m + 1) /\ Buddy(p, m) = A + 2^m
                         \/ Buddy(p, m) = Around(p, m + 1) /\ A = Buddy(p, m) + 2^m
  BY <1>1, OrderFacts, BuddyFacts
<1> HIDE DEF p, k, m, A
<1>6. ASSUME NEW j \in Order, NEW x, Stays(x, j)
      PROVE  /\ x \in Nat /\ x \in Page /\ Aligned(x, j) /\ Chunk(x, j) \subseteq mapped \ bitmap
             /\ level[x] = j /\ x \notin Chunk(A, m)
  <2>1. x \in Nat /\ x \in Page /\ Aligned(x, j) /\ Chunk(x, j) \subseteq mapped \ bitmap /\ level[x] = j
    BY <1>6, FreeChunk
  <2>2. x \in Chunk(x, j)
    BY <2>1, OrderFacts, ChunkMember
  <2> QED  BY <1>2, <1>6, <2>1, <2>2
<1>7. A \in Chunk(A, m)
  BY <1>1, OrderFacts, ChunkMember
<1>8. Chunk(A, m) \subseteq mapped' \ bitmap'
  <2>1. \A j \in Order : k <= j /\ j < m => Chunk(Buddy(p, j), j) \subseteq mapped \ bitmap
    BY <1>1, FreeChunk
  <2> QED  BY <1>1, <1>3, <2>1
<1>9. \A j \in Order : \A x \in free'[j] :
        Aligned(x, j) /\ Chunk(x, j) \subseteq mapped' \ bitmap' /\ level'[x] = j
  <2> TAKE j \in Order
  <2> TAKE x \in free'[j]
  <2>1. CASE Stays(x, j)
    <3>1. x # A
      BY <1>6, <1>7, <2>1
    <3> QED  BY <1>3, <1>5, <1>6, <2>1, <3>1
  <2>2. CASE j = m /\ x = A
    BY <1>1, <1>2, <1>3, <1>5, <1>8, <2>2
  <2> QED  BY <1>2, <2>1, <2>2
<1>10. \A j, l \in Order : \A x \in free'[j], y \in free'[l] :
        \A q \in Chunk(x, j) : q \in Chunk(y, l) => x = y /\ j = l
  <2> TAKE j, l \in Order
  <2> TAKE x \in free'[j], y \in free'[l]
  <2> SUFFICES ASSUME NEW q \in Chunk(x, j), q \in Chunk(y, l) PROVE x = y /\ j = l
    OBVIOUS
  <2>1. CASE Stays(x, j) /\ Stays(y, l)
    BY <2>1 DEF BuddyInv, FreeInv
  <2>2. CASE Stays(x, j) /\ l = m /\ y = A
    BY <1>2, <2>2
  <2>3. CASE j = m /\ x = A /\ Stays(y, l)
    BY <1>2, <2>3
  <2>4. CASE j = m /\ x = A /\ l = m /\ y = A
    BY <2>4
  <2> QED  BY <1>2, <2>1, <2>2, <2>3, <2>4
<1>11. \A q \in mapped' \ bitmap' : \E j \in Order : \E x \in free'[j] : q \in Chunk(x, j)
  <2> TAKE q \in mapped' \ bitmap'
  <2>1. CASE q \in Chunk(A, m)
    BY <1>1, <1>2, <2>1
  <2>2. CASE q \notin Chunk(A, m)
    <3>1. q \in mapped \ bitmap
      BY <1>1, <1>3, <2>2
    <3>2. PICK j \in Order : \E x \in free[j] : q \in Chunk(x, j)
      BY <3>1 DEF BuddyInv, FreeInv
    <3>3. PICK x \in free[j] : q \in Chunk(x, j)
      BY <3>2
    <3>4. Stays(x, j)
      BY <1>1, <2>2, <3>3
    <3> QED  BY <1>2, <3>3, <3>4
  <2> QED  BY <2>1, <2>2
<1>12. \A j \in Order : \A x \in free'[j] :
         j < MaxOrder /\ x + 2^j \in free'[j] => ~Aligned(x, j + 1)
  <2> TAKE j \in Order
  <2> TAKE x \in free'[j]
  <2> SUFFICES ASSUME j < MaxOrder, x + 2^j \in free'[j], Aligned(x, j + 1) PROVE FALSE
    OBVIOUS
  <2>0. j \in 0..MaxOrder /\ 2^j \in Nat /\ 2^j > 0 /\ j \in 0..(MaxOrder + 1)
    BY OrderFacts
  <2>x. x \in Nat
    BY <1>1, <1>2, <1>6
  <2>1. CASE Stays(x, j) /\ Stays(x + 2^j, j)
    BY <2>1 DEF BuddyInv, FreeInv
  <2>2. CASE j = m /\ x = A /\ Stays(x + 2^j, j)
    <3>1. A = Around(p, m + 1) /\ Buddy(p, m) = A + 2^m
      <4>1. Aligned(A, m + 1) => ~(Buddy(p, m) = Around(p, m + 1) /\ A = Buddy(p, m) + 2^m)
        <5>1. SUFFICES ASSUME A = Buddy(p, m) + 2^m, Buddy(p, m) = Around(p, m + 1),
                              Buddy(p, m) \in Nat
                       PROVE  ~Aligned(A, m + 1)
          BY <1>b, <2>2
        <5>2. Aligned(Buddy(p, m), m + 1)
          <6>1. m + 1 \in 0..(MaxOrder + 1)
            BY <2>0, <2>2, Pow
          <6> QED  BY <1>1, <5>1, <6>1, AroundFacts
        <5> QED  BY <2>0, <2>2, <5>1, <5>2, EvenAligned
      <4> QED  BY <1>b, <2>2, <4>1
    <3>2. Buddy(p, m) \in mapped \ bitmap /\ level[Buddy(p, m)] = m
      <4>1. A + 2^m \in Nat
        BY <1>1, <2>0, <2>2
      <4>2. A + 2^m \in Chunk(A + 2^m, m)
        BY <2>0, <2>2, <4>1, ChunkMember
      <4> QED  BY <1>6, <2>2, <3>1, <4>2
    <3> QED  BY <1>1, <3>2 DEF Merges, allocated_in_map
  <2>3. CASE Stays(x, j) /\ j = m /\ x + 2^j = A
    <3>1. A = Buddy(p, m) + 2^m
      <4>1. Aligned(Around(p, m + 1), m + 1)
        <5>1. m + 1 \in 0..(MaxOrder + 1)
          BY <2>0, <2>3, Pow
        <5> QED  BY <1>1, <5>1, AroundFacts
      <4>2. ~Aligned(A, m + 1)
        BY <2>0, <2>3, <2>x, EvenAligned
      <4> QED  BY <1>b, <2>3, <4>1, <4>2
    <3>2. Buddy(p, m) = x
      BY <1>b, <2>0, <2>3, <2>x, <3>1
    <3>3. Buddy(p, m) \in mapped \ bitmap /\ level[Buddy(p, m)] = m
      <4>1. x \in Chunk(x, j)
        BY <2>0, <2>x, ChunkMember
      <4> QED  BY <1>6, <2>3, <3>2, <4>1
    <3> QED  BY <1>1, <3>3 DEF Merges, allocated_in_map
  <2>4. CASE x = A /\ x + 2^j = A
    BY <1>1, <2>0, <2>4
  <2> QED  BY <1>2, <2>1, <2>2, <2>3, <2>4
<1>13. nr_free_pages' = Cardinality(mapped' \ bitmap')
  <2> DEFINE S == mapped \ bitmap  T == Chunk(p, k)
  <2>1. mapped' \ bitmap' = S \cup T /\ S \cap T = {}
    BY <1>3, <1>4, <1>5
  <2>2. IsFiniteSet(T) /\ Cardinality(T) = 2^k
    BY <1>1, OrderFacts, CountChunk
  <2>3. IsFiniteSet(S)
    <3>1. S \subseteq Page
      BY <1>5
    <3> QED  BY <3>1, PageFacts, FS_Subset
  <2>5. nr_free_pages = Cardinality(S)
    BY DEF BuddyInv, FreeInv
  <2> HIDE DEF S, T
  <2>4. Cardinality(S \cup T) = Cardinality(S) + 2^k
    BY <2>1, <2>2, <2>3, CountApart
  <2> QED  BY <1>3, <2>1, <2>4, <2>5
<1> QED  BY <1>9, <1>10, <1>11, <1>12, <1>13 DEF FreeInv

(* bbuddy_pfree preserves the invariant. *)
LEMMA PfreeInv ==
  ASSUME BuddyInv, NEW h \in held, Pfree(h[1], h[2])
  PROVE  /\ BuddyInv'
         /\ held' = held \ {h}
         /\ mapped' = mapped
         /\ bitmap' = bitmap \ Chunk(h[1], num_pages_to_order(h[2]))
<1> DEFINE p == h[1]  k == num_pages_to_order(h[2])  m == MergedOrder(p, k)  A == Around(p, m)
<1>1. /\ held' = held \ {h} /\ mapped' = mapped /\ bitmap' = bitmap \ Chunk(p, k)
      /\ level' = [level EXCEPT ![A] = m]
  <2>1. h = <<p, h[2]>>
    BY HeldBlock
  <2> QED  BY <2>1 DEF Pfree
<1>2. m \in Order
  BY MergeFacts
<1>3. free' \in [Order -> SUBSET Page]
  BY PfreeLists
<1> HIDE DEF p, k, m, A
<1>4. BuddyType'
  <2>1. level' \in [Page -> Order \cup {Garbage}]
    BY <1>1, <1>2 DEF BuddyInv, BuddyType
  <2>2. /\ mapped' \subseteq Page /\ bitmap' \subseteq mapped'
        /\ held' \subseteq Page \X (1..2^MaxOrder)
        /\ \A q \in mapped' : \E r \in Region : q \in Pages(r[1], r[2]) /\ q # r[1]
    BY <1>1 DEF BuddyInv, BuddyType
  <2> QED  BY <1>3, <2>1, <2>2 DEF BuddyType
<1>5. FreeInv'
  BY PfreeFreeInv
<1>6. HeldInv'
  <2>1. ASSUME NEW g \in held'
        PROVE  LET o == num_pages_to_order(g[2]) IN
               o \in Order /\ g[2] <= 2^o /\ Aligned(g[1], o) /\ Chunk(g[1], o) \subseteq bitmap'
    <3>1. g \in held /\ g # h
      BY <1>1
    <3>2. Chunk(g[1], num_pages_to_order(g[2])) \cap Chunk(p, k) = {}
      BY <3>1 DEF BuddyInv, HeldInv, p, k
    <3> QED  BY <1>1, <3>1, <3>2, HeldBlock
  <2>2. \A f, g \in held' : \A q \in Chunk(f[1], num_pages_to_order(f[2])) :
          q \in Chunk(g[1], num_pages_to_order(g[2])) => f = g
    BY <1>1 DEF BuddyInv, HeldInv
  <2> QED  BY <2>1, <2>2 DEF HeldInv
<1> QED  BY <1>1, <1>4, <1>5, <1>6 DEF BuddyInv, p, k

-----------------------------------------------------------------------------
(* bbuddy_addmem *)
LEMMA FirstOrderFacts ==
  ASSUME NEW c \in Nat, NEW e \in Nat, c < e
  PROVE  /\ FirstOrder(c, e) \in Order /\ Aligned(c, FirstOrder(c, e))
         /\ c + 2^FirstOrder(c, e) <= e
         /\ \A k \in Order : Aligned(c, k) /\ c + 2^k <= e => k <= FirstOrder(c, e)
<1> DEFINE T == {k \in Order : Aligned(c, k) /\ c + 2^k <= e}  m == Max(T)
<1>1. 0 \in T
  BY AlignedZero, Pow DEF Order
<1>2. T \in SUBSET Nat /\ (\A k \in T : k <= MaxOrder) /\ MaxOrder \in Nat
  BY Pow DEF Order
<1>3. m \in T /\ \A k \in T : k <= m
  <2> HIDE DEF T
  <2> QED  BY <1>1, <1>2, MaxFacts
<1>4. FirstOrder(c, e) = m
  BY DEF FirstOrder
<1> HIDE DEF m
<1> QED  BY <1>3, <1>4

(* The pieces of the range lie one behind the other. *)
LEMMA PiecesApart ==
  ASSUME NEW p \in Nat, NEW e \in Nat, NEW starts \in SUBSET (p..(e - 1)),
         CutAt(starts, p, e),
         NEW c \in starts, NEW d \in starts, c < d
  PROVE  c + 2^FirstOrder(c, e) <= d
<1> DEFINE End(x) == x + 2^FirstOrder(x, e)
           T == {y \in starts : \E x \in starts : x < y /\ y < End(x)}
<1>1. \A x \in starts : x \in Nat /\ p <= x /\ x < e /\ End(x) \in Nat /\ x < End(x)
  <2> TAKE x \in starts
  <2>1. x \in Nat /\ p <= x /\ x < e
    OBVIOUS
  <2>2. FirstOrder(x, e) \in Order
    BY <2>1, FirstOrderFacts
  <2>3. 2^FirstOrder(x, e) \in Nat /\ 2^FirstOrder(x, e) > 0
    BY <2>2, OrderFacts
  <2> QED  BY <2>1, <2>3
<1>2. \A x \in starts \ {p} : \E y \in starts : x = End(y)
  BY DEF CutAt
<1> HIDE DEF End
<1>3. SUFFICES ASSUME T # {} PROVE FALSE
  BY <1>1 DEF End
<1>4. PICK y \in T : \A z \in T : y <= z
  <2>1. T \in SUBSET Nat
    BY <1>1
  <2> HIDE DEF T
  <2> QED  BY <1>3, <2>1, LeastNumber
<1>5. PICK x \in starts : x < y /\ y < End(x)
  BY <1>4
<1>6. PICK z \in starts : y = End(z)
  <2>1. y \in starts /\ y # p
    BY <1>1, <1>4, <1>5
  <2> QED  BY <1>2, <2>1
<1>7. z < y /\ z \notin T
  BY <1>1, <1>4, <1>6
<1>8. CASE z > x
  BY <1>1, <1>4, <1>5, <1>6, <1>7, <1>8
<1>9. CASE z = x
  BY <1>1, <1>5, <1>6, <1>9
<1>10. CASE z < x
  <2>1. x \in T
    BY <1>1, <1>5, <1>6, <1>10
  <2> QED  BY <1>1, <1>4, <1>5, <2>1
<1> QED  BY <1>1, <1>8, <1>9, <1>10

(* Together they are the range. *)
LEMMA PiecesCover ==
  ASSUME NEW p \in Nat, NEW e \in Nat, NEW starts \in SUBSET (p..(e - 1)),
         CutAt(starts, p, e), NEW q \in p..(e - 1)
  PROVE  \E c \in starts : q \in Chunk(c, FirstOrder(c, e))
<1> DEFINE T == {c \in starts : c <= q}
<1>0. p \in starts
  BY DEF CutAt
<1>1. p \in T /\ T \in SUBSET Nat /\ q \in Nat /\ (\A c \in T : c <= q)
  <2>1. \A c \in p..(e - 1) : c \in Nat /\ p <= c
    OBVIOUS
  <2>2. \A c \in starts : c \in Nat
    BY <2>1
  <2>3. q \in Nat /\ p <= q
    BY <2>1
  <2> QED  BY <1>0, <2>2, <2>3
<1>2. PICK c \in T : \A d \in T : d <= c
  <2> HIDE DEF T
  <2> QED  BY <1>1, GreatestNumber
<1> DEFINE k == FirstOrder(c, e)
<1>3. c \in starts /\ c \in Nat /\ c <= q /\ c < e
  BY <1>2
<1>4. k \in Order /\ 2^k \in Nat /\ 2^k > 0 /\ k \in 0..(MaxOrder + 1)
  BY <1>3, FirstOrderFacts, OrderFacts
<1>5. c + 2^k \in starts \cup {e}
  BY <1>3 DEF CutAt
<1> HIDE DEF k
<1>6. q < c + 2^k
  <2>1. SUFFICES ASSUME c + 2^k <= q PROVE FALSE
    BY <1>1, <1>3, <1>4
  <2>2. c + 2^k # e
    BY <2>1
  <2>3. c + 2^k \in T
    BY <1>5, <2>1, <2>2
  <2> QED  BY <1>2, <1>3, <1>4, <2>3
<1> QED  BY <1>1, <1>3, <1>4, <1>6, ChunkMember DEF k

(* The lists after a region was added: what they had, and the pieces. *)
LEMMA AddMemFreeInv ==
  ASSUME BuddyInv, NEW r \in Region, AddMem(r[1], r[2])
  PROVE  FreeInv' /\ free' \in [Order -> SUBSET Page] /\ level' \in [Page -> Order \cup {Garbage}]
<1> DEFINE p == r[1] + 1  e == r[1] + r[2]
<1>0. /\ r[1] \in Nat /\ r[1] > 0 /\ r[2] \in Nat /\ r[2] >= 2
      /\ Pages(r[1], r[2]) \subseteq Page /\ Pages(r[1], r[2]) \cap mapped = {}
  BY RegionAssumption DEF AddMem
<1>1. p \in Nat /\ e \in Nat /\ p < e /\ e - 1 \in Nat
  BY <1>0
<1>2. PICK starts \in SUBSET (p..(e - 1)) :
        /\ CutAt(starts, p, e)
        /\ free' = [k \in Order |-> free[k] \cup {c \in starts : FirstOrder(c, e) = k}]
        /\ level' = [q \in Page |-> IF q \in starts THEN FirstOrder(q, e) ELSE level[q]]
  BY DEF AddMem
<1>3. /\ mapped' = mapped \cup p..(e - 1) /\ nr_free_pages' = nr_free_pages + (e - p)
      /\ bitmap' = bitmap
  BY DEF AddMem
<1>4. /\ \A q \in p..(e - 1) : q \in Page /\ q \notin mapped
      /\ p - 1 \notin mapped
      /\ e - 1 \in Pages(r[1], r[2]) /\ e \notin Pages(r[1], r[2])
  <2>1. \A q \in p..(e - 1) : q \in Pages(r[1], r[2])
    BY <1>0 DEF Pages
  <2>2. p - 1 \in Pages(r[1], r[2]) /\ e - 1 \in Pages(r[1], r[2]) /\ e \notin Pages(r[1], r[2])
    BY <1>0 DEF Pages
  <2> QED  BY <1>0, <2>1, <2>2
<1>5. e \notin mapped
  <2>1. SUFFICES ASSUME e \in mapped PROVE FALSE
    OBVIOUS
  <2>2. PICK s \in Region : e \in Pages(s[1], s[2]) /\ e # s[1]
    BY <2>1 DEF BuddyInv, BuddyType
  <2>3. s[1] \in Nat /\ s[2] \in Nat
    BY RegionAssumption
  <2>4. e - 1 \in Pages(s[1], s[2])
    BY <1>1, <2>2, <2>3 DEF Pages
  <2>5. s # r
    BY <1>4, <2>2
  <2> QED  BY <1>4, <2>4, <2>5, RegionAssumption
<1>6. /\ free \in [Order -> SUBSET Page] /\ level \in [Page -> Order \cup {Garbage}]
      /\ mapped \subseteq Page /\ bitmap \subseteq mapped
  BY DEF BuddyInv, BuddyType
<1> HIDE DEF p, e
<1> DEFINE Piece(x, j) == x \in starts /\ FirstOrder(x, e) = j
<1>7. ASSUME NEW x \in starts
      PROVE  /\ x \in Nat /\ p <= x /\ x < e /\ x \in p..(e - 1) /\ FirstOrder(x, e) \in Order
             /\ Aligned(x, FirstOrder(x, e)) /\ x + 2^FirstOrder(x, e) <= e
             /\ Chunk(x, FirstOrder(x, e)) \subseteq p..(e - 1)
             /\ \A k \in Order : Aligned(x, k) /\ x + 2^k <= e => k <= FirstOrder(x, e)
  <2>1. x \in Nat /\ p <= x /\ x < e /\ x \in p..(e - 1)
    BY <1>1
  <2>2. /\ FirstOrder(x, e) \in Order
        /\ Aligned(x, FirstOrder(x, e)) /\ x + 2^FirstOrder(x, e) <= e
        /\ \A k \in Order : Aligned(x, k) /\ x + 2^k <= e => k <= FirstOrder(x, e)
    BY <1>1, <2>1, FirstOrderFacts
  <2>3. 2^FirstOrder(x, e) \in Nat
    BY <2>2, OrderFacts
  <2>4. Chunk(x, FirstOrder(x, e)) \subseteq p..(e - 1)
    BY <1>1, <2>1, <2>2, <2>3 DEF Chunk
  <2> QED  BY <2>1, <2>2, <2>4
<1>8. \A j \in Order : \A x : x \in free'[j] <=> x \in free[j] \/ Piece(x, j)
  BY <1>2
<1>9. ASSUME NEW j \in Order, NEW x \in free[j]
      PROVE  /\ x \in Nat /\ Aligned(x, j) /\ Chunk(x, j) \subseteq mapped \ bitmap
             /\ level[x] = j /\ x \in mapped /\ x \in Page
  <2>1. x \in Nat /\ Aligned(x, j) /\ Chunk(x, j) \subseteq mapped \ bitmap /\ level[x] = j /\ x \in Page
    BY FreeChunk
  <2>2. x \in Chunk(x, j)
    BY <2>1, OrderFacts, ChunkMember
  <2> QED  BY <2>1, <2>2
<1>10. free' \in [Order -> SUBSET Page]
  <2>1. \A j \in Order : free[j] \subseteq Page /\ {c \in starts : FirstOrder(c, e) = j} \subseteq Page
    BY <1>4, <1>6, <1>7
  <2> QED  BY <1>2, <2>1
<1>11. level' \in [Page -> Order \cup {Garbage}]
  BY <1>2, <1>6, <1>7
<1>12. \A j \in Order : \A x \in free'[j] :
         Aligned(x, j) /\ Chunk(x, j) \subseteq mapped' \ bitmap' /\ level'[x] = j
  <2> TAKE j \in Order
  <2> TAKE x \in free'[j]
  <2>1. CASE x \in free[j]
    <3>1. x \notin starts
      BY <1>4, <1>7, <1>9, <2>1
    <3> QED  BY <1>2, <1>3, <1>9, <2>1, <3>1
  <2>2. CASE Piece(x, j)
    <3>1. x \in Page
      BY <1>4, <1>7, <2>2
    <3> QED  BY <1>2, <1>3, <1>4, <1>6, <1>7, <2>2, <3>1
  <2> QED  BY <1>8, <2>1, <2>2
<1>13. \A j, l \in Order : \A x \in free'[j], y \in free'[l] :
         \A q \in Chunk(x, j) : q \in Chunk(y, l) => x = y /\ j = l
  <2> TAKE j, l \in Order
  <2> TAKE x \in free'[j], y \in free'[l]
  <2> SUFFICES ASSUME NEW q \in Chunk(x, j), q \in Chunk(y, l) PROVE x = y /\ j = l
    OBVIOUS
  <2>1. CASE x \in free[j] /\ y \in free[l]
    BY <2>1 DEF BuddyInv, FreeInv
  <2>2. CASE x \in free[j] /\ Piece(y, l)
    BY <1>4, <1>7, <1>9, <2>2
  <2>3. CASE Piece(x, j) /\ y \in free[l]
    BY <1>4, <1>7, <1>9, <2>3
  <2>4. CASE Piece(x, j) /\ Piece(y, l)
    <3>1. /\ x \in Nat /\ y \in Nat /\ q \in Nat /\ x <= q /\ q < x + 2^j /\ y <= q /\ q < y + 2^l
          /\ 2^j \in Nat /\ 2^l \in Nat
      <4>1. x \in Nat /\ y \in Nat
        BY <1>7, <2>4
      <4> QED  BY <4>1, OrderFacts, ChunkMember
    <3>2. ~(x < y)
      <4>1. x < y => x + 2^j <= y
        BY <1>1, <1>2, <2>4, PiecesApart
      <4> QED  BY <3>1, <4>1
    <3>3. ~(y < x)
      <4>1. y < x => y + 2^l <= x
        BY <1>1, <1>2, <2>4, PiecesApart
      <4> QED  BY <3>1, <4>1
    <3>4. x = y
      BY <3>1, <3>2, <3>3
    <3> QED  BY <2>4, <3>4
  <2> QED  BY <1>8, <2>1, <2>2, <2>3, <2>4
<1>14. \A q \in mapped' \ bitmap' : \E j \in Order : \E x \in free'[j] : q \in Chunk(x, j)
  <2> TAKE q \in mapped' \ bitmap'
  <2>1. CASE q \in mapped
    <3>1. PICK j \in Order : \E x \in free[j] : q \in Chunk(x, j)
      BY <1>3, <2>1 DEF BuddyInv, FreeInv
    <3> QED  BY <1>8, <3>1
  <2>2. CASE q \in p..(e - 1)
    <3>1. PICK x \in starts : q \in Chunk(x, FirstOrder(x, e))
      BY <1>1, <1>2, <2>2, PiecesCover
    <3>2. FirstOrder(x, e) \in Order
      BY <1>7
    <3>3. x \in free'[FirstOrder(x, e)]
      BY <1>8, <3>2
    <3> QED  BY <3>1, <3>2, <3>3
  <2> QED  BY <1>3, <2>1, <2>2
<1>15. \A j \in Order : \A x \in free'[j] :
         j < MaxOrder /\ x + 2^j \in free'[j] => ~Aligned(x, j + 1)
  <2> TAKE j \in Order
  <2> TAKE x \in free'[j]
  <2> DEFINE y == x + 2^j
  <2> SUFFICES ASSUME j < MaxOrder, y \in free'[j], Aligned(x, j + 1) PROVE FALSE
    OBVIOUS
  <2>0. /\ j \in 0..MaxOrder /\ j \in Nat /\ 2^j \in Nat /\ 2^j > 0 /\ j \in 0..(MaxOrder + 1)
        /\ j + 1 \in Order /\ 2^(j + 1) = 2 * 2^j
    BY OrderFacts, Pow DEF Order
  <2>x. x \in Nat /\ y \in Nat
    BY <1>7, <1>8, <1>9, <2>0
  <2>1. CASE x \in free[j] /\ y \in free[j]
    BY <2>1 DEF BuddyInv, FreeInv
  <2>2. CASE x \in free[j] /\ Piece(y, j)
    <3>0. y - 1 \in Nat /\ x <= y - 1 /\ y - 1 < x + 2^j
      BY <2>0, <2>x
    <3>1. y - 1 \in Chunk(x, j)
      <4>1. \A q : q \in Chunk(x, j) <=> q \in Nat /\ x <= q /\ q < x + 2^j
        BY <2>0, <2>x, ChunkMember
      <4> HIDE DEF y
      <4> QED  BY <3>0, <4>1
    <3>2. y - 1 \in mapped
      BY <1>9, <2>2, <3>1
    <3>3. p <= y /\ y < e
      BY <1>7, <2>2
    <3>4. y - 1 = p - 1 \/ y - 1 \in p..(e - 1)
      BY <1>1, <2>x, <3>3
    <3> QED  BY <1>4, <3>2, <3>4
  <2>3. CASE Piece(x, j) /\ y \in free[j]
    <3>1. y \in mapped
      BY <1>9, <2>3
    <3>2. p <= x /\ y <= e
      BY <1>7, <2>3
    <3>3. y = e \/ y \in p..(e - 1)
      BY <1>1, <2>0, <2>x, <3>2
    <3> QED  BY <1>4, <1>5, <3>1, <3>3
  <2>4. CASE Piece(x, j) /\ Piece(y, j)
    <3>1. y + 2^j <= e
      BY <1>7, <2>4
    <3>2. x + 2^(j + 1) <= e
      BY <1>1, <2>0, <2>x, <3>1
    <3>3. j + 1 <= j
      BY <1>7, <2>0, <2>4, <3>2
    <3> QED  BY <2>0, <3>3
  <2> QED  BY <1>8, <2>1, <2>2, <2>3, <2>4
<1>16. nr_free_pages' = Cardinality(mapped' \ bitmap')
  <2> DEFINE S == mapped \ bitmap  T == p..(e - 1)
  <2>1. mapped' \ bitmap' = S \cup T /\ S \cap T = {}
    BY <1>3, <1>4, <1>6
  <2>2. IsFiniteSet(T) /\ Cardinality(T) = e - p
    <3>1. p \in Int /\ e - 1 \in Int /\ ~(p > e - 1) /\ (e - 1) - p + 1 = e - p
      BY <1>1
    <3>2. IsFiniteSet(p..(e - 1)) /\ Cardinality(p..(e - 1)) = (e - 1) - p + 1
      BY <3>1, FS_Interval
    <3> QED  BY <3>1, <3>2
  <2>3. IsFiniteSet(S)
    <3>1. S \subseteq Page
      BY <1>6
    <3> QED  BY <3>1, PageFacts, FS_Subset
  <2>5. nr_free_pages = Cardinality(S)
    BY DEF BuddyInv, FreeInv
  <2> HIDE DEF S, T
  <2>4. Cardinality(S \cup T) = Cardinality(S) + (e - p)
    BY <2>1, <2>2, <2>3, CountApart
  <2> QED  BY <1>3, <2>1, <2>4, <2>5
<1> QED  BY <1>10, <1>11, <1>12, <1>13, <1>14, <1>15, <1>16 DEF FreeInv

(* bbuddy_addmem preserves the invariant. *)
LEMMA AddMemInv ==
  ASSUME BuddyInv, NEW r \in Region, AddMem(r[1], r[2])
  PROVE  BuddyInv' /\ held' = held /\ bitmap' = bitmap /\ mapped \subseteq mapped'
<1> DEFINE p == r[1] + 1  e == r[1] + r[2]
<1>1. /\ mapped' = mapped \cup p..(e - 1) /\ bitmap' = bitmap /\ held' = held
  BY DEF AddMem
<1>2. r[1] \in Nat /\ r[2] \in Nat /\ Pages(r[1], r[2]) \subseteq Page
  BY RegionAssumption
<1>3. \A q \in p..(e - 1) : q \in Pages(r[1], r[2]) /\ q # r[1]
  BY <1>2 DEF Pages
<1> HIDE DEF p, e
<1>4. BuddyType'
  <2>1. free' \in [Order -> SUBSET Page] /\ level' \in [Page -> Order \cup {Garbage}]
    BY AddMemFreeInv
  <2>2. mapped' \subseteq Page /\ bitmap' \subseteq mapped' /\ held' \subseteq Page \X (1..2^MaxOrder)
    BY <1>1, <1>2, <1>3 DEF BuddyInv, BuddyType
  <2>3. \A q \in mapped' : \E s \in Region : q \in Pages(s[1], s[2]) /\ q # s[1]
    BY <1>1, <1>3 DEF BuddyInv, BuddyType
  <2> QED  BY <2>1, <2>2, <2>3 DEF BuddyType
<1>5. FreeInv'
  BY AddMemFreeInv
<1>6. HeldInv'
  BY <1>1 DEF BuddyInv, HeldInv
<1> QED  BY <1>1, <1>4, <1>5, <1>6 DEF BuddyInv

LEMMA BuddyInit == Init => BuddyInv
<1> SUFFICES ASSUME Init PROVE BuddyInv
  OBVIOUS
<1>1. /\ free = [k \in Order |-> {}] /\ level = [p \in Page |-> Garbage]
      /\ mapped = {} /\ bitmap = {} /\ nr_free_pages = 0 /\ held = {}
  BY DEF Init
<1>2. BuddyType
  BY <1>1 DEF BuddyType
<1>3. Cardinality(mapped \ bitmap) = 0
  <2>1. mapped \ bitmap = {}
    BY <1>1
  <2> QED  BY <2>1, FS_EmptySet
<1>4. FreeInv
  <2>1. \A k \in Order : free[k] = {}
    BY <1>1
  <2> QED  BY <1>1, <1>3, <2>1 DEF FreeInv
<1>5. HeldInv
  BY <1>1 DEF HeldInv
<1> QED  BY <1>2, <1>4, <1>5 DEF BuddyInv

-----------------------------------------------------------------------------
(* Each operation is a step of the page heap. *)
LEMMA AddMemIsHeapStep ==
  ASSUME BuddyInv, NEW r \in Region, AddMem(r[1], r[2])
  PROVE  H!AddMem
<1>1. BuddyInv' /\ held' = held /\ bitmap' = bitmap /\ mapped \subseteq mapped'
  BY AddMemInv
<1>2. \A h \in held : Pages(h[1], h[2]) \cap (mapped' \ bitmap') = {}
  BY <1>1, HeldBlock
<1> QED  BY <1>1, <1>2 DEF H!AddMem, H!Gain, H!Pages, Pages

LEMMA PallocIsHeapStep ==
  ASSUME BuddyInv, NEW n \in Nat, n <= 2^(MaxOrder + 1), Palloc(n)
  PROVE  \E p \in Page, i \in 1..2^MaxOrder : H!Alloc(p, i)
<1> DEFINE k == num_pages_to_order(n)
<1>1. PICK c \in Page :
        /\ held' = held \cup {<<c, n>>} /\ n \in 1..2^MaxOrder
        /\ k \in Order /\ n <= 2^k
        /\ Chunk(c, k) \subseteq mapped \ bitmap
        /\ mapped' = mapped
        /\ bitmap' = bitmap \cup Chunk(c, k)
  BY PallocInv
<1> HIDE DEF k
<1>2. Pages(c, n) \subseteq Chunk(c, k)
  <2>1. c \in Nat /\ 2^k \in Nat
    BY <1>1, PageFacts, OrderFacts
  <2> QED  BY <1>1, <2>1 DEF Pages, Chunk
<1>3. H!Alloc(c, n)
  BY <1>1, <1>2 DEF H!Alloc, H!Pages, Pages
<1> QED  BY <1>1, <1>3

LEMMA PfreeIsHeapStep ==
  ASSUME BuddyInv, NEW h \in held, Pfree(h[1], h[2])
  PROVE  \E p \in Page, i \in 1..2^MaxOrder : H!Free(p, i)
<1> DEFINE k == num_pages_to_order(h[2])
<1>1. /\ BuddyInv' /\ held' = held \ {h} /\ mapped' = mapped
      /\ bitmap' = bitmap \ Chunk(h[1], k)
  BY PfreeInv
<1>2. /\ h[1] \in Page /\ h = <<h[1], h[2]>> /\ Pages(h[1], h[2]) \subseteq Chunk(h[1], k)
      /\ Chunk(h[1], k) \subseteq bitmap
  BY HeldBlock
<1>3. h[2] \in 1..2^MaxOrder /\ bitmap \subseteq mapped
  BY DEF BuddyInv, BuddyType
<1> HIDE DEF k
<1>4. \A g \in held' : Pages(g[1], g[2]) \subseteq bitmap'
  <2>1. ASSUME NEW g \in held' PROVE Pages(g[1], g[2]) \subseteq bitmap'
    <3> DEFINE o == num_pages_to_order(g[2])
    <3>1. g \in held /\ Pages(g[1], g[2]) \subseteq Chunk(g[1], o)
      BY <1>1, HeldBlock
    <3>2. Chunk(g[1], o) \subseteq bitmap'
      BY <1>1 DEF BuddyInv, HeldInv
    <3> QED  BY <3>1, <3>2
  <2> QED  BY <2>1
<1>5. H!Gain(held')
  BY <1>1, <1>4 DEF H!Gain, H!Pages, Pages
<1>6. H!Free(h[1], h[2])
  BY <1>1, <1>2, <1>3, <1>5 DEF H!Free, H!Pages, Pages
<1> QED  BY <1>2, <1>3, <1>6
=============================================================================
