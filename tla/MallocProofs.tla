---------------------------- MODULE MallocProofs ---------------------------
(***************************************************************************)
(* malloc, free, realloc and posix_memalign for every page size, every set *)
(* of sizes and alignments and every set of regions: the theorems about    *)
(* the heap, on top of what BuddyProofs says of the page allocator.        *)
(***************************************************************************)
EXTENDS Malloc, BuddyProofs

(* The bytes of a block of pages, and the metadata's page of a pointer *)
BlockBytes(m) == m[1] * PageSize .. ((m[1] + m[2]) * PageSize - 1)
Meta(x) == uk_get_metadata(x.ptr)

(* The pointers: each has a block, with the metadata in it but outside of   *)
(* the user's memory, which lies in the block as well.                      *)
PointerInv ==
  \A x \in live :
    /\ x.ptr \in Nat /\ x.size \in Nat \ {0} /\ x.align \in Nat \ {0}
    /\ x.ptr % x.align = 0
    /\ Meta(x) \in Page /\ meta[Meta(x)] \in held
    /\ Meta(x) \in Pages(meta[Meta(x)][1], meta[Meta(x)][2])
    /\ Bytes(x) \subseteq BlockBytes(meta[Meta(x)])

(* The inductive invariant: pointers and blocks correspond one to one. *)
MallocInv ==
  /\ BuddyInv
  /\ PointerInv
  /\ IsFiniteSet(live)
  /\ \A x, y \in live : meta[Meta(x)] = meta[Meta(y)] => x = y
  /\ held \subseteq Blocks
  /\ old = None \/ old \in live

-----------------------------------------------------------------------------
(* Arithmetic *)
LEMMA Sizes ==
  /\ PageSize \in Nat /\ PageSize > 0
  /\ MetaSize \in Nat /\ MetaSize > 0 /\ MetaSize <= MetaPow2
  /\ MetaPow2 \in Nat /\ MetaPow2 > 0 /\ MetaPow2 < PageSize
  /\ 2^(MaxOrder + 1) \in Nat
  /\ SizeMod = PageSize * 2^(MaxOrder + 1) /\ SizeMod \in Nat
<1>1. 2^(MaxOrder + 1) \in Nat
  BY Pow
<1>2. PageSize \in Nat /\ MetaPow2 \in Nat /\ MetaSize \in 1..MetaPow2 /\ MetaPow2 < PageSize
      /\ SizeMod = PageSize * 2^(MaxOrder + 1)
  BY MallocAssumption
<1>3. SizeMod \in Nat
  BY <1>1, <1>2
<1> QED  BY <1>1, <1>2, <1>3

LEMMA Divide ==
  ASSUME NEW a \in Nat, NEW d \in Nat, d > 0
  PROVE  /\ a \div d \in Nat /\ a % d \in Nat
         /\ a = (a \div d) * d + (a % d) /\ a % d < d
<1>1. a = d * (a \div d) + (a % d) /\ a % d \in 0..(d - 1) /\ a \div d \in Nat
  BY SMT
<1>2. d * (a \div d) = (a \div d) * d
  BY <1>1, SMT
<1> QED  BY <1>1, <1>2

(* Products and their order *)
LEMMA TimesLess ==
  ASSUME NEW a \in Nat, NEW b \in Nat, NEW d \in Nat, d > 0
  PROVE  /\ a * d \in Nat
         /\ a * d < b * d => a < b
         /\ a < b => a * d + d <= b * d
         /\ a <= b => a * d <= b * d
<1>1. a * d \in Nat
  BY SMT
<1>2. a * d < b * d => a < b
  BY SMT
<1>3. a < b => (a + 1) * d <= b * d
  BY SMT
<1>4. (a + 1) * d = a * d + d
  BY SMT
<1>5. a <= b => a * d <= b * d
  BY SMT
<1> QED  BY <1>1, <1>2, <1>3, <1>4, <1>5

LEMMA TimesPlus ==
  ASSUME NEW a \in Nat, NEW b \in Nat, NEW d \in Nat
  PROVE  (a + b) * d = a * d + b * d
BY SMT

(* A remainder of zero is a multiple. *)
LEMMA Multiple ==
  ASSUME NEW a \in Nat, NEW d \in Nat, d > 0
  PROVE  a % d = 0 <=> \E q \in Nat : a = q * d
<1>1. a % d = 0 => a = (a \div d) * d /\ a \div d \in Nat
  BY Divide
<1>2. ASSUME NEW q \in Nat, a = q * d PROVE a % d = 0
  BY <1>2, SMT
<1> QED  BY <1>1, <1>2

(* The page of a byte of a block is one of its pages. *)
LEMMA PageOfByte ==
  ASSUME NEW b \in Nat, NEW n \in Nat, NEW t \in BlockBytes(<<b, n>>)
  PROVE  t \in Nat /\ PageOf(t) \in Pages(b, n)
<1>0. PageSize \in Nat /\ PageSize > 0
  BY Sizes
<1> DEFINE q == t \div PageSize
<1>1. b * PageSize \in Nat /\ (b + n) * PageSize \in Nat /\ b + n \in Nat
  BY <1>0, TimesLess
<1>2. t \in Nat /\ b * PageSize <= t /\ t < (b + n) * PageSize
  BY <1>1 DEF BlockBytes
<1>3. q \in Nat /\ t % PageSize \in Nat /\ t = q * PageSize + (t % PageSize) /\ t % PageSize < PageSize
  BY <1>0, <1>2, Divide
<1> HIDE DEF q
<1>4. q * PageSize \in Nat /\ q + 1 \in Nat
  BY <1>0, <1>3, TimesLess
<1>5. q < b + n
  <2>1. q * PageSize < (b + n) * PageSize
    BY <1>0, <1>1, <1>2, <1>3, <1>4
  <2> QED  BY <1>0, <1>1, <1>3, <2>1, TimesLess
<1>6. b <= q
  <2>1. SUFFICES ASSUME q < b PROVE FALSE
    BY <1>3
  <2>2. q * PageSize + PageSize <= b * PageSize
    BY <1>0, <1>3, <2>1, TimesLess
  <2> QED  BY <1>0, <1>1, <1>2, <1>3, <1>4, <2>2
<1>7. q \in b..(b + n - 1)
  BY <1>3, <1>5, <1>6
<1> QED  BY <1>2, <1>7 DEF PageOf, Pages, q

(* uk_get_metadata: the page whose start lies last in front of ptr *)
LEMMA MetadataPage ==
  ASSUME NEW g \in Nat, NEW ptr \in Nat, g * PageSize < ptr, ptr <= (g + 1) * PageSize
  PROVE  uk_get_metadata(ptr) = g
<1>0. PageSize \in Nat /\ PageSize > 0
  BY Sizes
<1> DEFINE q == ptr \div PageSize  r == ptr % PageSize
<1>1. q \in Nat /\ r \in Nat /\ ptr = q * PageSize + r /\ r < PageSize
  BY <1>0, Divide
<1>2. uk_get_metadata(ptr) = IF r = 0 THEN q - 1 ELSE q
  BY DEF uk_get_metadata, PageOf
<1> HIDE DEF q, r
<1>3. /\ g * PageSize \in Nat /\ q * PageSize \in Nat /\ (g + 1) * PageSize = g * PageSize + PageSize
  <2>1. (g + 1) * PageSize = g * PageSize + 1 * PageSize
    BY <1>0, TimesPlus
  <2> QED  BY <1>0, <1>1, <2>1, TimesLess
<1>4. q <= g + 1
  <2>1. SUFFICES ASSUME g + 1 < q PROVE FALSE
    BY <1>1
  <2>2. (g + 1) * PageSize + PageSize <= q * PageSize
    BY <1>0, <1>1, <2>1, TimesLess
  <2> QED  BY <1>0, <1>1, <1>3, <2>2
<1>5. g <= q
  <2>1. SUFFICES ASSUME q < g PROVE FALSE
    BY <1>1
  <2>2. q * PageSize + PageSize <= g * PageSize
    BY <1>0, <1>1, <2>1, TimesLess
  <2> QED  BY <1>0, <1>1, <1>3, <2>2
<1>6. CASE q = g
  <2>1. r # 0
    BY <1>1, <1>3, <1>6
  <2> QED  BY <1>2, <1>6, <2>1
<1>7. CASE q = g + 1
  <2>1. r = 0
    BY <1>0, <1>1, <1>3, <1>7
  <2> QED  BY <1>2, <1>7, <2>1
<1> QED  BY <1>1, <1>4, <1>5, <1>6, <1>7

(* The pages for a size hold it, when the rounding does not overflow; when  *)
(* it does, num_pages is 0.                                                 *)
LEMMA EnoughPages ==
  ASSUME NEW realsize \in 0..(SizeMod - 1), size_to_num_pages(realsize) # 0
  PROVE  LET n == size_to_num_pages(realsize) IN
         n \in Nat /\ n <= 2^(MaxOrder + 1) /\ realsize <= n * PageSize
<1>0. PageSize \in Nat /\ PageSize > 0 /\ 2^(MaxOrder + 1) \in Nat /\ SizeMod \in Nat
      /\ SizeMod = 2^(MaxOrder + 1) * PageSize /\ realsize \in Nat /\ realsize < SizeMod /\ SizeMod > 0
  BY Sizes, SMT
<1> DEFINE s == realsize + PageSize - 1  v == s % SizeMod  n == v \div PageSize  r == v % PageSize
<1>1. s \in Nat /\ s < SizeMod + PageSize - 1
  BY <1>0
<1>2. n = size_to_num_pages(realsize)
  BY DEF size_to_num_pages
<1>v. v = IF s < SizeMod THEN s ELSE s - SizeMod
  <2>1. s < SizeMod + SizeMod
    <3>1. PageSize <= SizeMod
      <4>1. 2^(MaxOrder + 1) >= 1
        BY Pow
      <4> QED  BY <1>0, <4>1, SMT
    <3> QED  BY <1>0, <1>1, <3>1
  <2> HIDE DEF s
  <2>2. CASE s < SizeMod
    BY <1>0, <1>1, <2>2, SMT
  <2>3. CASE s >= SizeMod
    BY <1>0, <1>1, <2>1, <2>3, SMT
  <2> QED  BY <1>0, <1>1, <2>2, <2>3
<1>3. v \in Nat /\ v < SizeMod
  BY <1>0, <1>1, <1>v
<1> HIDE DEF v
<1>4. n \in Nat /\ r \in Nat /\ v = n * PageSize + r /\ r < PageSize
  BY <1>0, <1>3, Divide
<1> HIDE DEF n, r
<1>5. n * PageSize \in Nat
  BY <1>0, <1>4, TimesLess
<1>6. s < SizeMod
  <2>1. SUFFICES ASSUME ~(s < SizeMod) PROVE FALSE
    OBVIOUS
  <2>2. v < PageSize
    BY <1>0, <1>1, <1>v, <2>1
  <2>3. n * PageSize < 1 * PageSize
    BY <1>0, <1>4, <1>5, <2>2
  <2>4. n < 1
    BY <1>0, <1>4, <2>3, TimesLess
  <2> QED  BY <1>2, <1>4, <2>4
<1>7. realsize <= n * PageSize
  BY <1>0, <1>4, <1>5, <1>6, <1>v
<1>8. n <= 2^(MaxOrder + 1)
  <2>1. n * PageSize < 2^(MaxOrder + 1) * PageSize
    BY <1>0, <1>3, <1>4, <1>5
  <2>2. n < 2^(MaxOrder + 1)
    BY <1>0, <1>4, <2>1, TimesLess
  <2> QED  BY <1>0, <1>4, <2>2
<1> QED  BY <1>2, <1>4, <1>7, <1>8

-----------------------------------------------------------------------------
(* Where a pointer is placed *)
Placed(base, n, x) ==
  /\ x.ptr \in Nat /\ x.size \in Nat \ {0} /\ x.align \in Nat \ {0}
  /\ x.ptr % x.align = 0
  /\ Meta(x) \in Pages(base, n)
  /\ Meta(x) * PageSize < x.ptr
  /\ Bytes(x) \subseteq BlockBytes(<<base, n>>)

(* A pointer behind the start of the block's page g, with its memory ending *)
(* inside of the block, is well placed.                                     *)
LEMMA PlacedBehind ==
  ASSUME NEW base \in Nat, NEW n \in Nat, NEW g \in Nat, base <= g,
         NEW ptr \in Nat, g * PageSize < ptr, ptr <= (g + 1) * PageSize,
         NEW size \in Nat \ {0}, ptr + size <= (base + n) * PageSize,
         NEW align \in Nat \ {0}, ptr % align = 0
  PROVE  Placed(base, n, [ptr |-> ptr, size |-> size, align |-> align])
<1> DEFINE x == [ptr |-> ptr, size |-> size, align |-> align]
<1>0. PageSize \in Nat /\ PageSize > 0
  BY Sizes
<1>1. Meta(x) = g
  BY MetadataPage DEF Meta
<1>2. /\ base * PageSize \in Nat /\ (base + n) * PageSize \in Nat /\ base + n \in Nat
      /\ g * PageSize \in Nat
  BY <1>0, TimesLess
<1>3. base * PageSize <= g * PageSize
  BY <1>0, TimesLess
<1>4. g < base + n
  <2>1. g * PageSize < (base + n) * PageSize
    BY <1>2
  <2> QED  BY <1>0, <1>2, <2>1, TimesLess
<1>5. Meta(x) \in Pages(base, n)
  BY <1>1, <1>4 DEF Pages
<1>6. x.ptr = ptr /\ x.size = size /\ x.align = align
  OBVIOUS
<1> HIDE DEF x
<1>7. Bytes(x) \subseteq BlockBytes(<<base, n>>)
  BY <1>2, <1>3, <1>6 DEF Bytes, BlockBytes
<1> QED  BY <1>1, <1>5, <1>6, <1>7 DEF Placed, x

(* A sum that did not wrap *)
LEMMA NoOverflow ==
  ASSUME NEW size \in 1..(SizeMod - 1), NEW more \in Nat, more < SizeMod,
         (size + more) % SizeMod >= size
  PROVE  (size + more) % SizeMod = size + more /\ size + more < SizeMod
<1>1. SizeMod \in Nat /\ size \in Nat /\ size < SizeMod /\ size > 0
  BY Sizes
<1> DEFINE s == size + more
<1>2. s \in Nat /\ s < SizeMod + SizeMod
  BY <1>1
<1>3. s < SizeMod
  <2>1. SUFFICES ASSUME s >= SizeMod PROVE FALSE
    BY <1>1, <1>2
  <2>2. s % SizeMod = s - SizeMod
    <3> HIDE DEF s
    <3> QED  BY <1>1, <1>2, <2>1, SMT
  <2> QED  BY <1>1, <2>1, <2>2
<1>4. s % SizeMod = s
  <2> HIDE DEF s
  <2> QED  BY <1>1, <1>2, <1>3, SMT
<1> QED  BY <1>3, <1>4

(* uk_malloc_ifpages *)
LEMMA MallocPlaces ==
  ASSUME NEW size \in Size, NEW base \in Nat,
         (MetaPow2 + size) % SizeMod >= size,
         size_to_num_pages((MetaPow2 + size) % SizeMod) # 0
  PROVE  LET n == size_to_num_pages((MetaPow2 + size) % SizeMod) IN
         /\ n \in Nat /\ n <= 2^(MaxOrder + 1)
         /\ Placed(base, n, [ptr |-> base * PageSize + MetaPow2, size |-> size, align |-> MetaPow2])
<1>0. /\ PageSize \in Nat /\ PageSize > 0 /\ MetaPow2 \in Nat /\ MetaPow2 > 0 /\ MetaPow2 < PageSize
      /\ SizeMod \in Nat /\ size \in Nat /\ size > 0 /\ size \in 1..(SizeMod - 1) /\ PageSize < SizeMod
  <2>1. PageSize \in Nat /\ PageSize > 0 /\ MetaPow2 \in Nat /\ MetaPow2 > 0 /\ MetaPow2 < PageSize
        /\ SizeMod \in Nat /\ SizeMod = PageSize * 2^(MaxOrder + 1)
    BY Sizes
  <2>2. size \in 1..(SizeMod - 1)
    BY MallocAssumption
  <2>3. 2^(MaxOrder + 1) \in Nat /\ 2^(MaxOrder + 1) >= 2
    <3>1. MaxOrder \in 0..MaxOrder /\ 2^(MaxOrder + 1) = 2 * 2^MaxOrder /\ 2^MaxOrder \in Nat /\ 2^MaxOrder > 0
      BY Pow
    <3> QED  BY <3>1
  <2>4. PageSize < SizeMod
    BY <2>1, <2>3, SMT
  <2> QED  BY <2>1, <2>2, <2>4
<1> DEFINE realsize == (MetaPow2 + size) % SizeMod  n == size_to_num_pages(realsize)
<1>1. realsize = size + MetaPow2 /\ size + MetaPow2 < SizeMod
  <2>1. MetaPow2 + size = size + MetaPow2
    BY <1>0
  <2> QED  BY <1>0, <2>1, NoOverflow
<1>2. n \in Nat /\ n <= 2^(MaxOrder + 1) /\ realsize <= n * PageSize
  <2>1. realsize \in 0..(SizeMod - 1)
    BY <1>0, <1>1
  <2> QED  BY <2>1, EnoughPages
<1> HIDE DEF realsize, n
<1>3. /\ base * PageSize \in Nat /\ n * PageSize \in Nat
      /\ (base + n) * PageSize = base * PageSize + n * PageSize
      /\ (base + 1) * PageSize = base * PageSize + PageSize
  <2>1. (base + 1) * PageSize = base * PageSize + 1 * PageSize
    BY <1>0, TimesPlus
  <2> QED  BY <1>0, <1>2, <2>1, TimesLess, TimesPlus
<1> DEFINE ptr == base * PageSize + MetaPow2
<1>4. ptr \in Nat /\ base * PageSize < ptr /\ ptr <= (base + 1) * PageSize
  BY <1>0, <1>3
<1>5. ptr + size <= (base + n) * PageSize
  BY <1>0, <1>1, <1>2, <1>3
<1>6. ptr % MetaPow2 = 0
  <2>1. PICK w \in Nat : PageSize = w * MetaPow2
    BY <1>0, Multiple, MallocAssumption
  <2>2. ptr = (base * w + 1) * MetaPow2 /\ base * w + 1 \in Nat
    <3>1. base * (w * MetaPow2) = (base * w) * MetaPow2 /\ base * w \in Nat
      BY <1>0, SMT
    <3>2. (base * w + 1) * MetaPow2 = (base * w) * MetaPow2 + 1 * MetaPow2
      BY <1>0, <3>1, TimesPlus
    <3> QED  BY <1>0, <2>1, <3>1, <3>2
  <2> QED  BY <1>0, <1>4, <2>2, Multiple
<1> HIDE DEF ptr
<1>7. Placed(base, n, [ptr |-> ptr, size |-> size, align |-> MetaPow2])
  <2>1. /\ MetaPow2 \in Nat \ {0} /\ size \in Nat \ {0}
        /\ base \in Nat /\ base <= base /\ n \in Nat /\ ptr \in Nat
    BY <1>0, <1>2, <1>4
  <2> QED  BY <2>1, <1>4, <1>5, <1>6, PlacedBehind, Zenon
<1> QED  BY <1>2, <1>7 DEF n, realsize, ptr

(* ALIGN_UP *)
LEMMA AlignUpFacts ==
  ASSUME NEW a \in Nat, NEW al \in Nat, al > 0
  PROVE  /\ AlignUp(a, al) \in Nat /\ a <= AlignUp(a, al) /\ AlignUp(a, al) < a + al
         /\ \E q \in Nat : AlignUp(a, al) = q * al
<1> DEFINE s == a + al - 1  q == s \div al  r == s % al
<1>1. s \in Nat
  OBVIOUS
<1>2. q \in Nat /\ r \in Nat /\ s = q * al + r /\ r < al
  BY <1>1, Divide
<1>3. AlignUp(a, al) = q * al
  BY DEF AlignUp
<1>4. q * al \in Nat
  BY <1>2, TimesLess
<1>5. a <= q * al /\ q * al < a + al
  <2> HIDE DEF q, r
  <2> QED  BY <1>2, <1>4
<1> QED  BY <1>2, <1>3, <1>4, <1>5

(* An alignment of at most a page: the memory starts that far behind the    *)
(* start of the block.                                                      *)
LEMMA SmallAlignment ==
  ASSUME NEW base \in Nat, NEW al \in Nat, al > 0, MetaSize <= al, PageSize % al = 0
  PROVE  AlignUp(base * PageSize + MetaSize, al) = base * PageSize + al
<1>0. PageSize \in Nat /\ PageSize > 0 /\ MetaSize \in Nat /\ MetaSize > 0
  BY Sizes
<1> DEFINE a == base * PageSize + MetaSize  u == AlignUp(a, al)
<1>1. PICK w \in Nat : PageSize = w * al
  BY <1>0, Multiple
<1>2. base * PageSize \in Nat /\ base * PageSize = (base * w) * al /\ base * w \in Nat
  <2>1. base * (w * al) = (base * w) * al /\ base * w \in Nat
    BY SMT
  <2> QED  BY <1>0, <1>1, <2>1, TimesLess
<1>3. a \in Nat
  BY <1>0, <1>2
<1>4. PICK q \in Nat : u = q * al
  BY <1>3, AlignUpFacts
<1>5. u \in Nat /\ a <= u /\ u < a + al
  BY <1>3, AlignUpFacts
<1> DEFINE b == base * w
<1> HIDE DEF u, b
<1>6. b \in Nat /\ b * al = base * PageSize
  BY <1>2 DEF b
<1>7. b < q
  <2>1. b * al < q * al
    BY <1>0, <1>2, <1>4, <1>5, <1>6
  <2> QED  BY <1>6, <2>1, TimesLess
<1>8. b * al + al <= q * al
  BY <1>6, <1>7, TimesLess
<1>9. q < b + 2
  <2>1. (b + 2) * al = b * al + 2 * al /\ b + 2 \in Nat
    BY <1>6, TimesPlus
  <2>2. q * al < (b + 2) * al
    BY <1>0, <1>2, <1>4, <1>5, <1>6, <2>1
  <2> QED  BY <1>6, <2>1, <2>2, TimesLess
<1>10. q = b + 1
  BY <1>6, <1>7, <1>9
<1>11. (b + 1) * al = b * al + al
  <2>1. (b + 1) * al = b * al + 1 * al
    BY <1>6, TimesPlus
  <2> QED  BY <2>1
<1> QED  BY <1>4, <1>6, <1>10, <1>11 DEF u

(* An alignment of several pages: the memory starts with a page, behind the *)
(* first of the block.                                                      *)
LEMMA LargeAlignment ==
  ASSUME NEW base \in Nat, NEW al \in Nat, al > PageSize, al % PageSize = 0
  PROVE  LET u == AlignUp(base * PageSize + MetaSize, al) IN
         \E t \in Nat : u = t * PageSize /\ base < t
<1>0. PageSize \in Nat /\ PageSize > 0 /\ MetaSize \in Nat /\ MetaSize > 0
  BY Sizes
<1> DEFINE a == base * PageSize + MetaSize  u == AlignUp(a, al)
<1>1. PICK w \in Nat : al = w * PageSize
  BY <1>0, Multiple
<1>2. a \in Nat /\ base * PageSize \in Nat
  BY <1>0, TimesLess
<1>3. al > 0
  BY <1>0
<1>4. PICK q \in Nat : u = q * al
  BY <1>2, <1>3, AlignUpFacts
<1>5. u \in Nat /\ a <= u
  BY <1>2, <1>3, AlignUpFacts
<1> HIDE DEF u
<1>6. u = (q * w) * PageSize /\ q * w \in Nat
  <2>1. q * (w * PageSize) = (q * w) * PageSize /\ q * w \in Nat
    BY <1>0, SMT
  <2> QED  BY <1>1, <1>4, <2>1
<1> DEFINE t == q * w
<1> HIDE DEF t
<1>7. base < t
  <2>1. base * PageSize < t * PageSize
    BY <1>0, <1>2, <1>5, <1>6 DEF t
  <2> QED  BY <1>0, <1>6, <2>1, TimesLess DEF t
<1> QED  BY <1>6, <1>7 DEF t, u

(* In both cases it ends inside of the block. *)
LEMMA AlignedPlace ==
  ASSUME NEW base \in Nat, NEW n \in Nat, NEW size \in Nat, size > 0,
         NEW pad \in Nat, NEW al \in Nat, al > 0, MetaSize <= al,
         al <= PageSize => PageSize % al = 0,
         al > PageSize => al % PageSize = 0 /\ pad = PageSize,
         size + (pad + al) <= n * PageSize
  PROVE  Placed(base, n, [ptr |-> AlignUp(base * PageSize + MetaSize, al),
                          size |-> size, align |-> al])
<1>0. PageSize \in Nat /\ PageSize > 0 /\ MetaSize \in Nat /\ MetaSize > 0 /\ MetaSize < PageSize
  BY Sizes
<1>1. /\ base * PageSize \in Nat /\ n * PageSize \in Nat
      /\ (base + n) * PageSize = base * PageSize + n * PageSize
      /\ (base + 1) * PageSize = base * PageSize + PageSize
  <2>1. (base + 1) * PageSize = base * PageSize + 1 * PageSize
    BY <1>0, TimesPlus
  <2> QED  BY <1>0, <2>1, TimesLess, TimesPlus
<1> DEFINE a == base * PageSize + MetaSize  u == AlignUp(a, al)
<1>2. a \in Nat
  BY <1>0, <1>1
<1>3. u \in Nat /\ u < a + al /\ u % al = 0
  <2>1. u \in Nat /\ u < a + al /\ \E q \in Nat : u = q * al
    BY <1>2, AlignUpFacts
  <2> QED  BY <2>1, Multiple
<1>4. CASE al <= PageSize
  <2>1. u = base * PageSize + al
    BY <1>4, SmallAlignment
  <2>2. base * PageSize < u /\ u <= (base + 1) * PageSize /\ u + size <= (base + n) * PageSize
    <3> HIDE DEF u
    <3> QED  BY <1>0, <1>1, <1>4, <2>1
  <2> HIDE DEF u
  <2>3. Placed(base, n, [ptr |-> u, size |-> size, align |-> al])
    BY <1>3, <2>2, PlacedBehind
  <2> QED  BY <2>3 DEF u
<1>5. CASE al > PageSize
  <2>1. PICK t \in Nat : u = t * PageSize /\ base < t
    BY <1>5, LargeAlignment
  <2> HIDE DEF u
  <2> DEFINE g == t - 1
  <2>2. g \in Nat /\ base <= g /\ g + 1 = t
    BY <2>1
  <2>3. (g + 1) * PageSize = g * PageSize + PageSize /\ g * PageSize \in Nat
    <3>1. (g + 1) * PageSize = g * PageSize + 1 * PageSize
      BY <1>0, <2>2, TimesPlus
    <3> QED  BY <1>0, <2>2, <3>1, TimesLess
  <2>4. u = (g + 1) * PageSize
    BY <2>1, <2>2
  <2> HIDE DEF g
  <2>5. g * PageSize < u /\ u <= (g + 1) * PageSize
    BY <1>0, <1>3, <2>3, <2>4
  <2>6. u + size <= (base + n) * PageSize
    <3>1. pad = PageSize
      BY <1>5
    <3> QED  BY <1>0, <1>1, <1>3, <3>1
  <2>7. Placed(base, n, [ptr |-> u, size |-> size, align |-> al])
    BY <1>3, <2>2, <2>5, <2>6, PlacedBehind
  <2> QED  BY <2>7 DEF u
<1> QED  BY <1>0, <1>4, <1>5

(* uk_posix_memalign_ifpages *)
LEMMA MemalignPlaces ==
  ASSUME NEW size \in Size, NEW align \in Alignment, NEW base \in Nat,
         NEW al, al = IF align < MetaPow2 THEN MetaPow2 ELSE align,
         NEW realsize, realsize = (size + Padding(align) + al) % SizeMod,
         realsize >= size, size_to_num_pages(realsize) # 0
  PROVE  LET n == size_to_num_pages(realsize) IN
         /\ n \in Nat /\ n <= 2^(MaxOrder + 1)
         /\ Placed(base, n, [ptr |-> AlignUp(base * PageSize + MetaSize, al),
                             size |-> size, align |-> al])
<1>0. /\ PageSize \in Nat /\ PageSize > 0 /\ MetaPow2 \in Nat /\ MetaPow2 > 0 /\ MetaPow2 < PageSize
      /\ MetaSize \in Nat /\ MetaSize > 0 /\ MetaSize <= MetaPow2
      /\ SizeMod \in Nat /\ PageSize % MetaPow2 = 0
  BY Sizes, MallocAssumption
<1>1. size \in Nat /\ size > 0 /\ size \in 1..(SizeMod - 1)
  BY <1>0, MallocAssumption
<1>2. /\ align \in Nat /\ align > 0 /\ align + PageSize < SizeMod
      /\ IF align <= PageSize THEN PageSize % align = 0 ELSE align % PageSize = 0
  BY MallocAssumption
<1> DEFINE pad == Padding(align)  n == size_to_num_pages(realsize)
<1>3. /\ pad \in Nat /\ pad <= PageSize
      /\ align > PageSize => pad = PageSize
      /\ al \in Nat /\ al > 0 /\ pad + al < SizeMod
      /\ MetaSize <= al
      /\ al <= PageSize => PageSize % al = 0
      /\ al > PageSize => al % PageSize = 0 /\ pad = PageSize
  <2>1. pad = IF align > PageSize THEN PageSize
              ELSE IF align = PageSize \/ align < MetaPow2 THEN 0 ELSE MetaSize
    BY DEF Padding
  <2> HIDE DEF pad
  <2>2. CASE align < MetaPow2
    BY <1>0, <1>2, <2>1, <2>2
  <2>3. CASE align >= MetaPow2
    <3>1. al = align
      BY <1>0, <1>2, <2>3
    <3>2. CASE align <= PageSize
      BY <1>0, <1>2, <2>1, <2>3, <3>1, <3>2
    <3>3. CASE align > PageSize
      BY <1>0, <1>2, <2>1, <2>3, <3>1, <3>3
    <3> QED  BY <1>0, <1>2, <3>2, <3>3
  <2> QED  BY <1>0, <1>2, <2>2, <2>3
<1> HIDE DEF pad
<1>4. realsize = size + (pad + al) /\ realsize < SizeMod /\ realsize \in 0..(SizeMod - 1)
  <2> DEFINE more == pad + al
  <2>1. size + pad + al = size + more /\ more \in Nat /\ more < SizeMod
    BY <1>1, <1>3
  <2>2. realsize = (size + more) % SizeMod
    BY <2>1 DEF pad
  <2> HIDE DEF more
  <2>3. realsize = size + more /\ size + more < SizeMod
    BY <1>1, <2>1, <2>2, NoOverflow
  <2>4. realsize \in 0..(SizeMod - 1)
    BY <1>0, <1>1, <2>1, <2>3
  <2> QED  BY <2>3, <2>4 DEF more
<1>5. n \in Nat /\ n <= 2^(MaxOrder + 1) /\ realsize <= n * PageSize
  BY <1>4, EnoughPages
<1> HIDE DEF n
<1>6. Placed(base, n, [ptr |-> AlignUp(base * PageSize + MetaSize, al),
                       size |-> size, align |-> al])
  BY <1>1, <1>3, <1>4, <1>5, AlignedPlace
<1> QED  BY <1>5, <1>6 DEF n

-----------------------------------------------------------------------------
(* What is known of a pointer *)
LEMMA LivePointer ==
  ASSUME MallocInv, NEW x \in live
  PROVE  LET m == meta[Meta(x)] IN
         /\ x.ptr \in Nat /\ x.size \in Nat \ {0} /\ x.align \in Nat \ {0}
         /\ x.ptr % x.align = 0
         /\ Meta(x) \in Page /\ m \in held
         /\ m[1] \in Nat /\ m[2] \in Nat /\ m = <<m[1], m[2]>>
         /\ Meta(x) \in Pages(m[1], m[2])
         /\ Pages(m[1], m[2]) \subseteq Chunk(m[1], num_pages_to_order(m[2]))
         /\ Pages(m[1], m[2]) \subseteq bitmap
         /\ Bytes(x) \subseteq BlockBytes(m)
<1> DEFINE m == meta[Meta(x)]
<1>1. /\ x.ptr \in Nat /\ x.size \in Nat \ {0} /\ x.align \in Nat \ {0}
      /\ x.ptr % x.align = 0
      /\ Meta(x) \in Page /\ m \in held
      /\ Meta(x) \in Pages(m[1], m[2])
      /\ Bytes(x) \subseteq BlockBytes(m)
  BY Zenon DEF MallocInv, PointerInv
<1> HIDE DEF m
<1>2. BuddyInv
  BY DEF MallocInv
<1>3. /\ m[1] \in Nat /\ m[2] \in Nat /\ m = <<m[1], m[2]>>
      /\ Pages(m[1], m[2]) \subseteq Chunk(m[1], num_pages_to_order(m[2]))
      /\ Chunk(m[1], num_pages_to_order(m[2])) \subseteq bitmap
  BY <1>1, <1>2, HeldBlock
<1>4. Pages(m[1], m[2]) \subseteq bitmap
  BY <1>3
<1> QED  BY <1>1, <1>3, <1>4, Zenon DEF m

(* Blocks that share a byte are the same. *)
LEMMA BlocksApart ==
  ASSUME BuddyInv, NEW g \in held, NEW h \in held,
         NEW t, t \in BlockBytes(g), t \in BlockBytes(h)
  PROVE  g = h
<1>1. /\ g[1] \in Nat /\ g[2] \in Nat /\ g = <<g[1], g[2]>>
      /\ Pages(g[1], g[2]) \subseteq Chunk(g[1], num_pages_to_order(g[2]))
  BY HeldBlock
<1>2. /\ h[1] \in Nat /\ h[2] \in Nat /\ h = <<h[1], h[2]>>
      /\ Pages(h[1], h[2]) \subseteq Chunk(h[1], num_pages_to_order(h[2]))
  BY HeldBlock
<1>3. PageOf(t) \in Pages(g[1], g[2])
  BY <1>1, PageOfByte
<1>4. PageOf(t) \in Pages(h[1], h[2])
  BY <1>2, PageOfByte
<1> QED  BY <1>1, <1>2, <1>3, <1>4 DEF BuddyInv, HeldInv

(* A pointer into a new block: nobody else's metadata is touched, by the    *)
(* writing of its own or by what its user writes.                           *)
LEMMA HandMeta ==
  ASSUME MallocInv, NEW n \in Nat, n <= 2^(MaxOrder + 1), Palloc(n),
         NEW base \in Page, Got(base, n), NEW x, Placed(base, n, x), Hand(base, n, x)
  PROVE  /\ BuddyInv' /\ held' = held \cup {<<base, n>>} /\ <<base, n>> \notin held
         /\ \A y \in live : meta'[Meta(y)] = meta[Meta(y)]
         /\ meta'[Meta(x)] = <<base, n>> /\ Meta(x) \in Page
         /\ live' = live \cup {x}
<1> DEFINE k == num_pages_to_order(n)
<1>1. BuddyInv /\ BuddyInv'
  BY PallocInv DEF MallocInv
<1>2. PICK c \in Page :
        /\ held' = held \cup {<<c, n>>} /\ <<c, n>> \notin held
        /\ n \in 1..2^MaxOrder
        /\ k \in Order /\ n <= 2^k
        /\ Chunk(c, k) \subseteq mapped \ bitmap
  BY <1>1, PallocInv
<1> HIDE DEF k
<1>3. base = c
  BY <1>2 DEF Got
<1>4. base \in Nat /\ 2^k \in Nat
  BY <1>2, PageFacts, OrderFacts
<1>5. Pages(base, n) \subseteq mapped \ bitmap
  <2>1. Pages(base, n) \subseteq Chunk(base, k)
    BY <1>2, <1>4 DEF Pages, Chunk
  <2> QED  BY <1>2, <1>3, <2>1
<1>6. /\ x.ptr \in Nat /\ x.size \in Nat \ {0}
      /\ Meta(x) \in Pages(base, n) /\ Meta(x) * PageSize < x.ptr
      /\ Bytes(x) \subseteq BlockBytes(<<base, n>>)
  BY DEF Placed
<1>7. Meta(x) \in Page
  BY <1>1, <1>5, <1>6 DEF BuddyInv, BuddyType
<1>8. \A p \in Starting(x) : p \in Pages(base, n)
  <2> TAKE p \in Starting(x)
  <2>1. p \in Page /\ p * PageSize \in BlockBytes(<<base, n>>)
    BY <1>6 DEF Starting
  <2>2. PageOf(p * PageSize) \in Pages(base, n)
    BY <1>4, <2>1, PageOfByte
  <2>3. PageOf(p * PageSize) = p
    <3>1. p \in Nat /\ PageSize \in Nat /\ PageSize > 0
      BY <2>1, PageFacts, Sizes
    <3>2. (p * PageSize) \div PageSize = p
      BY <3>1, SMT
    <3> QED  BY <3>2 DEF PageOf
  <2> QED  BY <2>2, <2>3
<1>9. Meta(x) \notin Starting(x)
  <2>1. Meta(x) * PageSize \notin Bytes(x)
    <3>1. Meta(x) \in Nat /\ PageSize \in Nat /\ Meta(x) * PageSize \in Nat
      BY <1>7, PageFacts, Sizes, TimesLess
    <3> QED  BY <1>6, <3>1 DEF Bytes
  <2> QED  BY <2>1 DEF Starting
<1>10. meta' = [p \in Page |->
                IF p \in Starting(x) THEN Garbage
                ELSE IF p = Meta(x) THEN <<base, n>>
                ELSE meta[p]]
  BY DEF Hand, Meta
<1>11. meta'[Meta(x)] = <<base, n>>
  BY <1>7, <1>9, <1>10
<1>12. ASSUME NEW y \in live PROVE meta'[Meta(y)] = meta[Meta(y)]
  <2>1. Meta(y) \in Page /\ Meta(y) \in bitmap
    BY LivePointer
  <2>2. Meta(y) \notin Pages(base, n)
    BY <1>5, <2>1
  <2> QED  BY <1>6, <1>8, <1>10, <2>1, <2>2
<1>13. live' = live \cup {x}
  BY DEF Hand
<1> QED  BY <1>1, <1>2, <1>3, <1>7, <1>11, <1>12, <1>13

LEMMA HandInv ==
  ASSUME MallocInv, NEW n \in Nat, n <= 2^(MaxOrder + 1), Palloc(n),
         NEW base \in Page, Got(base, n), NEW x, Placed(base, n, x), Hand(base, n, x),
         old' = None \/ old' \in live'
  PROVE  MallocInv'
<1>1. /\ BuddyInv' /\ held' = held \cup {<<base, n>>} /\ <<base, n>> \notin held
      /\ \A y \in live : meta'[Meta(y)] = meta[Meta(y)]
      /\ meta'[Meta(x)] = <<base, n>> /\ Meta(x) \in Page
      /\ live' = live \cup {x}
  BY HandMeta
<1>2. PointerInv'
  <2> SUFFICES ASSUME NEW y \in live'
               PROVE  /\ y.ptr \in Nat /\ y.size \in Nat \ {0} /\ y.align \in Nat \ {0}
                      /\ y.ptr % y.align = 0
                      /\ Meta(y) \in Page /\ meta'[Meta(y)] \in held'
                      /\ Meta(y) \in Pages(meta'[Meta(y)][1], meta'[Meta(y)][2])
                      /\ Bytes(y) \subseteq BlockBytes(meta'[Meta(y)])
    BY Zenon DEF PointerInv, Meta, Bytes, BlockBytes, Pages, uk_get_metadata, PageOf
  <2>1. CASE y \in live
    <3>1. /\ y.ptr \in Nat /\ y.size \in Nat \ {0} /\ y.align \in Nat \ {0}
          /\ y.ptr % y.align = 0
          /\ Meta(y) \in Page /\ meta[Meta(y)] \in held
          /\ Meta(y) \in Pages(meta[Meta(y)][1], meta[Meta(y)][2])
          /\ Bytes(y) \subseteq BlockBytes(meta[Meta(y)])
      BY <2>1, LivePointer
    <3>2. meta'[Meta(y)] = meta[Meta(y)] /\ held \subseteq held'
      BY <1>1, <2>1
    <3> QED  BY <3>1, <3>2, Zenon
  <2>2. CASE y = x
    <3>1. <<base, n>>[1] = base /\ <<base, n>>[2] = n
      OBVIOUS
    <3>2. <<base, n>> \in held'
      BY <1>1
    <3> QED  BY <1>1, <2>2, <3>1, <3>2, Zenon DEF Placed
  <2> QED  BY <1>1, <2>1, <2>2
<1>3. IsFiniteSet(live')
  BY <1>1, FS_AddElement DEF MallocInv
<1>4. \A y, z \in live' : meta'[Meta(y)] = meta'[Meta(z)] => y = z
  <2>1. \A y \in live : meta'[Meta(y)] \in held
    BY <1>1, LivePointer
  <2>2. \A y, z \in live : meta[Meta(y)] = meta[Meta(z)] => y = z
    BY DEF MallocInv
  <2> QED  BY <1>1, <2>1, <2>2
<1>5. held' \subseteq Blocks'
  <2>1. Blocks' = {meta'[Meta(y)] : y \in live'}
    BY DEF Blocks, Meta
  <2>2. Blocks = {meta[Meta(y)] : y \in live}
    BY DEF Blocks, Meta
  <2>3. held \subseteq Blocks
    BY DEF MallocInv
  <2>4. ASSUME NEW h \in held' PROVE \E y \in live' : h = meta'[Meta(y)]
    BY <1>1, <2>2, <2>3
  <2> QED  BY <2>1, <2>4
<1> QED  BY <1>1, <1>2, <1>3, <1>4, <1>5 DEF MallocInv, Meta

(* uk_free_ifpages *)
LEMMA ReleaseInv ==
  ASSUME MallocInv, NEW x \in live, Release(x), old' = None
  PROVE  MallocInv' /\ \E h \in held : Pfree(h[1], h[2])
<1> DEFINE m == meta[Meta(x)]
<1>1. /\ m \in held /\ Pages(m[1], m[2]) \subseteq Chunk(m[1], num_pages_to_order(m[2]))
      /\ Pfree(m[1], m[2])
      /\ live' = live \ {x}
      /\ meta' = [p \in Page |-> IF p \in Pages(m[1], m[2]) THEN Garbage ELSE meta[p]]
  BY LivePointer DEF Release, Meta
<1>2. BuddyInv
  BY DEF MallocInv
<1>3. BuddyInv' /\ held' = held \ {m}
  BY <1>1, <1>2, PfreeInv
<1>4. ASSUME NEW y \in live' PROVE meta'[Meta(y)] = meta[Meta(y)] /\ meta[Meta(y)] # m /\ y \in live
  <2> DEFINE g == meta[Meta(y)]
  <2>1. y \in live /\ y # x
    BY <1>1
  <2>2. g # m
    BY <2>1 DEF MallocInv
  <2>3. /\ Meta(y) \in Page /\ g \in held /\ Meta(y) \in Pages(g[1], g[2])
        /\ Pages(g[1], g[2]) \subseteq Chunk(g[1], num_pages_to_order(g[2]))
    BY <2>1, LivePointer
  <2> HIDE DEF g, m
  <2>4. Meta(y) \notin Pages(m[1], m[2])
    BY <1>1, <1>2, <2>2, <2>3 DEF BuddyInv, HeldInv
  <2>5. meta'[Meta(y)] = meta[Meta(y)]
    BY <1>1, <2>3, <2>4
  <2> QED  BY <2>1, <2>2, <2>5 DEF g
<1> HIDE DEF m
<1>5. PointerInv'
  <2> SUFFICES ASSUME NEW y \in live'
               PROVE  /\ y.ptr \in Nat /\ y.size \in Nat \ {0} /\ y.align \in Nat \ {0}
                      /\ y.ptr % y.align = 0
                      /\ Meta(y) \in Page /\ meta'[Meta(y)] \in held'
                      /\ Meta(y) \in Pages(meta'[Meta(y)][1], meta'[Meta(y)][2])
                      /\ Bytes(y) \subseteq BlockBytes(meta'[Meta(y)])
    BY Zenon DEF PointerInv, Meta, Bytes, BlockBytes, Pages, uk_get_metadata, PageOf
  <2>1. /\ y.ptr \in Nat /\ y.size \in Nat \ {0} /\ y.align \in Nat \ {0}
        /\ y.ptr % y.align = 0
        /\ Meta(y) \in Page /\ meta[Meta(y)] \in held
        /\ Meta(y) \in Pages(meta[Meta(y)][1], meta[Meta(y)][2])
        /\ Bytes(y) \subseteq BlockBytes(meta[Meta(y)])
    BY <1>4, LivePointer
  <2>2. meta'[Meta(y)] \in held'
    BY <1>3, <1>4, <2>1
  <2> QED  BY <1>4, <2>1, <2>2, Zenon
<1>6. IsFiniteSet(live')
  BY <1>1, FS_RemoveElement DEF MallocInv
<1>7. \A y, z \in live' : meta'[Meta(y)] = meta'[Meta(z)] => y = z
  BY <1>4 DEF MallocInv
<1>8. held' \subseteq Blocks'
  <2>1. Blocks' = {meta'[Meta(y)] : y \in live'}
    BY DEF Blocks, Meta
  <2>2. Blocks = {meta[Meta(y)] : y \in live}
    BY DEF Blocks, Meta
  <2>3. held \subseteq Blocks
    BY DEF MallocInv
  <2>4. ASSUME NEW h \in held' PROVE \E y \in live' : h = meta'[Meta(y)]
    <3>1. h \in held /\ h # m
      BY <1>3
    <3>2. PICK y \in live : h = meta[Meta(y)]
      BY <2>2, <2>3, <3>1
    <3>3. y \in live'
      BY <1>1, <3>1, <3>2 DEF m
    <3> QED  BY <1>4, <3>2, <3>3
  <2> QED  BY <2>1, <2>4
<1> QED  BY <1>1, <1>3, <1>5, <1>6, <1>7, <1>8 DEF MallocInv, Meta

-----------------------------------------------------------------------------
(* The calls, one by one *)

(* uk_malloc_ifpages *)
LEMMA NewInv ==
  ASSUME MallocInv, NEW size \in Size, New(size),
         old' = None \/ old' \in live
  PROVE  /\ MallocInv'
         /\ \E n \in Nat : n <= 2^(MaxOrder + 1) /\ Palloc(n)
<1> DEFINE realsize == (MetaPow2 + size) % SizeMod
           n == size_to_num_pages(realsize)
<1>1. /\ realsize >= size /\ Palloc(n)
      /\ \E base \in Page :
           /\ Got(base, n)
           /\ Hand(base, n, [ptr |-> base * PageSize + MetaPow2, size |-> size,
                             align |-> MetaPow2])
  BY DEF New, Fits
<1>2. PICK base \in Page :
           /\ Got(base, n)
           /\ Hand(base, n, [ptr |-> base * PageSize + MetaPow2, size |-> size,
                             align |-> MetaPow2])
  BY <1>1
<1>3. n # 0
  BY <1>1 DEF Palloc
<1>4. base \in Nat
  BY PageFacts
<1>5. /\ n \in Nat /\ n <= 2^(MaxOrder + 1)
      /\ Placed(base, n, [ptr |-> base * PageSize + MetaPow2, size |-> size,
                          align |-> MetaPow2])
  BY <1>1, <1>3, <1>4, MallocPlaces
<1> HIDE DEF n
<1>6. old' = None \/ old' \in live'
  BY <1>2 DEF Hand
<1>7. MallocInv'
  BY <1>1, <1>2, <1>5, <1>6, HandInv
<1> QED  BY <1>1, <1>5, <1>7

(* uk_posix_memalign_ifpages *)
LEMMA MemalignInv ==
  ASSUME MallocInv, NEW align \in Alignment, NEW size \in Size, Memalign(align, size)
  PROVE  /\ MallocInv'
         /\ \E n \in Nat : n <= 2^(MaxOrder + 1) /\ Palloc(n)
<1> DEFINE al == IF align < MetaPow2 THEN MetaPow2 ELSE align
           realsize == (size + Padding(align) + al) % SizeMod
           n == size_to_num_pages(realsize)
           x(base) == [ptr |-> AlignUp(base * PageSize + MetaSize, al),
                       size |-> size, align |-> al]
<1>1. /\ realsize >= size /\ Palloc(n) /\ old' = old
      /\ \E base \in Page : Got(base, n) /\ Hand(base, n, x(base))
  BY DEF Memalign, Fits
<1>2. PICK base \in Page : Got(base, n) /\ Hand(base, n, x(base))
  BY <1>1
<1>3. n # 0
  BY <1>1 DEF Palloc
<1>4. base \in Nat
  BY PageFacts
<1>5. n \in Nat /\ n <= 2^(MaxOrder + 1) /\ Placed(base, n, x(base))
  BY <1>1, <1>3, <1>4, MemalignPlaces
<1> HIDE DEF n, x
<1>6. old' = None \/ old' \in live'
  BY <1>1, <1>2 DEF Hand, MallocInv
<1>7. MallocInv'
  BY <1>1, <1>2, <1>5, <1>6, HandInv
<1> QED  BY <1>1, <1>5, <1>7

(* uk_alloc_addmem *)
LEMMA GrowInv ==
  ASSUME MallocInv, NEW r \in Region, Grow(r)
  PROVE  MallocInv'
<1>1. AddMem(r[1], r[2]) /\ meta' = meta /\ live' = live /\ old' = old
  BY DEF Grow
<1>2. BuddyInv' /\ held' = held
  BY <1>1, AddMemInv DEF MallocInv
<1> QED  BY <1>1, <1>2 DEF MallocInv, PointerInv, Blocks, Meta

(* A call of the heap is a call of the page allocator. *)
LEMMA HeapStep ==
  ASSUME MallocInv, MallocNext
  PROVE  /\ MallocInv'
         /\ \/ \E n \in Nat : n <= 2^(MaxOrder + 1) /\ Palloc(n)
            \/ \E h \in held : Pfree(h[1], h[2])
            \/ \E r \in Region : AddMem(r[1], r[2])
<1>1. ASSUME NEW size \in Size, Malloc(size)
      PROVE  MallocInv' /\ \E n \in Nat : n <= 2^(MaxOrder + 1) /\ Palloc(n)
  <2>1. New(size) /\ old' = None
    BY <1>1 DEF Malloc
  <2> QED  BY <2>1, NewInv
<1>2. ASSUME NEW size \in Size, NEW align \in Alignment, Memalign(align, size)
      PROVE  MallocInv' /\ \E n \in Nat : n <= 2^(MaxOrder + 1) /\ Palloc(n)
  BY <1>2, MemalignInv
<1>3. ASSUME NEW x \in live, Free(x)
      PROVE  MallocInv' /\ \E h \in held : Pfree(h[1], h[2])
  <2>1. Release(x) /\ old' = None
    BY <1>3 DEF Free
  <2> QED  BY <2>1, ReleaseInv
<1>4. ASSUME NEW x \in live, NEW size \in Size, Realloc(x, size)
      PROVE  MallocInv' /\ \E n \in Nat : n <= 2^(MaxOrder + 1) /\ Palloc(n)
  <2>1. New(size) /\ old' \in live
    BY <1>4 DEF Realloc
  <2> QED  BY <2>1, NewInv
<1>5. ASSUME ReallocFree
      PROVE  MallocInv' /\ \E h \in held : Pfree(h[1], h[2])
  <2>1. old \in live /\ Release(old) /\ old' = None
    BY <1>5 DEF ReallocFree, MallocInv
  <2>2. PICK x \in live : x = old
    BY <2>1
  <2>3. Release(x)
    BY <2>1, <2>2
  <2> QED  BY <2>1, <2>3, ReleaseInv
<1>6. ASSUME NEW r \in Region, Grow(r)
      PROVE  MallocInv' /\ AddMem(r[1], r[2])
  BY <1>6, GrowInv DEF Grow
<1> QED  BY <1>1, <1>2, <1>3, <1>4, <1>5, <1>6 DEF MallocNext

LEMMA HeapInit ==
  MallocInit => MallocInv
<1> SUFFICES ASSUME MallocInit PROVE MallocInv
  OBVIOUS
<1>1. BuddyInv /\ live = {} /\ old = None /\ held = {}
  BY BuddyInit DEF MallocInit, Init
<1>2. IsFiniteSet(live)
  BY <1>1, FS_EmptySet
<1> QED  BY <1>1, <1>2 DEF MallocInv, PointerInv

LEMMA HeapStutter ==
  MallocInv /\ UNCHANGED heapVars => MallocInv'
<1> SUFFICES ASSUME MallocInv, UNCHANGED heapVars PROVE MallocInv'
  OBVIOUS
<1>1. /\ meta' = meta /\ live' = live /\ old' = old /\ free' = free /\ level' = level
      /\ mapped' = mapped /\ bitmap' = bitmap /\ nr_free_pages' = nr_free_pages /\ held' = held
  BY DEF heapVars, vars
<1>2. BuddyInv'
  BY <1>1 DEF MallocInv, BuddyInv, BuddyType, FreeInv, HeldInv
<1> QED  BY <1>1, <1>2 DEF MallocInv, PointerInv, Blocks, Meta

LEMMA HeapInvariant ==
  MallocSpec => []MallocInv
<1>1. MallocInv /\ [MallocNext]_heapVars => MallocInv'
  BY HeapStep, HeapStutter
<1> QED  BY <1>1, HeapInit, PTL DEF MallocSpec

-----------------------------------------------------------------------------
(* The invariant and the properties *)
LEMMA PointersAreSound ==
  MallocInv => PointersSound
<1> SUFFICES ASSUME MallocInv PROVE PointersSound
  OBVIOUS
<1>1. ASSUME NEW x \in live
      PROVE  /\ x.ptr % x.align = 0
             /\ \E h \in held : Bytes(x) \subseteq h[1] * PageSize .. ((h[1] + h[2]) * PageSize - 1)
  BY LivePointer DEF BlockBytes
<1>2. ASSUME NEW x \in live, NEW y \in live, x # y
      PROVE  Bytes(x) \cap Bytes(y) = {}
  <2> SUFFICES ASSUME NEW t \in Bytes(x), t \in Bytes(y) PROVE FALSE
    OBVIOUS
  <2>1. /\ meta[Meta(x)] \in held /\ t \in BlockBytes(meta[Meta(x)])
        /\ meta[Meta(y)] \in held /\ t \in BlockBytes(meta[Meta(y)])
    BY LivePointer
  <2>2. meta[Meta(x)] = meta[Meta(y)]
    BY <2>1, BlocksApart DEF MallocInv
  <2> QED  BY <1>2, <2>2 DEF MallocInv
<1> QED  BY <1>1, <1>2 DEF PointersSound

LEMMA PointersFindBlocks ==
  MallocInv => FreeFindsBlock
<1> SUFFICES ASSUME MallocInv PROVE FreeFindsBlock
  OBVIOUS
<1>1. ASSUME NEW x \in live
      PROVE  LET m == meta[uk_get_metadata(x.ptr)] IN
             /\ m \in held
             /\ Bytes(x) \subseteq m[1] * PageSize .. ((m[1] + m[2]) * PageSize - 1)
  BY LivePointer DEF BlockBytes, Meta
<1>2. Cardinality(Blocks) = Cardinality(live)
  <2> DEFINE f == [x \in live |-> meta[Meta(x)]]
  <2>1. Blocks = {meta[Meta(x)] : x \in live}
    BY DEF Blocks, Meta
  <2>2. f \in Surjection(live, Blocks)
    BY <2>1 DEF Surjection
  <2>3. f \in Injection(live, Blocks)
    BY <2>1 DEF Injection, IsInjective, MallocInv
  <2> HIDE DEF f
  <2> QED  BY <2>2, <2>3, FS_Surjection DEF MallocInv
<1> QED  BY <1>1, <1>2 DEF FreeFindsBlock, MallocInv

(* The free lists of the page allocator hold every free page once, in chunks *)
(* of their list's size, with their level in place and the count right,      *)
(* after any sequence of malloc, posix_memalign, free, realloc and addmem,   *)
(* for every number of orders, set of regions and page size.                 *)
THEOREM FreeLists ==
  MallocSpec => []FreeListsExact
<1>1. MallocInv => FreeListsExact
  BY ListsAreExact DEF MallocInv
<1> QED  BY <1>1, HeapInvariant, PTL

(* The level bbuddy_pfree reads at its buddy is the level of a chunk in a    *)
(* list whenever the bitmap calls the buddy free.                            *)
THEOREM Levels ==
  MallocSpec => []LevelTrusted
<1>1. MallocInv => LevelTrusted
  BY LevelIsTrusted DEF MallocInv
<1> QED  BY <1>1, HeapInvariant, PTL

(* bbuddy_palloc says there is no memory only when no aligned run of free    *)
(* pages of the order asked for exists: merging leaves nothing split.        *)
THEOREM NoFalseShortage ==
  MallocSpec => []NoFalseENOMEM
<1>1. MallocInv => NoFalseENOMEM
  BY NothingIsFragmented DEF MallocInv
<1> QED  BY <1>1, HeapInvariant, PTL

(* What malloc, realloc and posix_memalign return is aligned as asked for    *)
(* and lies in its own block, apart from the memory of all other pointers,   *)
(* whatever the sizes, the alignments and the overflow of __sz.              *)
THEOREM Pointers ==
  MallocSpec => []PointersSound
BY HeapInvariant, PointersAreSound, PTL

(* uk_free_ifpages finds the block of a pointer from the pointer alone, no   *)
(* two pointers share one and no block is lost.                              *)
THEOREM FreeFinds ==
  MallocSpec => []FreeFindsBlock
BY HeapInvariant, PointersFindBlocks, PTL

(* The calls of the heap, seen through the bitmap, are the calls of a page   *)
(* allocator that serves each request with pages nobody else has.            *)
THEOREM HeapImplements ==
  MallocSpec => ImplementsPageHeap
<1>1. MallocInit => H!Init
  BY DEF MallocInit, Init, H!Init
<1>2. MallocInv /\ [MallocNext]_heapVars => [H!Next]_(H!vars)
  <2>1. ASSUME MallocInv, MallocNext PROVE H!Next
    <3>1. BuddyInv
      BY <2>1 DEF MallocInv
    <3>2. CASE \E n \in Nat : n <= 2^(MaxOrder + 1) /\ Palloc(n)
      BY <3>1, <3>2, PallocIsHeapStep DEF H!Next
    <3>3. CASE \E h \in held : Pfree(h[1], h[2])
      BY <3>1, <3>3, PfreeIsHeapStep DEF H!Next
    <3>4. CASE \E r \in Region : AddMem(r[1], r[2])
      BY <3>1, <3>4, AddMemIsHeapStep DEF H!Next
    <3> QED  BY <2>1, <3>2, <3>3, <3>4, HeapStep
  <2>2. UNCHANGED heapVars => UNCHANGED H!vars
    BY DEF heapVars, vars, H!vars
  <2> QED  BY <2>1, <2>2
<1> QED  BY <1>1, <1>2, HeapInvariant, PTL DEF MallocSpec, ImplementsPageHeap, H!Spec
=============================================================================
