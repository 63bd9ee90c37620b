------------------------------- MODULE Buddy -------------------------------
(***************************************************************************)
(* The binary buddy page allocator (lib/ukallocbbuddy/bbuddy.c), from      *)
(* which all memory of the kernel and of the application comes.  A free    *)
(* chunk keeps its order in its first page; a page that was handed out     *)
(* holds whatever its user wrote there, so a stale or foreign value in     *)
(* place of a level is Garbage.  Addresses are page numbers.  The lists of *)
(* free chunks are sets: which chunk of an order is taken does not matter. *)
(* The operations are called by Malloc, which has the next-state relation. *)
(***************************************************************************)
EXTENDS Integers, FiniteSets, FiniteSetsExt

CONSTANTS
  Page,         \* the page numbers, 0 .. n
  MaxOrder,     \* FREELIST_SIZE - 1
  Region,       \* the memory handed to addmem: <<base, pages>>
  Garbage       \* what a page holds once it has been used

(* All addresses lie below 2^(MaxOrder + 1) pages, the address space;       *)
(* addmem asserts that base is not NULL.                                    *)
ASSUME BuddyAssumption ==
  /\ MaxOrder \in Nat
  /\ Page \subseteq 0..(2^(MaxOrder + 1) - 1)
  /\ Garbage \notin Int

Pages(base, n) == base .. (base + n - 1)

ASSUME RegionAssumption ==
  \A r \in Region :
    /\ r \in (Nat \ {0}) \X Nat
    /\ Pages(r[1], r[2]) \subseteq Page
    /\ \A s \in Region \ {r} : Pages(r[1], r[2]) \cap Pages(s[1], s[2]) = {}

(* What the proofs need to know of powers of two *)
ASSUME PowerAssumption ==
  /\ 2^0 = 1
  /\ \A k \in 0..(MaxOrder + 1) : 2^k \in Nat \ {0}
  /\ \A k \in 0..MaxOrder : 2^(k + 1) = 2 * 2^k

Order == 0..MaxOrder

VARIABLES
  free,         \* the chunks on free_head[order]
  level,        \* chunk_head_t.level, in the first page of a chunk
  mapped,       \* the pages of the regions on memr_head
  bitmap,       \* mm_alloc_bitmap: those of them that are allocated
  nr_free_pages,
  held          \* what the callers have: <<first page, num_pages>>

vars == <<free, level, mapped, bitmap, nr_free_pages, held>>

(* The pages of a chunk *)
Chunk(p, k) == p .. (p + 2^k - 1)

Aligned(p, k) == p % 2^k = 0

(* allocated_in_map: pages outside of the regions count as allocated. *)
allocated_in_map(p) == p \notin mapped \/ p \in bitmap

(* num_pages_to_order: MaxOrder + 1 for more pages than any list has *)
num_pages_to_order(n) == Min({k \in 0..(MaxOrder + 1) : n <= 2^k})

Init ==
  /\ free = [k \in Order |-> {}]
  /\ level = [p \in Page |-> Garbage]
  /\ mapped = {} /\ bitmap = {} /\ nr_free_pages = 0
  /\ held = {}

-----------------------------------------------------------------------------
(* The order of the chunk that addmem starts at page p of a range that ends *)
(* in front of page e: limited by alignment and by what is left.            *)
FirstOrder(p, e) == Max({k \in Order : Aligned(p, k) /\ p + 2^k <= e})

(* The loop of addmem cuts the range p .. e - 1 into chunks; starts are the *)
(* values that min takes in it: p, and what the chunk before leads to.      *)
CutAt(starts, p, e) ==
  /\ p \in starts
  /\ \A c \in starts : c + 2^FirstOrder(c, e) \in starts \cup {e}
  /\ \A c \in starts \ {p} : \E d \in starts : c = d + 2^FirstOrder(d, e)

(* bbuddy_addmem: the first page of the region keeps its descriptor and     *)
(* bitmap (one page serves up to 32,000 pages), the rest is free.           *)
AddMem(base, pages) ==
  LET p == base + 1
      e == base + pages
  IN  /\ pages >= 2
      /\ Pages(base, pages) \cap mapped = {}
      /\ \E starts \in SUBSET (p..(e - 1)) :
           /\ CutAt(starts, p, e)
           /\ free' = [k \in Order |->
                         free[k] \cup {c \in starts : FirstOrder(c, e) = k}]
           /\ level' = [q \in Page |->
                          IF q \in starts THEN FirstOrder(q, e) ELSE level[q]]
      /\ mapped' = mapped \cup p..(e - 1)
      /\ nr_free_pages' = nr_free_pages + (e - p)
      /\ UNCHANGED <<bitmap, held>>

-----------------------------------------------------------------------------
(* bbuddy_palloc on the chunk c of order i, split down to the order k *)
Take(c, i, k, n) ==
  LET spares == {j \in Order : k <= j /\ j < i} IN
  /\ free' = [j \in Order |->
                IF j = i THEN free[j] \ {c}
                ELSE IF j \in spares THEN free[j] \cup {c + 2^j}
                ELSE free[j]]
  /\ level' = [q \in Page |->
                 IF q \in Chunk(c, k) THEN Garbage
                 ELSE IF \E j \in spares : q = c + 2^j
                      THEN CHOOSE j \in spares : q = c + 2^j
                 ELSE level[q]]
  /\ bitmap' = bitmap \cup Chunk(c, k)
  /\ nr_free_pages' = nr_free_pages - 2^k
  /\ held' = held \cup {<<c, n>>}
  /\ UNCHANGED mapped

(* bbuddy_palloc: the smallest order that can serve the request.  Without   *)
(* one it reports ENOMEM and changes nothing; num_pages is not to be 0.     *)
Palloc(n) ==
  LET k == num_pages_to_order(n)
      orders == {i \in Order : i >= k /\ free[i] # {}}
  IN  /\ n # 0
      /\ orders # {}
      /\ \E c \in free[Min(orders)] : Take(c, Min(orders), k, n)

-----------------------------------------------------------------------------
(* The chunk of order j around page p, and its buddy *)
Around(p, j) == p - (p % 2^j)
Buddy(p, j)  == LET c == Around(p, j) IN
                IF Aligned(c, j + 1) THEN c + 2^j ELSE c - 2^j

(* Mutant: the level of the buddy is not compared. *)
Merges_AnyLevel(p, j) == ~allocated_in_map(Buddy(p, j))

(* The chunk of order j around p can be merged with its buddy. *)
Merges(p, j) ==
  /\ ~allocated_in_map(Buddy(p, j))
  /\ level[Buddy(p, j)] = j

(* Mutant: no merging. *)
MergedOrder_Same(p, k) == k

(* The order at which the loop of bbuddy_pfree stops *)
MergedOrder(p, k) == Min({j \in k..(MaxOrder + 1) : j > MaxOrder \/ ~Merges(p, j)})

(* Mutant: the pages stay marked as allocated. *)
Pfree_NoMap(p, n) ==
  LET k == num_pages_to_order(n)
      m == MergedOrder(p, k)
  IN  /\ <<p, n>> \in held
      /\ free' = [j \in Order |->
                    IF j = m THEN free[j] \cup {Around(p, m)}
                    ELSE IF k <= j /\ j < m THEN free[j] \ {Buddy(p, j)}
                    ELSE free[j]]
      /\ level' = [level EXCEPT ![Around(p, m)] = m]
      /\ nr_free_pages' = nr_free_pages + 2^k
      /\ held' = held \ {<<p, n>>}
      /\ UNCHANGED <<mapped, bitmap>>

(* Mutant: the merged chunk's order is not written down. *)
Pfree_NoLevel(p, n) ==
  LET k == num_pages_to_order(n)
      m == MergedOrder(p, k)
  IN  /\ <<p, n>> \in held
      /\ bitmap' = bitmap \ Chunk(p, k)
      /\ free' = [j \in Order |->
                    IF j = m THEN free[j] \cup {Around(p, m)}
                    ELSE IF k <= j /\ j < m THEN free[j] \ {Buddy(p, j)}
                    ELSE free[j]]
      /\ nr_free_pages' = nr_free_pages + 2^k
      /\ held' = held \ {<<p, n>>}
      /\ UNCHANGED <<mapped, level>>

(* bbuddy_pfree, of what bbuddy_palloc returned for the same num_pages *)
Pfree(p, n) ==
  LET k == num_pages_to_order(n)
      m == MergedOrder(p, k)
  IN  /\ <<p, n>> \in held
      /\ bitmap' = bitmap \ Chunk(p, k)
      /\ free' = [j \in Order |->
                    IF j = m THEN free[j] \cup {Around(p, m)}
                    ELSE IF k <= j /\ j < m THEN free[j] \ {Buddy(p, j)}
                    ELSE free[j]]
      /\ level' = [level EXCEPT ![Around(p, m)] = m]
      /\ nr_free_pages' = nr_free_pages + 2^k
      /\ held' = held \ {<<p, n>>}
      /\ UNCHANGED mapped

(* bbuddy_pmaxalloc: the pages of the biggest free chunk *)
pmaxalloc ==
  LET orders == {k \in Order : free[k] # {}} IN
  IF orders = {} THEN 0 ELSE 2^Max(orders)

-----------------------------------------------------------------------------
(* The free lists, the bitmap and the counter tell the same story: the      *)
(* chunks of the lists are aligned to their order, as the assertion of      *)
(* bbuddy_palloc demands, and do not overlap, together they are the pages   *)
(* the bitmap has as free, and nr_free_pages counts them, whatever has been *)
(* split and merged before.                                                 *)
FreeListsExact ==
  LET chunks == {x \in Page \X Order : x[1] \in free[x[2]]} IN
  /\ \A x \in chunks : Aligned(x[1], x[2])
  /\ \A x, y \in chunks : x # y => Chunk(x[1], x[2]) \cap Chunk(y[1], y[2]) = {}
  /\ UNION {Chunk(x[1], x[2]) : x \in chunks} = mapped \ bitmap
  /\ nr_free_pages = Cardinality(mapped \ bitmap)

(* bbuddy_pfree reads chunk_head_t.level from a page only because the       *)
(* bitmap has it as free.  That is enough: the buddy of a block in use,     *)
(* or of what it is merged into, is when free the start of a chunk with its *)
(* level in place, never the inside of one, where old data may still lie.   *)
LevelTrusted ==
  \A h \in held :
    LET k == num_pages_to_order(h[2]) IN
    \A j \in Order : k <= j /\ j <= MergedOrder(h[1], k) =>
      LET b == Buddy(h[1], j) IN
      ~allocated_in_map(b) => level[b] \in Order /\ b \in free[level[b]]

(* Memory is not lost to fragmentation by the allocator itself: every       *)
(* aligned run of 2^k free pages can be had, for palloc fails only when no  *)
(* list from order k on has a chunk.                                        *)
NoFalseENOMEM ==
  \A k \in Order : \A p \in Page :
    Aligned(p, k) /\ Chunk(p, k) \subseteq mapped \ bitmap => 2^k <= pmaxalloc

H == INSTANCE PageHeap WITH avail <- mapped \ bitmap, Request <- 1..2^MaxOrder

(* The allocator implements a page heap: a caller gets pages nobody else    *)
(* has, as many as asked for, and what is given back can be had again.      *)
ImplementsPageHeap == H!Spec
=============================================================================
