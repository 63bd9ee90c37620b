------------------------------- MODULE Malloc ------------------------------
(***************************************************************************)
(* malloc, free, realloc and posix_memalign on top of the page allocator   *)
(* (lib/ukalloc/alloc.c, the _ifpages functions).  What free needs to know *)
(* is kept at the start of a page in front of the user's memory, and found *)
(* again from the pointer alone.  Users write all over their memory, and   *)
(* only there.  Calls do not overlap: neither layer has a lock.            *)
(***************************************************************************)
EXTENDS Buddy

CONSTANTS
  PageSize,     \* __PAGE_SIZE
  MetaSize,     \* sizeof(struct metadata_ifpages)
  MetaPow2,     \* METADATA_IFPAGES_SIZE_POW2
  SizeMod,      \* 2^w for the w bits of __sz
  Size,         \* the sizes asked for
  Alignment,    \* the values of align: powers of two
  None          \* no pointer

(* Everything but MetaSize is a power of two, and the address space has as  *)
(* many bytes as __sz has values.                                           *)
ASSUME MallocAssumption ==
  /\ PageSize \in Nat /\ MetaPow2 \in Nat /\ MetaSize \in 1..MetaPow2
  /\ MetaPow2 < PageSize /\ PageSize % MetaPow2 = 0
  /\ SizeMod = PageSize * 2^(MaxOrder + 1)
  /\ Size \subseteq 1..(SizeMod - 1)
  /\ \A a \in Alignment :
       /\ a \in Nat \ {0} /\ a + PageSize < SizeMod
       /\ IF a <= PageSize THEN PageSize % a = 0 ELSE a % PageSize = 0

VARIABLES
  meta,         \* the metadata at the start of a page: <<base, num_pages>>
  live,         \* the user's pointers: [ptr, size, align]
  old           \* the pointer that uk_realloc_ifpages has yet to free

heapVars == <<vars, meta, live, old>>

MallocInit ==
  /\ Init
  /\ meta = [p \in Page |-> Garbage]
  /\ live = {}
  /\ old = None

-----------------------------------------------------------------------------
PageOf(a) == a \div PageSize

size_to_num_pages(size) == ((size + PageSize - 1) % SizeMod) \div PageSize

AlignUp(a, align) == ((a + align - 1) \div align) * align

(* Mutant: page-aligned memory is not treated apart. *)
uk_get_metadata_SamePage(ptr) == PageOf(ptr)

(* uk_get_metadata: the page that has the metadata of ptr at its start *)
uk_get_metadata(ptr) ==
  IF ptr % PageSize = 0 THEN PageOf(ptr) - 1 ELSE PageOf(ptr)

(* The memory of a pointer, and the pages whose start lies in it *)
Bytes(x) == x.ptr .. (x.ptr + x.size - 1)
Starting(x) == {p \in Page : p * PageSize \in Bytes(x)}

(* A pointer to size bytes in the n pages from base on: the metadata is     *)
(* written, then the user writes.                                           *)
Hand(base, n, x) ==
  /\ meta' = [p \in Page |->
                IF p \in Starting(x) THEN Garbage
                ELSE IF p = uk_get_metadata(x.ptr) THEN <<base, n>>
                ELSE meta[p]]
  /\ live' = live \cup {x}

(* uk_palloc returned base. *)
Got(base, n) == <<base, n>> \in held' \ held

(* Mutant: the sum is not looked at. *)
Fits_Always(realsize, size) == TRUE

(* The check for overflow, on what is left of the sum *)
Fits(realsize, size) == realsize >= size

(* uk_malloc_ifpages *)
New(size) ==
  LET realsize == (MetaPow2 + size) % SizeMod
      n == size_to_num_pages(realsize)
  IN  /\ Fits(realsize, size)
      /\ Palloc(n)
      /\ \E base \in Page :
           /\ Got(base, n)
           /\ Hand(base, n, [ptr |-> base * PageSize + MetaPow2, size |-> size,
                             align |-> MetaPow2])

Malloc(size) == old = None /\ New(size) /\ UNCHANGED old

(* What uk_posix_memalign_ifpages adds to the size next to the alignment *)
Padding(align) ==
  IF align > PageSize THEN PageSize
  ELSE IF align = PageSize \/ align < MetaPow2 THEN 0
  ELSE MetaSize

(* uk_posix_memalign_ifpages *)
Memalign(align, size) ==
  LET al == IF align < MetaPow2 THEN MetaPow2 ELSE align
      realsize == (size + Padding(align) + al) % SizeMod
      n == size_to_num_pages(realsize)
  IN  /\ old = None
      /\ Fits(realsize, size)
      /\ Palloc(n)
      /\ \E base \in Page :
           /\ Got(base, n)
           /\ Hand(base, n, [ptr |-> AlignUp(base * PageSize + MetaSize, al),
                             size |-> size, align |-> al])
      /\ UNCHANGED old

(* uk_free_ifpages.  What is left in freed pages is not looked at again. *)
Release(x) ==
  LET m == meta[uk_get_metadata(x.ptr)] IN
  /\ m # Garbage
  /\ Pfree(m[1], m[2])
  /\ live' = live \ {x}
  /\ meta' = [p \in Page |-> IF p \in Pages(m[1], m[2]) THEN Garbage ELSE meta[p]]

Free(x) == old = None /\ Release(x) /\ UNCHANGED old

(* uk_realloc_ifpages of a pointer: the new memory, the copy; then the old  *)
(* memory is freed.  Without new memory nothing changes.                    *)
Realloc(x, size) ==
  /\ old = None
  /\ New(size)
  /\ old' = x

ReallocFree == old # None /\ Release(old) /\ old' = None

(* uk_alloc_addmem *)
Grow(r) == old = None /\ AddMem(r[1], r[2]) /\ UNCHANGED <<meta, live, old>>

MallocNext ==
  \/ \E size \in Size : Malloc(size) \/ \E align \in Alignment : Memalign(align, size)
  \/ \E x \in live : Free(x) \/ \E size \in Size : Realloc(x, size)
  \/ ReallocFree
  \/ \E r \in Region : Grow(r)

MallocSpec == MallocInit /\ [][MallocNext]_heapVars

-----------------------------------------------------------------------------
(* Pointers have the alignment asked for, and the memory behind them lies   *)
(* inside the pages that were allocated for it, apart from the memory of    *)
(* all other pointers.                                                      *)
PointersSound ==
  /\ \A x \in live :
       /\ x.ptr % x.align = 0
       /\ \E h \in held : Bytes(x) \subseteq h[1] * PageSize .. ((h[1] + h[2]) * PageSize - 1)
  /\ \A x, y \in live : x # y => Bytes(x) \cap Bytes(y) = {}

Blocks == {meta[uk_get_metadata(x.ptr)] : x \in live}

(* The pointer alone is enough to free: wherever malloc and posix_memalign  *)
(* placed the user's memory, the place uk_get_metadata derives from the     *)
(* pointer lies outside of everybody's memory and still names the block     *)
(* that was allocated for it, and for no other pointer.  No block is lost:  *)
(* each one can be freed through a pointer its user still has, across all   *)
(* moves by realloc and all calls that failed.                              *)
FreeFindsBlock ==
  /\ \A x \in live :
       LET m == meta[uk_get_metadata(x.ptr)] IN
       /\ m \in held
       /\ Bytes(x) \subseteq m[1] * PageSize .. ((m[1] + m[2]) * PageSize - 1)
  /\ Cardinality(Blocks) = Cardinality(live)
  /\ held \subseteq Blocks
=============================================================================
