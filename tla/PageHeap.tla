------------------------------ MODULE PageHeap -----------------------------
(***************************************************************************)
(* What the kernel expects of a page allocator (uk/alloc.h): a request is  *)
(* served with a run of pages that nobody else has and that is as long as  *)
(* asked for, and a run given back can be served again.                    *)
(***************************************************************************)
EXTENDS Integers

CONSTANTS
  Page,         \* the page numbers
  Request       \* the values of num_pages

VARIABLES
  avail,        \* the pages that can be handed out
  held          \* the requests being served: <<first page, num_pages>>

vars == <<avail, held>>

Pages(p, n) == p .. (p + n - 1)

Init == avail = {} /\ held = {}

(* Pages that are new, or no longer in use, can be handed out. *)
Gain(stillHeld) ==
  /\ avail \subseteq avail'
  /\ \A h \in stillHeld : Pages(h[1], h[2]) \cap avail' = {}

AddMem == Gain(held) /\ UNCHANGED held

(* At least the pages asked for are set aside. *)
Alloc(p, n) ==
  /\ avail' \subseteq avail
  /\ Pages(p, n) \subseteq avail \ avail'
  /\ held' = held \cup {<<p, n>>}

Free(p, n) ==
  /\ <<p, n>> \in held
  /\ held' = held \ {<<p, n>>}
  /\ Gain(held')
  /\ Pages(p, n) \subseteq avail'

Next == AddMem \/ \E p \in Page, n \in Request : Alloc(p, n) \/ Free(p, n)

Spec == Init /\ [][Next]_vars
=============================================================================
