------------------------------ MODULE MCMalloc -----------------------------
(* An instance of Malloc, and so of Buddy, for TLC. *)
EXTENDS Malloc

(* Eight pages in one chunk of order 3, and a region whose chunks are small *)
(* and whose buddies lie outside.                                           *)
TwoRegions == {<<7, 9>>, <<2, 3>>}

SixteenPages == 0..15
=============================================================================
