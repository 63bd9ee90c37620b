------------------------------- MODULE MCMbox -------------------------------
(* Instances of Mbox for TLC. *)
EXTENDS Mbox, TLC

(* Threads are interchangeable, and so are messages; the properties of the  *)
(* run are safety properties.                                               *)
Symmetry == Permutations(Thread) \cup Permutations(Msg)
=============================================================================
