----------------------------- MODULE MCTnSched -----------------------------
(* Model-checking instance of the thread kernel. *)
EXTENDS TnSched, TLC

(* Every thread but the initial one is interchangeable. *)
ThreadSymmetry == Permutations(Thread \ {Main})
=============================================================================
