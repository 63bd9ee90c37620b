------------------------------ MODULE MCInfer ------------------------------
(* An instance of Infer for TLC: three names for two slots, a file that is  *)
(* within the limit and one that is not, and a ring shorter than the run.   *)
EXTENDS Infer, TLC

(* The names are interchangeable. *)
Names == Permutations(Name)

Whole == [n \in Name |-> n]

Sizes == [small |-> 1, medium |-> 2, large |-> 5]

Files == {"small", "medium", "large"}
=============================================================================
