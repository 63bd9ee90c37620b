------------------------------ MODULE MCTimer ------------------------------
(* Instances of Timer for TLC. *)
EXTENDS Timer

(* Delays of up to two ticks, the most a tick can be late. *)
ShortDelays == 0..2

(* A short delay, and one that reaches beyond the wrap at every tick but 0. *)
FarDelays == {1, TickMax}

(* The last tick from which no delay reaches the wrap. *)
BeforeWrap == TickMax - 2
=============================================================================
