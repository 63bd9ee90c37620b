------------------------------- MODULE Alarm -------------------------------
(***************************************************************************)
(* What the rest of the kernel expects of the soft timers (tn/timer.h): a  *)
(* timer expires in the first tick interrupt at or after its time, never   *)
(* before; due timers expire in order of their times; a handler does not   *)
(* return while a timer is due; a periodic timer is armed again.           *)
(***************************************************************************)
EXTENDS Integers

CONSTANTS
  Timer,        \* the timers
  Periodic,     \* those with TN_TIMER_FLAG_PERIODIC
  Delay,        \* the values of init_tick
  MaxLate,      \* most ticks between two tick interrupts
  Off           \* a timer that is not armed

VARIABLES
  left,         \* ticks until each timer is due, or Off
  serving,      \* a tick interrupt is being served
  owed          \* the periodic timers that expired and are not yet rearmed

vars == <<left, serving, owed>>

Armed == {t \in Timer : left[t] # Off}

(* A delay of zero counts as one tick. *)
Ticks(d) == IF d = 0 THEN 1 ELSE d

Init == left = [t \in Timer |-> Off] /\ serving = FALSE /\ owed = {}

Start(t, d) ==
  /\ ~serving /\ t \notin Armed
  /\ left' = [left EXCEPT ![t] = Ticks(d)]
  /\ UNCHANGED <<serving, owed>>

Cancel(t) ==
  /\ left' = [left EXCEPT ![t] = Off]
  /\ UNCHANGED <<serving, owed>>

Elapse(n) ==
  /\ ~serving
  /\ serving' = TRUE
  /\ left' = [t \in Timer |-> IF t \in Armed THEN left[t] - n ELSE Off]
  /\ UNCHANGED owed

Expire(t) ==
  /\ serving /\ t \in Armed
  /\ left[t] <= 0
  /\ \A u \in Armed : left[t] <= left[u]
  /\ left' = [left EXCEPT ![t] = Off]
  /\ owed' = owed \cup ({t} \cap Periodic)
  /\ UNCHANGED serving

Rearm(t, d) ==
  /\ t \in owed
  /\ left' = [left EXCEPT ![t] = Ticks(d)]
  /\ owed' = owed \ {t}
  /\ UNCHANGED serving

Return ==
  /\ serving /\ owed = {}
  /\ \A t \in Armed : left[t] > 0
  /\ serving' = FALSE
  /\ UNCHANGED <<left, owed>>

Next ==
  \/ \E t \in Timer : Cancel(t) \/ Expire(t)
  \/ \E t \in Timer, d \in Delay : Start(t, d) \/ Rearm(t, d)
  \/ \E n \in 0..MaxLate : Elapse(n)
  \/ Return

Spec == Init /\ [][Next]_vars
=============================================================================
