----------------------------- MODULE WaitEvent -----------------------------
(***************************************************************************)
(* Waiting for a condition on a wait queue: the loop of                    *)
(* __wq_wait_event_deadline and uk_waitq_wake_up (uk/wait.h), which the    *)
(* semaphores, mutexes and reader-writer locks are built on.  A step is    *)
(* what runs with interrupts disabled, or one access to shared state; the  *)
(* threads may be preempted between any two steps.  TnSched models the     *)
(* blocking and waking itself; here a blocked thread takes no step until   *)
(* it is woken.                                                            *)
(***************************************************************************)
EXTENDS Integers

CONSTANTS
  Thread,       \* the threads
  Queue,        \* the wait queues
  Forever       \* the deadline of a call without one

ASSUME WaitAssumption == Forever \notin Int /\ Queue # {}

VARIABLES
  at,           \* where each thread stands in its call
  on,           \* the wait queue of the call
  waiting,      \* the threads on each wait queue
  left,         \* ticks until the deadline of the call: negative once past
  timer         \* t->timer: "off", "armed", or "never" when its delay underflowed

waitVars == <<at, on, waiting, left, timer>>

WaitInit ==
  /\ at = [t \in Thread |-> "idle"]
  /\ on = [t \in Thread |-> CHOOSE q \in Queue : TRUE]
  /\ waiting = [q \in Queue |-> {}]
  /\ left = [t \in Thread |-> Forever]
  /\ timer = [t \in Thread |-> "off"]

Goto(t, where) == at' = [at EXCEPT ![t] = where]

(* The call has a deadline and ukplat_monotonic_clock() >= deadline. *)
Late(t) == left[t] # Forever /\ left[t] <= 0

(* A call that waits on q, for d ticks at most. *)
WaitCall(t, q, d) ==
  /\ at[t] = "idle"
  /\ Goto(t, "test")
  /\ on' = [on EXCEPT ![t] = q]
  /\ left' = [left EXCEPT ![t] = d]
  /\ UNCHANGED <<waiting, timer>>

(* The first test of the condition, outside the lock. *)
WaitTest(t, condition) ==
  /\ at[t] = "test"
  /\ Goto(t, IF condition THEN "take" ELSE "lock")
  /\ UNCHANGED <<on, waiting, left, timer>>

(* TN_THREAD_TIMER_START: deadline - now is unsigned, so that a deadline     *)
(* just missed becomes one for the end of time.                             *)
StartTimer(t) ==
  IF left[t] = Forever THEN "off" ELSE IF left[t] < 0 THEN "never" ELSE "armed"

(* uk_waitq_add, the timer and the blocking *)
Enqueue(t) ==
  /\ Goto(t, "blocked")
  /\ waiting' = [waiting EXCEPT ![on[t]] = @ \cup {t}]
  /\ timer' = [timer EXCEPT ![t] = StartTimer(t)]

(* Mutant: the condition is not tested again under the lock. *)
WaitLock_NoRecheck(t, condition) ==
  /\ at[t] = "lock"
  /\ Enqueue(t)
  /\ UNCHANGED <<on, left>>

(* The test of the condition and the blocking, under the queue's lock. *)
WaitLock(t, condition) ==
  /\ at[t] = "lock"
  /\ IF condition THEN Goto(t, "take") /\ UNCHANGED <<waiting, timer>>
     ELSE Enqueue(t)
  /\ UNCHANGED <<on, left>>

(* Running again after uk_sched_yield. *)
WaitResumed(t, condition) ==
  /\ at[t] = "resumed"
  /\ Goto(t, IF condition \/ Late(t) THEN "take" ELSE "lock")
  /\ UNCHANGED <<on, waiting, left, timer>>

(* Where the threads stand once all waiters of q are woken. *)
Woken(q) == [u \in Thread |-> IF u \in waiting[q] THEN "resumed" ELSE at[u]]

(* The rest of uk_waitq_wake_up: the queue is emptied, the timers deleted. *)
EmptyQueue(q) ==
  /\ waiting' = [waiting EXCEPT ![q] = {}]
  /\ timer' = [u \in Thread |-> IF u \in waiting[q] THEN "off" ELSE timer[u]]

(* The timer of t expires: uk_sched_thread_timeout wakes the whole queue.   *)
(* The tick counter lags behind the clock, so the timer may expire within   *)
(* the last tick before the deadline.                                       *)
Expire(t) ==
  /\ timer[t] = "armed" /\ left[t] <= 1
  /\ at' = Woken(on[t])
  /\ EmptyQueue(on[t])
  /\ UNCHANGED <<on, left>>

(* A tick passes. *)
Clock ==
  /\ \E t \in Thread : left[t] # Forever /\ left[t] >= 0
  /\ left' = [t \in Thread |->
                IF left[t] = Forever \/ left[t] = -1 THEN left[t] ELSE left[t] - 1]
  /\ UNCHANGED <<at, on, waiting, timer>>

(* The positions inside the waiting loop. *)
WaitAt == {"idle", "test", "lock", "blocked", "resumed", "take"}
=============================================================================
