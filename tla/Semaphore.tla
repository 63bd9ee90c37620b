----------------------------- MODULE Semaphore -----------------------------
(***************************************************************************)
(* Counting semaphores (uk/semaphore.h).  A thread may call any operation  *)
(* on any semaphore; an interrupt handler may call uk_semaphore_up_isr.    *)
(***************************************************************************)
EXTENDS WaitEvent

CONSTANTS
  Timeouts,     \* the timeouts passed to uk_semaphore_down_to, in ticks
  MaxCount      \* bound: no semaphore is raised beyond this

ASSUME SemaphoreAssumption == Timeouts \subseteq Nat /\ MaxCount \in Nat

VARIABLE count  \* s->count

vars == <<waitVars, count>>

SemInit(initial) == WaitInit /\ count = initial

(* uk_semaphore_down and uk_semaphore_down_to: the call and the loop *)
Down(t, s)      == WaitCall(t, s, Forever) /\ UNCHANGED count
DownTo(t, s, d) == WaitCall(t, s, d) /\ UNCHANGED count

Waits(t) ==
  LET free == count[on[t]] > 0 IN
  /\ WaitTest(t, free) \/ WaitLock(t, free) \/ WaitResumed(t, free)
  /\ UNCHANGED count

(* Mutant: the token is taken without looking again. *)
TakeToken_Unchecked(t) ==
  /\ at[t] = "take"
  /\ Goto(t, "got")
  /\ count' = [count EXCEPT ![on[t]] = @ - 1]
  /\ left' = [left EXCEPT ![t] = Forever]
  /\ UNCHANGED <<on, waiting, timer>>

(* After the wait, with interrupts disabled: take a token, or report the    *)
(* timeout, or wait again.                                                  *)
TakeToken(t) ==
  /\ at[t] = "take"
  /\ \/ /\ count[on[t]] > 0
        /\ count' = [count EXCEPT ![on[t]] = @ - 1]
        /\ Goto(t, "got")
        /\ left' = [left EXCEPT ![t] = Forever]
     \/ /\ count[on[t]] <= 0 /\ Late(t)
        /\ Goto(t, "failed")
        /\ left' = [left EXCEPT ![t] = Forever]
        /\ UNCHANGED count
     \/ /\ count[on[t]] <= 0 /\ ~Late(t)
        /\ Goto(t, "test")
        /\ UNCHANGED <<left, count>>
  /\ UNCHANGED <<on, waiting, timer>>

(* uk_semaphore_down_try *)
DownTry(t, s) ==
  /\ at[t] = "idle"
  /\ on' = [on EXCEPT ![t] = s]
  /\ \/ count[s] > 0 /\ Goto(t, "got") /\ count' = [count EXCEPT ![s] = @ - 1]
     \/ count[s] <= 0 /\ Goto(t, "failed") /\ UNCHANGED count
  /\ UNCHANGED <<waiting, left, timer>>

(* uk_semaphore_up, first half: the count is raised. *)
UpCount(t, s) ==
  /\ Goto(t, "wake")
  /\ on' = [on EXCEPT ![t] = s]
  /\ count' = [count EXCEPT ![s] = @ + 1]
  /\ UNCHANGED <<waiting, left, timer>>

(* Mutant: the waiters are woken only if there was no token before. *)
UpWake_IfOne(t) ==
  /\ at[t] = "wake"
  /\ IF count[on[t]] = 1
     THEN at' = [Woken(on[t]) EXCEPT ![t] = "idle"] /\ EmptyQueue(on[t])
     ELSE Goto(t, "idle") /\ UNCHANGED <<waiting, timer>>
  /\ UNCHANGED <<on, left, count>>

(* uk_semaphore_up, second half: uk_waitq_wake_up. *)
UpWake(t) ==
  /\ at[t] = "wake"
  /\ at' = [Woken(on[t]) EXCEPT ![t] = "idle"]
  /\ EmptyQueue(on[t])
  /\ UNCHANGED <<on, left, count>>

(* uk_semaphore_up_isr, all of it inside an interrupt. *)
UpIsr(s) ==
  /\ count' = [count EXCEPT ![s] = @ + 1]
  /\ at' = Woken(s)
  /\ EmptyQueue(s)
  /\ UNCHANGED <<on, left>>

(* The caller of an operation goes on. *)
Return(t) ==
  /\ at[t] \in {"got", "failed"}
  /\ Goto(t, "idle")
  /\ UNCHANGED <<on, waiting, left, timer, count>>

-----------------------------------------------------------------------------
Init == \E initial \in [Queue -> 0..MaxCount] : SemInit(initial)

Call(t) ==
  \E s \in Queue :
    \/ Down(t, s) \/ DownTry(t, s)
    \/ \E d \in Timeouts : DownTo(t, s, d)
    \/ at[t] = "idle" /\ count[s] < MaxCount /\ UpCount(t, s)

(* A thread inside an operation *)
Run(t) == Waits(t) \/ TakeToken(t) \/ UpWake(t) \/ Return(t)

Timer(t) == Expire(t) /\ UNCHANGED count

Tick == Clock /\ UNCHANGED count

Isr == \E s \in Queue : count[s] < MaxCount /\ UpIsr(s)

Next ==
  \/ \E t \in Thread : Call(t) \/ Run(t) \/ Timer(t)
  \/ Tick \/ Isr

(* Threads of one priority take turns, timers expire and the clock runs. *)
Fairness ==
  /\ \A t \in Thread : WF_vars(Run(t)) /\ WF_vars(Timer(t))
  /\ WF_vars(Tick)

Spec == Init /\ [][Next]_vars /\ Fairness

-----------------------------------------------------------------------------
(* A count never falls below zero, however many waiters one token wakes,    *)
(* and a thread is on a wait queue exactly while it is blocked there.       *)
TypeOK ==
  /\ at \in [Thread -> WaitAt \cup {"got", "failed", "wake"}]
  /\ on \in [Thread -> Queue]
  /\ waiting = [q \in Queue |-> {t \in Thread : at[t] = "blocked" /\ on[t] = q}]
  /\ left \in [Thread -> Int \cup {Forever}]
  /\ timer \in [Thread -> {"off", "armed", "never"}]
  /\ count \in [Queue -> Nat]

(* No wake-up is lost: while a token is there and a thread sleeps on the    *)
(* queue of the semaphore, the uk_semaphore_up that brought a token has yet *)
(* to call uk_waitq_wake_up.  (wait.h tests the condition again under the   *)
(* queue's lock; uk_semaphore_up raises the count before it wakes.)         *)
NoLostWakeup ==
  \A s \in Queue : count[s] > 0 /\ waiting[s] # {} =>
    \E t \in Thread : at[t] = "wake" /\ on[t] = s

(* Sleepers and a free token do not stay together: the sleepers are woken   *)
(* or the token is taken.                                                   *)
TokenReachesWaiter ==
  \A s \in Queue : (count[s] > 0 /\ waiting[s] # {}) ~> (count[s] = 0 \/ waiting[s] = {})

(* uk_semaphore_down_to returns, with a token or with __NSEC_MAX. *)
DownToReturns == \A t \in Thread : (left[t] # Forever) ~> (left[t] = Forever)
=============================================================================
