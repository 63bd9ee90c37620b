------------------------------- MODULE Mutex -------------------------------
(***************************************************************************)
(* A mutex (uk/mutex.h), recursive or not, without the optional metrics.   *)
(* Nothing but the compare-and-exchange and the wait queue's own lock      *)
(* protects it: a thread may be preempted between any two of its accesses. *)
(***************************************************************************)
EXTENDS WaitEvent

CONSTANTS
  wait,         \* m->wait
  Recursive,    \* UK_MUTEX_CONFIG_RECURSE
  MaxDepth,     \* bound: locks of a recursive mutex by its owner
  Null          \* no owner

ASSUME MutexAssumption ==
  /\ wait \in Queue /\ Recursive \in BOOLEAN
  /\ MaxDepth \in Nat /\ Null \notin Thread

VARIABLES
  owner,        \* m->owner
  lock_count    \* m->lock_count

lockVars  == <<owner, lock_count>>
mutexVars == <<waitVars, lockVars>>

MutexInit ==
  /\ WaitInit
  /\ owner = Null /\ lock_count = 0

Stay == UNCHANGED <<on, waiting, left, timer>>

(* uk_mutex_lock by a thread that does not own the mutex *)
Lock(t) == WaitCall(t, wait, Forever) /\ UNCHANGED lockVars

(* uk_waitq_wait_event(&m->wait, m->owner == NULL) *)
MutexWaits(t) ==
  LET free == owner = Null IN
  /\ WaitTest(t, free) \/ WaitLock(t, free) \/ WaitResumed(t, free)
  /\ UNCHANGED lockVars

(* Mutant: the owner is set without comparing. *)
Exchange_Blind(t) ==
  /\ at[t] \in {"take", "try"}
  /\ owner' = t
  /\ Goto(t, "won")
  /\ Stay /\ UNCHANGED lock_count

(* uk_compare_exchange_sync: the owner, or back to waiting (or to failing) *)
Exchange(t) ==
  /\ at[t] \in {"take", "try"}
  /\ \/ owner = Null /\ owner' = t /\ Goto(t, "won")
     \/ owner # Null /\ at[t] = "take" /\ Goto(t, "test") /\ UNCHANGED owner
     \/ owner # Null /\ at[t] = "try" /\ Goto(t, "idle") /\ UNCHANGED owner
  /\ Stay /\ UNCHANGED lock_count

(* m->lock_count = 1 *)
Own(t) ==
  /\ at[t] = "won"
  /\ lock_count' = 1
  /\ Goto(t, "held")
  /\ Stay /\ UNCHANGED owner

(* uk_mutex_lock or uk_mutex_trylock by the owner of a recursive mutex *)
Relock(t) ==
  /\ at[t] = "held" /\ Recursive
  /\ lock_count < MaxDepth
  /\ lock_count' = lock_count + 1
  /\ Stay /\ UNCHANGED <<at, owner>>

(* uk_mutex_trylock by another thread: the first look at the owner *)
TryLock(t) ==
  /\ at[t] = "idle"
  /\ Goto(t, IF owner = Null THEN "try" ELSE "idle")
  /\ Stay /\ UNCHANGED lockVars

(* Mutant: the last unlock leaves the count as it is. *)
Unlock_NoDecrement(t) ==
  /\ at[t] = "held"
  /\ lock_count' = IF lock_count = 1 THEN 1 ELSE lock_count - 1
  /\ Goto(t, IF lock_count = 1 THEN "release" ELSE "held")
  /\ Stay /\ UNCHANGED owner

(* uk_mutex_unlock: --m->lock_count *)
Unlock(t) ==
  /\ at[t] = "held"
  /\ lock_count' = lock_count - 1
  /\ Goto(t, IF lock_count' = 0 THEN "release" ELSE "held")
  /\ Stay /\ UNCHANGED owner

(* m->owner = NULL *)
Release(t) ==
  /\ at[t] = "release"
  /\ owner' = Null
  /\ Goto(t, "wake")
  /\ Stay /\ UNCHANGED lock_count

(* Mutant: nobody is woken. *)
Wake_None(t) ==
  /\ at[t] = "wake"
  /\ Goto(t, "idle")
  /\ Stay /\ UNCHANGED lockVars

(* uk_waitq_wake_up(&m->wait) *)
Wake(t) ==
  /\ at[t] = "wake"
  /\ at' = [Woken(wait) EXCEPT ![t] = "idle"]
  /\ EmptyQueue(wait)
  /\ UNCHANGED <<on, left, lockVars>>

(* The steps of a thread that is inside an operation or owns the mutex *)
MutexRun(t) ==
  \/ MutexWaits(t) \/ Exchange(t) \/ Own(t)
  \/ Unlock(t) \/ Release(t) \/ Wake(t)

MutexNext == \E t \in Thread : Lock(t) \/ TryLock(t) \/ Relock(t) \/ MutexRun(t)

(* Threads of one priority take turns, and an owner unlocks as often as it  *)
(* has locked.                                                              *)
MutexFairness ==
  \A t \in Thread :
    WF_mutexVars(MutexRun(t)) /\ SF_mutexVars(Unlock(t) /\ lock_count = 1)

MutexSpec == MutexInit /\ [][MutexNext]_mutexVars /\ MutexFairness

-----------------------------------------------------------------------------
(* The positions of a thread between winning and giving up the mutex *)
Inside == {"won", "held", "release"}

(* The variables stay in range; a thread is on the wait queue exactly while *)
(* it is blocked, and no timer is ever started.                             *)
MutexTypeOK ==
  /\ at \in [Thread -> WaitAt \cup Inside \cup {"try", "wake"}]
  /\ on \in [Thread -> Queue]
  /\ \A t \in Thread : at[t] \in WaitAt \ {"idle"} => on[t] = wait
  /\ waiting = [q \in Queue |-> {t \in Thread : at[t] = "blocked" /\ on[t] = q}]
  /\ left = [t \in Thread |-> Forever]
  /\ timer = [t \in Thread |-> "off"]
  /\ owner \in Thread \cup {Null}
  /\ lock_count \in Nat

(* One owner: a thread between its compare-and-exchange and m->owner = NULL *)
(* is the owner, so there is never a second one.                            *)
MutualExclusion == \A t \in Thread : at[t] \in Inside => owner = t

(* The assertions of the mutex hold where they stand: a new owner finds a   *)
(* lock_count of zero, and an owner that locks again or unlocks a positive  *)
(* one, although unlocking takes two stores.                                *)
CountMatches ==
  /\ \A t \in Thread : at[t] = "won" => lock_count = 0
  /\ \A t \in Thread : at[t] = "held" => lock_count > 0
  /\ owner = Null => lock_count = 0

(* While the mutex is free and a thread sleeps on its queue, the thread     *)
(* that unlocked has yet to call uk_waitq_wake_up.                          *)
NoSleeperWhenFree ==
  owner = Null /\ waiting[wait] # {} => \E t \in Thread : at[t] = "wake"

(* The threads asleep on the mutex are woken, as long as owners unlock. *)
WaitersWoken == (waiting[wait] # {}) ~> (waiting[wait] = {})
=============================================================================
