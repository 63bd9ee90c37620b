------------------------------- MODULE RwLock ------------------------------
(***************************************************************************)
(* The reader-writer lock of lib/uklock/rwlock.c, on two wait queues.  Its *)
(* operations keep their counters under a spin lock, rwl->sl, and wake the *)
(* waiters after releasing it.  uk_spin_lock is empty in a uniprocessor    *)
(* build and leaves interrupts enabled: whether a thread can be preempted  *)
(* between two accesses of such a section is a constant of the model.      *)
(***************************************************************************)
EXTENDS WaitEvent, FiniteSets

CONSTANTS
  shared,       \* rwl->shared
  exclusive,    \* rwl->exclusive
  Spin,         \* whether rwl->sl keeps other threads out of a section
  Null          \* no thread

ASSUME RwLockAssumption ==
  /\ Queue = {shared, exclusive} /\ shared # exclusive
  /\ Spin \in BOOLEAN /\ Null \notin Thread
  /\ IsFiniteSet(Thread)

VARIABLES
  sl,               \* rwl->sl: the thread inside a section, where it excludes
  nactive,          \* the readers inside, or -1 for a writer
  npending_reads,   \* the readers on their way in
  npending_writes   \* the writers on their way in

counters == <<nactive, npending_reads, npending_writes>>
vars     == <<waitVars, sl, counters>>

Init ==
  /\ WaitInit
  /\ sl = Null
  /\ nactive = 0 /\ npending_reads = 0 /\ npending_writes = 0

Stay == UNCHANGED <<on, waiting, left, timer>>

Reads(t)  == on[t] = shared
Writes(t) == on[t] = exclusive

(* uk_spin_lock and uk_spin_unlock of rwl->sl *)
SpinLock(t) == IF Spin THEN sl = Null /\ sl' = t ELSE UNCHANGED sl
SpinUnlock  == sl' = Null

(* uk_rwlock_rlock: npending_reads++ *)
RLock(t) ==
  /\ at[t] = "idle"
  /\ SpinLock(t)
  /\ npending_reads' = npending_reads + 1
  /\ on' = [on EXCEPT ![t] = shared]
  /\ Goto(t, "pending")
  /\ UNCHANGED <<waiting, left, timer, nactive, npending_writes>>

(* Mutant: readers do not queue behind pending writers. *)
Behind_Nobody(t) ==
  /\ at[t] = "pending"
  /\ Goto(t, "test")
  /\ Stay /\ UNCHANGED <<sl, counters>>

(* The look at npending_writes, before the first wait *)
Behind(t) ==
  /\ at[t] = "pending"
  /\ Goto(t, IF npending_writes > 0 THEN "queue" ELSE "test")
  /\ Stay /\ UNCHANGED <<sl, counters>>

(* uk_waitq_wait_locked: woken, the reader goes on to the second wait. *)
QueueUp(t) ==
  /\ at[t] = "queue"
  /\ Enqueue(t)
  /\ SpinUnlock
  /\ UNCHANGED <<on, left, counters>>

(* uk_rwlock_wlock: npending_writes++ *)
WLock(t) ==
  /\ at[t] = "idle"
  /\ SpinLock(t)
  /\ npending_writes' = npending_writes + 1
  /\ on' = [on EXCEPT ![t] = exclusive]
  /\ Goto(t, "test")
  /\ UNCHANGED <<waiting, left, timer, nactive, npending_reads>>

(* Mutant: a writer does not wait for the readers to leave. *)
Free_Shared(t) == nactive >= 0

(* The condition a reader or a writer waits for *)
Free(t) == IF Reads(t) THEN nactive >= 0 ELSE nactive = 0

(* uk_waitq_wait_event_locked: the section is left while the thread sleeps. *)
Waits(t) ==
  /\ \/ WaitTest(t, Free(t)) /\ UNCHANGED sl
     \/ WaitLock(t, Free(t)) /\ sl' = IF at'[t] = "blocked" THEN Null ELSE sl
     \/ WaitResumed(t, Free(t)) /\ SpinLock(t)
  /\ UNCHANGED counters

(* rlock: nactive++, then npending_reads-- *)
TakeShared(t) ==
  /\ Reads(t)
  /\ \/ /\ at[t] = "take" /\ Goto(t, "took")
        /\ nactive' = nactive + 1
        /\ UNCHANGED <<sl, npending_reads>>
     \/ /\ at[t] = "took" /\ Goto(t, "reading")
        /\ npending_reads' = npending_reads - 1
        /\ SpinUnlock /\ UNCHANGED nactive
  /\ Stay /\ UNCHANGED npending_writes

(* wlock: the assertions and npending_writes--, then nactive = -1 *)
TakeExclusive(t) ==
  /\ Writes(t)
  /\ \/ /\ at[t] = "take" /\ Goto(t, "took")
        /\ npending_writes > 0 /\ nactive = 0
        /\ npending_writes' = npending_writes - 1
        /\ UNCHANGED <<sl, nactive>>
     \/ /\ at[t] = "took" /\ Goto(t, "writing")
        /\ nactive' = -1
        /\ SpinUnlock /\ UNCHANGED npending_writes
  /\ Stay /\ UNCHANGED npending_reads

(* Mutant: the first reader to leave resets the counter. *)
Unlock_Reset(t) ==
  /\ \/ at[t] = "reading" /\ nactive' = 0
     \/ at[t] = "writing" /\ nactive = -1 /\ nactive' = 0
  /\ SpinLock(t)
  /\ Goto(t, "left")
  /\ Stay /\ UNCHANGED <<npending_reads, npending_writes>>

(* uk_rwlock_runlock and uk_rwlock_wunlock: the assertion, the new nactive *)
Unlock(t) ==
  /\ \/ at[t] = "reading" /\ nactive > 0 /\ nactive' = nactive - 1
     \/ at[t] = "writing" /\ nactive = -1 /\ nactive' = 0
  /\ SpinLock(t)
  /\ Goto(t, "left")
  /\ Stay /\ UNCHANGED <<npending_reads, npending_writes>>

(* Mutant: a writer wakes readers only. *)
Choose_Readers(t) ==
  /\ at[t] = "left"
  /\ Goto(t, IF Reads(t)
             THEN IF nactive = 0 /\ npending_writes > 0 THEN "wake_one" ELSE "idle"
             ELSE IF npending_reads > 0 THEN "wake_all" ELSE "idle")
  /\ SpinUnlock
  /\ Stay /\ UNCHANGED counters

(* wake_writers and wake_readers, read under the lock: whom to wake *)
Choose(t) ==
  /\ at[t] = "left"
  /\ Goto(t, IF Reads(t)
             THEN IF nactive = 0 /\ npending_writes > 0 THEN "wake_one" ELSE "idle"
             ELSE IF npending_reads > 0 THEN "wake_all" ELSE "wake_one")
  /\ SpinUnlock
  /\ Stay /\ UNCHANGED counters

(* uk_waitq_wake_up(&rwl->shared) *)
WakeReaders(t) ==
  /\ at[t] = "wake_all"
  /\ at' = [Woken(shared) EXCEPT ![t] = "idle"]
  /\ EmptyQueue(shared)
  /\ UNCHANGED <<on, left, sl, counters>>

(* uk_waitq_wake_up_one(&rwl->exclusive): any of them, as priorities say *)
WakeWriter(t) ==
  /\ at[t] = "wake_one"
  /\ \/ /\ waiting[exclusive] = {}
        /\ Goto(t, "idle") /\ UNCHANGED waiting
     \/ \E w \in waiting[exclusive] :
          /\ at' = [at EXCEPT ![t] = "idle", ![w] = "resumed"]
          /\ waiting' = [waiting EXCEPT ![exclusive] = @ \ {w}]
  /\ UNCHANGED <<on, left, timer, sl, counters>>

(* The steps of a thread that is inside an operation *)
Run(t) ==
  \/ Behind(t) \/ QueueUp(t) \/ Waits(t)
  \/ TakeShared(t) \/ TakeExclusive(t)
  \/ Choose(t) \/ WakeReaders(t) \/ WakeWriter(t)

Next == \E t \in Thread : RLock(t) \/ WLock(t) \/ Unlock(t) \/ Run(t)

(* Threads take turns; a spin lock that is released again and again is      *)
(* taken in the end; whoever holds the lock gives it back.                  *)
Fairness == \A t \in Thread : WF_vars(Run(t)) /\ SF_vars(Waits(t)) /\ SF_vars(Unlock(t))

Spec == Init /\ [][Next]_vars /\ Fairness

-----------------------------------------------------------------------------
(* The positions inside a section *)
Section == {"pending", "queue", "test", "lock", "take", "took", "left"}

(* The variables stay in range; a thread is on a wait queue exactly while   *)
(* it sleeps there, no timer is started, and where rwl->sl excludes, it is  *)
(* held by the one thread inside a section.                                 *)
RwTypeOK ==
  /\ at \in [Thread -> WaitAt \cup Section
                         \cup {"reading", "writing", "wake_one", "wake_all"}]
  /\ on \in [Thread -> Queue]
  /\ waiting = [q \in Queue |-> {t \in Thread : at[t] = "blocked" /\ on[t] = q}]
  /\ left = [t \in Thread |-> Forever] /\ timer = [t \in Thread |-> "off"]
  /\ nactive \in Int /\ npending_reads \in Int /\ npending_writes \in Int
  /\ sl \in Thread \cup {Null}
  /\ \A t \in Thread : (sl = t) <=> (Spin /\ at[t] \in Section)

(* Only a single writer holds the lock, and no reader with it (rwlock.h),   *)
(* although the waking is done outside the section and woken threads find   *)
(* the lock taken by others that came later.                                *)
Exclusion ==
  \A t, u \in Thread : at[t] = "writing" /\ at[u] \in {"reading", "writing"} => t = u

(* The assertions of rwlock.c hold where they stand: a writer that goes in  *)
(* is counted as pending and finds the lock free, a reader that leaves is   *)
(* counted, a writer that leaves finds its -1.                              *)
AssertsHold ==
  \A t \in Thread :
    /\ at[t] = "take" /\ Writes(t) => npending_writes > 0 /\ nactive = 0
    /\ at[t] = "reading" => nactive > 0
    /\ at[t] = "writing" => nactive = -1

(* Nobody is forgotten: when the lock is free and a thread sleeps on either *)
(* queue, some other thread is inside an operation and will get to it.      *)
NobodyForgotten ==
  nactive = 0 /\ (waiting[shared] # {} \/ waiting[exclusive] # {}) =>
    \E t \in Thread : at[t] \notin {"idle", "blocked"}

(* Neither side starves the other: while a writer is pending new readers    *)
(* queue up, and in the end a writer gets in; and whenever readers sleep, a *)
(* writer's unlock wakes them all in the end.                               *)
NeitherStarves ==
  /\ (npending_writes > 0) ~> (nactive = -1)
  /\ (waiting[shared] # {}) ~> (waiting[shared] = {})
=============================================================================
