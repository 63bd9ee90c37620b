----------------------------- MODULE SyncProofs -----------------------------
(***************************************************************************)
(* Proofs about semaphores, mailboxes and mutexes, for any sets of threads *)
(* and queues.  The three share only WaitEvent; the theorems about each    *)
(* rest on the assumptions of its own module and those it extends.         *)
(***************************************************************************)
EXTENDS Mbox, Mutex, FiniteSetTheorems, TLAPS

-----------------------------------------------------------------------------
(***************************************************************************)
(* Semaphores: no wake-up is lost.                                         *)
(***************************************************************************)

(* The inductive invariant *)
SemInv == TypeOK /\ NoLostWakeup

(* A call that does not wait touches neither the queues nor, upwards, a     *)
(* count without announcing its wake-up.                                    *)
LEMMA CallInv ==
  ASSUME SemInv, NEW t \in Thread, Call(t)
  PROVE  SemInv'
<1> USE WaitAssumption, SemaphoreAssumption DEF SemInv
<1>1. PICK s \in Queue :
        \/ Down(t, s) \/ DownTry(t, s)
        \/ \E d \in Timeouts : DownTo(t, s, d)
        \/ at[t] = "idle" /\ count[s] < MaxCount /\ UpCount(t, s)
  BY DEF Call
<1>2. /\ waiting' = waiting /\ timer' = timer
      /\ at[t] = "idle" /\ on' = [on EXCEPT ![t] = s]
      /\ at' \in {[at EXCEPT ![t] = p] : p \in {"test", "got", "failed", "wake"}}
  BY <1>1 DEF Down, DownTry, DownTo, UpCount, WaitCall, Goto
<1>3. left' \in [Thread -> Int \cup {Forever}]
  BY <1>1 DEF TypeOK, Down, DownTry, DownTo, UpCount, WaitCall
<1>4. count' \in [Queue -> Nat]
  BY <1>1 DEF TypeOK, Down, DownTry, DownTo, UpCount
<1>5. TypeOK'
  <2>1. /\ at' \in [Thread -> WaitAt \cup {"got", "failed", "wake"}]
        /\ on' \in [Thread -> Queue]
        /\ \A u \in Thread : at'[u] = "blocked" <=> at[u] = "blocked"
        /\ \A u \in Thread : u # t => on'[u] = on[u]
    BY <1>2 DEF TypeOK, WaitAt
  <2>2. waiting = [q \in Queue |-> {u \in Thread : at'[u] = "blocked" /\ on'[u] = q}]
    BY <1>2, <2>1 DEF TypeOK
  <2> QED  BY <1>2, <1>3, <1>4, <2>1, <2>2 DEF TypeOK
<1>6. NoLostWakeup'
  <2> SUFFICES ASSUME NEW r \in Queue, count'[r] > 0, waiting'[r] # {}
               PROVE  \E u \in Thread : at'[u] = "wake" /\ on'[u] = r
    BY DEF NoLostWakeup
  <2>1. CASE count[r] > 0
    BY <1>2, <2>1, SMTT(60) DEF NoLostWakeup, TypeOK
  <2>2. CASE ~(count[r] > 0)
    <3>1. at'[t] = "wake" /\ on'[t] = r
      BY <1>1, <1>2, <2>2 DEF TypeOK, Down, DownTry, DownTo, UpCount, Goto
    <3> QED  BY <3>1
  <2> QED  BY <2>1, <2>2
<1> QED  BY <1>5, <1>6

(* A step of the waiting loop keeps the invariant: a thread blocks only if  *)
(* it sees no token under the lock.                                         *)
LEMMA SemWaitsInv ==
  ASSUME SemInv, NEW t \in Thread, Waits(t)
  PROVE  SemInv'
<1> USE WaitAssumption DEF SemInv
<1>1. on' = on /\ left' = left /\ count' = count
      /\ at[t] \in {"test", "lock", "resumed"}
  BY DEF Waits, WaitTest, WaitLock, WaitResumed
<1>2. TypeOK'
  <2>1. at' \in [Thread -> WaitAt \cup {"got", "failed", "wake"}]
    BY DEF TypeOK, Waits, WaitTest, WaitLock, WaitResumed, Enqueue, Goto, WaitAt
  <2>2. timer' \in [Thread -> {"off", "armed", "never"}]
    BY DEF TypeOK, Waits, WaitTest, WaitLock, WaitResumed, Enqueue, StartTimer
  <2>3. waiting' = [q \in Queue |-> {u \in Thread : at'[u] = "blocked" /\ on'[u] = q}]
    <3>1. CASE Enqueue(t)
      <4>1. \A q \in Queue : waiting'[q] = waiting[q] \cup (IF q = on[t] THEN {t} ELSE {})
        BY <3>1 DEF TypeOK, Enqueue
      <4>2. \A u \in Thread : at'[u] = "blocked" <=> at[u] = "blocked" \/ u = t
        BY <3>1 DEF TypeOK, Enqueue, Goto
      <4>3. waiting' = [q \in Queue |-> waiting'[q]]
        BY <3>1 DEF TypeOK, Enqueue
      <4> QED  BY <1>1, <4>1, <4>2, <4>3 DEF TypeOK
    <3>2. CASE ~Enqueue(t)
      <4>1. waiting' = waiting
        BY <3>2 DEF Waits, WaitTest, WaitLock, WaitResumed
      <4>2. \A u \in Thread : at'[u] = "blocked" <=> at[u] = "blocked"
        BY <1>1, <3>2 DEF TypeOK, Waits, WaitTest, WaitLock, WaitResumed, Goto
      <4> QED  BY <1>1, <4>1, <4>2 DEF TypeOK
    <3> QED  BY <3>1, <3>2
  <2> QED  BY <1>1, <2>1, <2>2, <2>3 DEF TypeOK
<1>3. NoLostWakeup'
  <2> SUFFICES ASSUME NEW r \in Queue, count'[r] > 0, waiting'[r] # {}
               PROVE  \E u \in Thread : at'[u] = "wake" /\ on'[u] = r
    BY DEF NoLostWakeup
  <2>1. waiting[r] # {}
    BY <1>1 DEF TypeOK, Waits, WaitTest, WaitLock, WaitResumed, Enqueue
  <2>2. PICK u \in Thread : at[u] = "wake" /\ on[u] = r
    BY <1>1, <2>1 DEF NoLostWakeup
  <2>3. at'[u] = "wake"
    BY <1>1, <2>2 DEF TypeOK, Waits, WaitTest, WaitLock, WaitResumed, Enqueue, Goto
  <2> QED  BY <1>1, <2>2, <2>3
<1> QED  BY <1>2, <1>3
(* uk_waitq_wake_up: once the waiters of q run, the queue holds none. *)
LEMMA EmptyQueueType ==
  ASSUME TypeOK, NEW q \in Queue, EmptyQueue(q), on' = on,
         \A u \in Thread : at'[u] = "blocked" <=> at[u] = "blocked" /\ u \notin waiting[q]
  PROVE  /\ waiting' = [r \in Queue |-> {u \in Thread : at'[u] = "blocked" /\ on'[u] = r}]
         /\ timer' \in [Thread -> {"off", "armed", "never"}]
         /\ waiting'[q] = {}
         /\ \A r \in Queue \ {q} : waiting'[r] = waiting[r]
<1>1. \A r \in Queue : waiting'[r] = IF r = q THEN {} ELSE waiting[r]
  BY DEF TypeOK, EmptyQueue
<1>2. waiting' = [r \in Queue |-> waiting'[r]]
  BY DEF TypeOK, EmptyQueue
<1>3. \A r \in Queue : waiting'[r] = {u \in Thread : at'[u] = "blocked" /\ on'[u] = r}
  <2> SUFFICES ASSUME NEW r \in Queue
               PROVE  waiting'[r] = {u \in Thread : at'[u] = "blocked" /\ on'[u] = r}
    OBVIOUS
  <2>1. waiting[r] = {u \in Thread : at[u] = "blocked" /\ on[u] = r}
    BY DEF TypeOK
  <2>2. waiting[q] = {u \in Thread : at[u] = "blocked" /\ on[u] = q}
    BY DEF TypeOK
  <2>3. CASE r = q
    <3>1. \A u \in Thread : ~(at'[u] = "blocked" /\ on'[u] = r)
      BY <2>2, <2>3
    <3> QED  BY <1>1, <2>3, <3>1
  <2>4. CASE r # q
    <3>1. \A u \in Thread : on[u] = r => u \notin waiting[q]
      BY <2>2, <2>4
    <3> QED  BY <1>1, <2>1, <2>4, <3>1
  <2> QED  BY <2>3, <2>4
<1>4. timer' \in [Thread -> {"off", "armed", "never"}]
  BY DEF TypeOK, EmptyQueue
<1> QED  BY <1>1, <1>2, <1>3, <1>4

(* A wake-up of q, by a semaphore's user, a timer or an interrupt, keeps    *)
(* the invariant: what it leaves asleep sleeps on other queues.             *)
LEMMA SemWakeInv ==
  ASSUME SemInv, NEW q \in Queue, EmptyQueue(q), on' = on,
         at' \in [Thread -> WaitAt \cup {"got", "failed", "wake"}],
         left' = left, count' \in [Queue -> Nat],
         \A r \in Queue \ {q} : count'[r] = count[r],
         \A u \in Thread : at'[u] = "blocked" <=> at[u] = "blocked" /\ u \notin waiting[q],
         \A u \in Thread : at[u] = "wake" /\ on[u] # q => at'[u] = "wake"
  PROVE  SemInv'
<1> USE DEF SemInv
<1>1. /\ waiting' = [r \in Queue |-> {u \in Thread : at'[u] = "blocked" /\ on'[u] = r}]
      /\ timer' \in [Thread -> {"off", "armed", "never"}]
      /\ waiting'[q] = {}
      /\ \A r \in Queue \ {q} : waiting'[r] = waiting[r]
  BY EmptyQueueType
<1>2. TypeOK'
  BY <1>1 DEF TypeOK
<1>3. NoLostWakeup'
  BY <1>1 DEF NoLostWakeup
<1> QED  BY <1>2, <1>3

(* Taking a token, failing and returning keep the invariant. *)
LEMMA SemTakeInv ==
  ASSUME SemInv, NEW t \in Thread, TakeToken(t) \/ Return(t)
  PROVE  SemInv'
<1> USE WaitAssumption DEF SemInv
<1>1. /\ UNCHANGED <<on, waiting, timer>>
      /\ at[t] \in {"take", "got", "failed"}
  BY DEF TakeToken, Return
<1>2. /\ at' \in [Thread -> WaitAt \cup {"got", "failed", "wake"}]
      /\ \A u \in Thread : at'[u] \in {"blocked", "wake"} \/ at[u] \in {"blocked", "wake"}
                             => at'[u] = at[u]
  BY <1>1 DEF TypeOK, TakeToken, Return, Goto, WaitAt
<1>3. left' \in [Thread -> Int \cup {Forever}]
  BY DEF TypeOK, TakeToken, Return
<1>4. /\ count' \in [Queue -> Nat]
      /\ \A s \in Queue : count'[s] <= count[s]
  BY DEF TypeOK, TakeToken, Return
<1>5. waiting = [q \in Queue |-> {u \in Thread : at'[u] = "blocked" /\ on[u] = q}]
  BY <1>2 DEF TypeOK
<1>6. TypeOK'
  BY <1>1, <1>2, <1>3, <1>4, <1>5 DEF TypeOK
<1>7. NoLostWakeup'
  <2> SUFFICES ASSUME NEW r \in Queue, count'[r] > 0, waiting'[r] # {}
               PROVE  \E u \in Thread : at'[u] = "wake" /\ on'[u] = r
    BY DEF NoLostWakeup
  <2>1. count[r] > 0 /\ waiting[r] # {}
    BY <1>1, <1>4 DEF TypeOK
  <2> QED  BY <1>1, <1>2, <2>1 DEF NoLostWakeup
<1> QED  BY <1>6, <1>7

(* The invariant holds throughout. *)
THEOREM SemaphoreInvariant == Spec => []SemInv
<1>1. Init => SemInv
  <2>1. (CHOOSE q \in Queue : TRUE) \in Queue
    BY WaitAssumption
  <2> SUFFICES ASSUME Init PROVE SemInv
    OBVIOUS
  <2>2. /\ \A q \in Queue : waiting[q] = {}
        /\ \A t \in Thread : at[t] = "idle"
        /\ waiting = [q \in Queue |-> {}]
    BY DEF Init, SemInit, WaitInit
  <2>3. waiting = [q \in Queue |-> {t \in Thread : at[t] = "blocked" /\ on[t] = q}]
    BY <2>2
  <2>4. TypeOK
    <3>1. on \in [Thread -> Queue]
      BY <2>1 DEF Init, SemInit, WaitInit
    <3>2. count \in [Queue -> Nat]
      BY SemaphoreAssumption DEF Init, SemInit
    <3>3. left \in [Thread -> Int \cup {Forever}]
      BY DEF Init, SemInit, WaitInit
    <3>4. /\ at \in [Thread -> WaitAt \cup {"got", "failed", "wake"}]
          /\ timer \in [Thread -> {"off", "armed", "never"}]
      BY DEF Init, SemInit, WaitInit, WaitAt
    <3> QED  BY <2>3, <3>1, <3>2, <3>3, <3>4 DEF TypeOK
  <2> QED  BY <2>2, <2>4 DEF SemInv, NoLostWakeup
<1>2. SemInv /\ [Next]_vars => SemInv'
  <2> SUFFICES ASSUME SemInv, [Next]_vars PROVE SemInv'
    OBVIOUS
  <2> USE DEF SemInv
  <2>1. ASSUME NEW t \in Thread, Call(t) \/ Waits(t) \/ TakeToken(t) \/ Return(t)
        PROVE  SemInv'
    BY <2>1, CallInv, SemWaitsInv, SemTakeInv
  <2>2. ASSUME NEW t \in Thread, UpWake(t) PROVE SemInv'
    <3>1. on[t] \in Queue /\ EmptyQueue(on[t]) /\ on' = on /\ left' = left /\ count' = count
      BY <2>2 DEF TypeOK, UpWake
    <3>2. /\ at' \in [Thread -> WaitAt \cup {"got", "failed", "wake"}]
          /\ \A u \in Thread : at'[u] = "blocked" <=> at[u] = "blocked" /\ u \notin waiting[on[t]]
          /\ \A u \in Thread : at[u] = "wake" /\ on[u] # on[t] => at'[u] = "wake"
      BY <2>2, <3>1 DEF TypeOK, UpWake, Woken, WaitAt
    <3> QED  BY <3>1, <3>2, SemWakeInv DEF TypeOK
  <2>3. ASSUME NEW t \in Thread, Timer(t) PROVE SemInv'
    <3>1. on[t] \in Queue /\ EmptyQueue(on[t]) /\ on' = on /\ left' = left /\ count' = count
      BY <2>3 DEF TypeOK, Timer, Expire
    <3>2. /\ at' \in [Thread -> WaitAt \cup {"got", "failed", "wake"}]
          /\ \A u \in Thread : at'[u] = "blocked" <=> at[u] = "blocked" /\ u \notin waiting[on[t]]
          /\ \A u \in Thread : at[u] = "wake" /\ on[u] # on[t] => at'[u] = "wake"
      BY <2>3, <3>1 DEF TypeOK, Timer, Expire, Woken, WaitAt
    <3> QED  BY <3>1, <3>2, SemWakeInv DEF TypeOK
  <2>4. ASSUME NEW s \in Queue, UpIsr(s) PROVE SemInv'
    <3>1. /\ EmptyQueue(s) /\ on' = on /\ left' = left
          /\ count' \in [Queue -> Nat] /\ \A r \in Queue \ {s} : count'[r] = count[r]
      BY <2>4 DEF TypeOK, UpIsr
    <3>2. /\ at' \in [Thread -> WaitAt \cup {"got", "failed", "wake"}]
          /\ \A u \in Thread : at'[u] = "blocked" <=> at[u] = "blocked" /\ u \notin waiting[s]
          /\ \A u \in Thread : at[u] = "wake" /\ on[u] # s => at'[u] = "wake"
      BY <2>4 DEF TypeOK, UpIsr, Woken, WaitAt
    <3> QED  BY <3>1, <3>2, SemWakeInv
  <2>5. CASE Tick
    <3>1. UNCHANGED <<at, on, waiting, timer, count>>
      BY <2>5 DEF Tick, Clock
    <3>2. left' \in [Thread -> Int \cup {Forever}]
      BY <2>5 DEF TypeOK, Tick, Clock
    <3> QED  BY <3>1, <3>2 DEF TypeOK, NoLostWakeup
  <2>6. CASE UNCHANGED vars
    BY <2>6 DEF TypeOK, NoLostWakeup, vars, waitVars
  <2> QED  BY <2>1, <2>2, <2>3, <2>4, <2>5, <2>6 DEF Next, Run, Isr
<1> QED  BY <1>1, <1>2, PTL DEF Spec

(* No count of a semaphore falls below zero, and a thread sleeps on a queue *)
(* exactly while it is blocked on it.                                       *)
THEOREM SemaphoreTypes == Spec => []TypeOK
BY SemaphoreInvariant, PTL DEF SemInv

(* No wake-up of a semaphore is lost, with any number of threads and        *)
(* semaphores, timeouts and interrupts included.                            *)
THEOREM SemaphoreWakeups == Spec => []NoLostWakeup
BY SemaphoreInvariant, PTL DEF SemInv

-----------------------------------------------------------------------------
(***************************************************************************)
(* Mailboxes: their assertions hold, and they are the queue of Fifo, for   *)
(* any messages and any size.                                              *)
(***************************************************************************)

(* The messages in the ring *)
Fill == IF writepos >= readpos THEN writepos - readpos ELSE writepos - readpos + len

(* The threads at a point of an operation on s *)
Holds(p, s) == {t \in Thread : at[t] = p /\ on[t] = s}

(* A token of readsem for every message, a token of writesem for every      *)
(* other slot but one: counted by the semaphore, in the hands of a thread   *)
(* that has yet to use it, or about to be given by one that has.            *)
TokenInv ==
  /\ count[readsem] + Cardinality(Holds("got", readsem))
                    + Cardinality(Holds("up", writesem)) = Fill
  /\ count[writesem] + Cardinality(Holds("got", writesem))
                     + Cardinality(Holds("up", readsem)) = Size - Fill

(* What the semaphores need: who is on a queue sleeps there. *)
SleepInv ==
  /\ at \in [Thread -> WaitAt \cup {"got", "failed", "wake", "up"}]
  /\ on \in [Thread -> Queue]
  /\ count \in [Queue -> Nat]
  /\ waiting \in [Queue -> SUBSET Thread]
  /\ \A s \in Queue : \A t \in waiting[s] : at[t] = "blocked" /\ on[t] = s

(* The ring, and the message of a post that has not yet written it *)
RingInv ==
  /\ msgs \in [0..Size -> Msg \cup {None}]
  /\ readpos \in 0..Size /\ writepos \in 0..Size
  /\ got \in [Thread \cup {Handler} -> Msg \cup {None}]
  /\ sending \in [Thread -> Msg \cup {None}]
  /\ \A t \in Thread :
       /\ on[t] = writesem
       /\ at[t] \in {"test", "lock", "blocked", "resumed", "take", "got"}
       => sending[t] \in Msg

(* The part of the inductive invariant about the ring and the tokens *)
MboxInv == SleepInv /\ RingInv /\ TokenInv

(* An operation is on one of the mailbox's semaphores; the rest stay at 0.  *)
OwnSems ==
  /\ \A t \in Thread : at[t] # "idle" => on[t] \in {readsem, writesem}
  /\ \A s \in Queue \ {readsem, writesem} : count[s] = 0

-----------------------------------------------------------------------------
(* Positions advance by one and wrap at the end of the ring.                *)
LEMMA Wraps ==
  ASSUME NEW a \in Nat, a < 2 * len
  PROVE  a % len = IF a < len THEN a ELSE a - len
<1> USE MboxAssumption DEF len
<1>1. ASSUME NEW n \in Nat \ {0}, NEW b \in 0..(n - 1) PROVE b % n = b
  BY <1>1
<1>2. ASSUME NEW n \in Nat \ {0}, NEW b \in n..(2 * n - 1) PROVE b % n = b - n
  BY <1>2
<1>3. len \in Nat \ {0}
  OBVIOUS
<1> HIDE DEF len
<1>4. CASE a < len
  BY <1>1, <1>3, <1>4
<1>5. CASE ~ (a < len)
  BY <1>2, <1>3, <1>5
<1> QED  BY <1>4, <1>5

(* A step moves one thread t and wakes sleepers: the number of threads at a *)
(* point after the semaphores changes by t alone.                           *)
LEMMA HoldsMove ==
  ASSUME SleepInv, SleepInv', NEW t \in Thread,
         NEW p \in {"got", "up"}, NEW s \in Queue,
         \A u \in Thread \ {t} : \/ at'[u] = at[u] /\ on'[u] = on[u]
                                 \/ at[u] = "blocked" /\ at'[u] = "resumed"
  PROVE  /\ Cardinality(Holds(p, s)) \in Nat /\ Cardinality(Holds(p, s))' \in Nat
         /\ (t \in Holds(p, s) <=> t \in Holds(p, s)')
              => Cardinality(Holds(p, s))' = Cardinality(Holds(p, s))
         /\ t \notin Holds(p, s) /\ t \in Holds(p, s)'
              => Cardinality(Holds(p, s))' = Cardinality(Holds(p, s)) + 1
         /\ t \in Holds(p, s) /\ t \notin Holds(p, s)'
              => Cardinality(Holds(p, s))' = Cardinality(Holds(p, s)) - 1
<1> DEFINE S == Holds(p, s)  T == Holds(p, s)'
<1>1. S \in SUBSET Thread /\ T \in SUBSET Thread
  BY DEF Holds
<1>2. \A u \in Thread \ {t} : u \in S <=> u \in T
  BY DEF Holds
<1>3. IsFiniteSet(S) /\ IsFiniteSet(T)
  BY <1>1, FS_Subset, MboxAssumption
<1>4. Cardinality(S) \in Nat /\ Cardinality(T) \in Nat
  BY <1>3, FS_CardinalityType
<1> HIDE DEF S, T
<1>5. (t \in S <=> t \in T) => T = S
  BY <1>1, <1>2
<1>6. t \notin S /\ t \in T => T = S \cup {t}
  BY <1>1, <1>2
<1>7. t \in S /\ t \notin T => T = S \ {t}
  BY <1>1, <1>2
<1>8. /\ t \notin S => Cardinality(S \cup {t}) = Cardinality(S) + 1
      /\ t \in S => Cardinality(S \ {t}) = Cardinality(S) - 1
  BY <1>3, FS_AddElement, FS_RemoveElement, Zenon
<1> QED  BY <1>4, <1>5, <1>6, <1>7, <1>8, Zenon DEF S, T

(* A step in which nobody gets to or leaves such a point keeps the counts.  *)
LEMMA HoldsSame ==
  ASSUME SleepInv, NEW p \in {"got", "up"}, NEW s \in Queue,
         \A u \in Thread : \/ at'[u] = at[u] /\ on'[u] = on[u]
                           \/ at[u] \notin {"got", "up"} /\ at'[u] \notin {"got", "up"}
  PROVE  Holds(p, s)' = Holds(p, s)
BY DEF Holds

(* An empty mailbox keeps the invariant (uk_mbox_create).                   *)
LEMMA MboxInitInv == MboxInit => MboxInv
<1> SUFFICES ASSUME MboxInit PROVE MboxInv
  OBVIOUS
<1> USE MboxAssumption DEF MboxInit, SemInit, InitialCount
<1>1. /\ at = [t \in Thread |-> "idle"]
      /\ waiting = [q \in Queue |-> {}]
      /\ on = [t \in Thread |-> CHOOSE q \in Queue : TRUE]
  BY DEF WaitInit
<1>2. SleepInv
  <2>1. (CHOOSE q \in Queue : TRUE) \in Queue
    OBVIOUS
  <2> QED  BY <1>1, <2>1 DEF SleepInv, WaitAt
<1>3. RingInv
  BY <1>1 DEF RingInv
<1>4. \A p \in {"got", "up"}, s \in Queue : Holds(p, s) = {}
  BY <1>1 DEF Holds
<1>5. Fill = 0
  BY DEF Fill
<1>6. Cardinality({}) = 0
  BY FS_EmptySet
<1>7. count[readsem] = 0 /\ count[writesem] = Size
  OBVIOUS
<1>8. \A p \in {"got", "up"}, s \in Queue : Cardinality(Holds(p, s)) = 0
  BY <1>4, <1>6, Zenon
<1> HIDE DEF MboxInit
<1>9. TokenInv
  BY <1>5, <1>7, <1>8 DEF TokenInv
<1> QED  BY <1>2, <1>3, <1>9 DEF MboxInv

(* The steps inside the semaphores but for the taking of a token, and a     *)
(* failure, leave ring and tokens alone.                                    *)
LEMMA QuietInv ==
  ASSUME MboxInv, SleepInv', UNCHANGED <<msgs, readpos, writepos, count>>,
         got' \in [Thread \cup {Handler} -> Msg \cup {None}],
         sending' \in [Thread -> Msg \cup {None}],
         \A u \in Thread :
           /\ \/ at'[u] = at[u] /\ on'[u] = on[u]
              \/ at[u] \notin {"got", "up"} /\ at'[u] \notin {"got", "up"}
           /\ on'[u] = writesem
              /\ at'[u] \in {"test", "lock", "blocked", "resumed", "take", "got"}
              => sending'[u] \in Msg
  PROVE  MboxInv'
<1>1. RingInv'
  BY DEF MboxInv, RingInv
<1>2. \A p \in {"got", "up"}, s \in Queue : Holds(p, s)' = Holds(p, s)
  BY HoldsSame DEF MboxInv
<1>3. TokenInv'
  BY <1>2, MboxAssumption DEF MboxInv, TokenInv, Fill
<1> QED  BY <1>1, <1>3 DEF MboxInv

(* Taking a token of s keeps the tokens accounted for: the thread has it. *)
LEMMA TokenTaken ==
  ASSUME MboxInv, SleepInv', NEW t \in Thread, NEW s \in {readsem, writesem},
         UNCHANGED <<readpos, writepos>>,
         count' = [count EXCEPT ![s] = @ - 1],
         at[t] \notin {"got", "up"}, at'[t] = "got", on'[t] = s,
         \A u \in Thread \ {t} : at'[u] = at[u] /\ on'[u] = on[u]
  PROVE  TokenInv'
<1> USE MboxAssumption
<1>1. /\ t \in Holds("got", s)'
      /\ \A r \in Queue : t \notin Holds("got", r) /\ t \notin Holds("up", r)
      /\ \A r \in Queue : t \notin Holds("up", r)' /\ (r # s => t \notin Holds("got", r)')
  BY DEF Holds
<1>2. Cardinality(Holds("got", s))' = Cardinality(Holds("got", s)) + 1
  BY <1>1, HoldsMove, Zenon DEF MboxInv
<1>3. \A r \in Queue : Cardinality(Holds("up", r))' = Cardinality(Holds("up", r))
  BY <1>1, HoldsMove, Zenon DEF MboxInv
<1>4. \A r \in Queue \ {s} : Cardinality(Holds("got", r))' = Cardinality(Holds("got", r))
  BY <1>1, HoldsMove DEF MboxInv
<1>5. \A p \in {"got", "up"}, r \in Queue : Cardinality(Holds(p, r)) \in Nat
  BY HoldsMove DEF MboxInv
<1>6. Fill' = Fill
  BY DEF Fill
<1>7. /\ count \in [Queue -> Nat] /\ count'[s] = count[s] - 1
      /\ \A r \in Queue \ {s} : count'[r] = count[r]
  BY DEF MboxInv, SleepInv
<1>8. CASE s = readsem
  BY <1>2, <1>3, <1>4, <1>5, <1>6, <1>7, <1>8 DEF MboxInv, TokenInv
<1>9. CASE s = writesem
  BY <1>2, <1>3, <1>4, <1>5, <1>6, <1>7, <1>9 DEF MboxInv, TokenInv
<1> QED  BY <1>8, <1>9

(* Entering an operation keeps the invariant, whether it waits or tries.    *)
LEMMA EnterInv ==
  ASSUME MboxInv, NEW t \in Thread,
         RecvCall(t) \/ \E m \in Msg : PostCall(t, m)
  PROVE  MboxInv'
<1> USE MboxAssumption
<1>1. PICK s \in {readsem, writesem} :
        /\ Enter(t, s) /\ got' = got
        /\ \/ s = readsem /\ sending' = sending
           \/ s = writesem /\ \E m \in Msg : sending' = [sending EXCEPT ![t] = m]
  BY DEF RecvCall, PostCall
<1>2. /\ at[t] = "idle" /\ on' = [on EXCEPT ![t] = s] /\ waiting' = waiting
      /\ UNCHANGED <<msgs, readpos, writepos, got>>
  BY <1>1 DEF Enter, Down, DownTry, DownTo, WaitCall
<1>3. /\ sending' \in [Thread -> Msg \cup {None}]
      /\ \A u \in Thread \ {t} : sending'[u] = sending[u]
      /\ s = writesem => sending'[t] \in Msg
  BY <1>1 DEF MboxInv, RingInv
<1>4. PICK to \in {"test", "got", "failed"} :
        /\ at' = [at EXCEPT ![t] = to]
        /\ to = "got" => count[s] > 0 /\ count' = [count EXCEPT ![s] = @ - 1]
        /\ to # "got" => count' = count
  BY <1>1 DEF Enter, Down, DownTry, DownTo, WaitCall, Goto
<1>5. /\ at'[t] = to /\ on'[t] = s
      /\ \A u \in Thread \ {t} : at'[u] = at[u] /\ on'[u] = on[u]
  BY <1>2, <1>4 DEF MboxInv, SleepInv
<1>6. SleepInv'
  <2>1. count' \in [Queue -> Nat]
    BY <1>4 DEF MboxInv, SleepInv
  <2>2. \A r \in Queue : \A u \in waiting'[r] : at'[u] = "blocked" /\ on'[u] = r
    BY <1>2, <1>5 DEF MboxInv, SleepInv
  <2> QED  BY <1>2, <1>4, <2>1, <2>2 DEF MboxInv, SleepInv, WaitAt
<1>7. RingInv'
  BY <1>2, <1>3, <1>5, Zenon DEF MboxInv, RingInv
<1>8. CASE to = "got"
  BY <1>2, <1>4, <1>5, <1>6, <1>7, <1>8, TokenTaken, Zenon DEF MboxInv
<1>9. CASE to # "got"
  BY <1>2, <1>4, <1>5, <1>6, <1>7, <1>9, QuietInv, Zenon DEF RingInv
<1> QED  BY <1>8, <1>9

(* Waiting, taking a token and failing keep the invariant. *)
LEMMA TakesInv ==
  ASSUME MboxInv, OwnSems, NEW t \in Thread,
         \/ (Waits(t) \/ TakeToken(t)) /\ UNCHANGED <<boxVars, sending>>
         \/ Fail(t)
  PROVE  MboxInv'
<1> USE MboxAssumption
<1>1. /\ on' = on /\ UNCHANGED <<msgs, readpos, writepos, got>>
      /\ at[t] \in {"test", "lock", "resumed", "take", "failed"}
  BY Zenon DEF Waits, WaitTest, WaitLock, WaitResumed, TakeToken, Fail, boxVars
<1>2. PICK to \in {"lock", "take", "blocked", "got", "failed", "test", "idle"} :
        /\ at' = [at EXCEPT ![t] = to]
        /\ to = "got" => /\ count[on[t]] > 0
                         /\ count' = [count EXCEPT ![on[t]] = @ - 1]
        /\ to # "got" => count' = count
        /\ to = "blocked" => waiting' = [waiting EXCEPT ![on[t]] = @ \cup {t}]
        /\ to # "blocked" => waiting' = waiting
        /\ sending' = IF to = "idle" THEN [sending EXCEPT ![t] = None] ELSE sending
        /\ at[t] = "failed" => to = "idle"
  <2>1. CASE Waits(t) /\ UNCHANGED sending
    BY <2>1, Zenon DEF Waits, WaitTest, WaitLock, WaitResumed, Enqueue, Goto
  <2>2. CASE TakeToken(t) /\ UNCHANGED sending
    BY <2>2 DEF TakeToken, Goto
  <2>3. CASE Fail(t)
    BY <2>3 DEF Fail, Goto
  <2> QED  BY <2>1, <2>2, <2>3, Zenon
<1>3. /\ at'[t] = to /\ on[t] \in Queue /\ on[t] \in {readsem, writesem}
      /\ \A u \in Thread \ {t} : at'[u] = at[u] /\ on'[u] = on[u]
  BY <1>1, <1>2 DEF MboxInv, SleepInv, OwnSems
<1>4. SleepInv'
  <2>1. count' \in [Queue -> Nat]
    BY <1>2, <1>3 DEF MboxInv, SleepInv
  <2>2. waiting' \in [Queue -> SUBSET Thread]
    BY <1>2, <1>3 DEF MboxInv, SleepInv
  <2>3. \A r \in Queue : \A u \in waiting'[r] : at'[u] = "blocked" /\ on'[u] = r
    <3> SUFFICES ASSUME NEW r \in Queue, NEW u \in waiting'[r]
                 PROVE  at'[u] = "blocked" /\ on'[u] = r
      OBVIOUS
    <3>1. CASE u \in waiting[r]
      BY <1>1, <1>3, <3>1 DEF MboxInv, SleepInv
    <3>2. CASE u \notin waiting[r]
      BY <1>1, <1>2, <1>3, <3>2 DEF MboxInv, SleepInv
    <3> QED  BY <3>1, <3>2
  <2> QED  BY <1>1, <1>2, <2>1, <2>2, <2>3, Zenon DEF MboxInv, SleepInv, WaitAt
<1>5. RingInv'
  BY <1>1, <1>2, <1>3, Zenon DEF MboxInv, RingInv
<1>6. CASE to = "got"
  BY <1>1, <1>2, <1>3, <1>4, <1>5, <1>6, TokenTaken, Zenon DEF MboxInv
<1>7. CASE to # "got"
  BY <1>1, <1>2, <1>3, <1>4, <1>5, <1>7, QuietInv, Zenon DEF RingInv
<1> QED  BY <1>6, <1>7, Zenon

(* Waking the sleepers of q leaves the others asleep on their queues. *)
LEMMA WakeSleep ==
  ASSUME SleepInv, NEW q \in Queue, EmptyQueue(q), on' = on,
         at' \in [Thread -> WaitAt \cup {"got", "failed", "wake", "up"}],
         count' \in [Queue -> Nat],
         \A u \in Thread : at[u] = "blocked" /\ u \notin waiting[q] => at'[u] = "blocked"
  PROVE  SleepInv'
<1>1. /\ waiting' \in [Queue -> SUBSET Thread] /\ waiting'[q] = {}
      /\ \A r \in Queue \ {q} : waiting'[r] = waiting[r]
  BY DEF SleepInv, EmptyQueue
<1>2. \A r \in Queue : \A u \in waiting'[r] : at'[u] = "blocked" /\ on'[u] = r
  BY <1>1 DEF SleepInv
<1> QED  BY <1>1, <1>2 DEF SleepInv

(* A wake-up, a timeout and the clock keep the invariant. *)
LEMMA WakesInv ==
  ASSUME MboxInv,
         \/ \E t \in Thread : (UpWake(t) \/ Timer(t)) /\ UNCHANGED <<boxVars, sending>>
         \/ Passing
  PROVE  MboxInv'
<1> USE MboxAssumption
<1>1. /\ UNCHANGED <<msgs, readpos, writepos, got, sending, count, on>>
  BY Zenon DEF UpWake, Timer, Expire, Passing, Tick, Clock, boxVars
<1>2. CASE Passing
  <2>1. at' = at /\ waiting' = waiting
    BY <1>2 DEF Passing, Tick, Clock
  <2>2. SleepInv'
    BY <1>1, <2>1, Zenon DEF MboxInv, SleepInv
  <2> QED  BY <1>1, <2>1, <2>2, QuietInv DEF MboxInv, RingInv
<1>3. CASE \E t \in Thread : UpWake(t) \/ Timer(t)
  <2>1. PICK t \in Thread :
          /\ EmptyQueue(on[t])
          /\ \/ at[t] = "wake" /\ at' = [Woken(on[t]) EXCEPT ![t] = "idle"]
             \/ at' = Woken(on[t])
    BY <1>3 DEF UpWake, Timer, Expire
  <2>2. on[t] \in Queue /\ on' = on
    BY <1>1, Zenon DEF MboxInv, SleepInv
  <2>3. \A u \in Thread :
          \/ at'[u] = at[u]
          \/ at[u] = "blocked" /\ at'[u] = "resumed" /\ u \in waiting[on[t]]
          \/ at[u] = "wake" /\ at'[u] = "idle"
    <3> SUFFICES ASSUME NEW u \in Thread
                 PROVE  \/ at'[u] = at[u]
                        \/ at[u] = "blocked" /\ at'[u] = "resumed" /\ u \in waiting[on[t]]
                        \/ at[u] = "wake" /\ at'[u] = "idle"
      OBVIOUS
    <3>1. u \in waiting[on[t]] => at[u] = "blocked"
      BY <2>2, Zenon DEF MboxInv, SleepInv
    <3>2. CASE at' = Woken(on[t])
      BY <3>1, <3>2, Zenon DEF Woken
    <3>3. CASE at[t] = "wake" /\ at' = [Woken(on[t]) EXCEPT ![t] = "idle"]
      BY <3>1, <3>3, Zenon DEF Woken
    <3> QED  BY <2>1, <3>2, <3>3, Zenon
  <2>4. at' \in [Thread -> WaitAt \cup {"got", "failed", "wake", "up"}]
    BY <2>1, <2>2, <2>3 DEF MboxInv, SleepInv, Woken, WaitAt
  <2>5. SleepInv'
    BY <1>1, <2>1, <2>2, <2>3, <2>4, WakeSleep, SMTT(60) DEF MboxInv, SleepInv
  <2>6. \A u \in Thread :
          /\ \/ at'[u] = at[u] /\ on'[u] = on[u]
             \/ at[u] \notin {"got", "up"} /\ at'[u] \notin {"got", "up"}
          /\ on'[u] = writesem
             /\ at'[u] \in {"test", "lock", "blocked", "resumed", "take", "got"}
             => sending'[u] \in Msg
    BY <1>1, <2>2, <2>3 DEF MboxInv, RingInv
  <2> QED  BY <1>1, <2>5, <2>6, QuietInv, Zenon DEF MboxInv, RingInv
<1> QED  BY <1>2, <1>3

-----------------------------------------------------------------------------
(* A message more in the ring, where there is a free slot. *)
LEMMA PutFill ==
  ASSUME RingInv, NEW m, Put(m), readpos' = readpos, Fill < Size
  PROVE  /\ Fill \in Nat /\ Fill' = Fill + 1 /\ writepos' \in 0..Size
         /\ readpos # (writepos + 1) % len
<1> USE MboxAssumption DEF len
<1>1. readpos \in 0..Size /\ writepos \in 0..Size
  BY DEF RingInv
<1>2. (writepos + 1) % len = IF writepos = Size THEN 0 ELSE writepos + 1
  BY <1>1, Wraps
<1> QED  BY <1>1, <1>2 DEF Put, Fill

(* A message less in the ring, where there is one. *)
LEMMA GetFill ==
  ASSUME RingInv, NEW r, Get(r), writepos' = writepos, Fill > 0
  PROVE  /\ Fill \in Nat /\ Fill' = Fill - 1 /\ readpos' \in 0..Size
<1> USE MboxAssumption DEF len
<1>1. readpos \in 0..Size /\ writepos \in 0..Size
  BY DEF RingInv
<1>2. (readpos + 1) % len = IF readpos = Size THEN 0 ELSE readpos + 1
  BY <1>1, Wraps
<1> QED  BY <1>1, <1>2 DEF Get, Fill

(* The numbers in TokenInv are natural numbers.                             *)
LEMMA TokenTypes ==
  ASSUME MboxInv
  PROVE  /\ count[readsem] \in Nat /\ count[writesem] \in Nat
         /\ Fill \in 0..Size
         /\ \A p \in {"got", "up"}, s \in Queue :
              /\ Cardinality(Holds(p, s)) \in Nat
              /\ Holds(p, s) # {} => Cardinality(Holds(p, s)) > 0
<1> USE MboxAssumption
<1>1. \A p \in {"got", "up"}, s \in Queue : IsFiniteSet(Holds(p, s))
  BY FS_Subset DEF Holds
<1>2. \A p \in {"got", "up"}, s \in Queue :
        /\ Cardinality(Holds(p, s)) \in Nat
        /\ Holds(p, s) # {} => Cardinality(Holds(p, s)) > 0
  BY <1>1, FS_CardinalityType, FS_EmptySet
<1>3. count[readsem] \in Nat /\ count[writesem] \in Nat
  BY DEF MboxInv, SleepInv
<1>4. Fill \in 0..Size
  BY DEF MboxInv, RingInv, Fill, len
<1> QED  BY <1>2, <1>3, <1>4

(* A poster that has its token finds a free slot, a receiver a message; so  *)
(* does the interrupt handler that finds a token.                           *)
LEMMA TokenMeans ==
  ASSUME MboxInv
  PROVE  /\ \A t \in Thread : at[t] = "got" /\ on[t] = writesem => Fill < Size
         /\ \A t \in Thread : at[t] = "got" /\ on[t] = readsem => Fill > 0
         /\ count[writesem] > 0 => Fill < Size
         /\ count[readsem] > 0 => Fill > 0
<1> USE MboxAssumption, TokenTypes
<1>1. \A t \in Thread, s \in Queue : at[t] = "got" /\ on[t] = s => Holds("got", s) # {}
  BY DEF Holds
<1>2. /\ Holds("got", writesem) # {} \/ count[writesem] > 0 => Fill < Size
      /\ Holds("got", readsem) # {} \/ count[readsem] > 0 => Fill > 0
  <2> DEFINE g == Cardinality(Holds("got", writesem))  h == Cardinality(Holds("got", readsem))
             v == Cardinality(Holds("up", writesem))  w == Cardinality(Holds("up", readsem))
  <2>1. /\ g \in Nat /\ h \in Nat /\ v \in Nat /\ w \in Nat
        /\ Holds("got", writesem) # {} => g > 0
        /\ Holds("got", readsem) # {} => h > 0
    OBVIOUS
  <2>2. count[readsem] + h + v = Fill /\ count[writesem] + g + w = Size - Fill
    BY DEF MboxInv, TokenInv
  <2>3. Fill \in 0..Size /\ count[readsem] \in Nat /\ count[writesem] \in Nat
    OBVIOUS
  <2> HIDE TokenTypes DEF g, h, v, w
  <2>4. g > 0 \/ count[writesem] > 0 => Fill < Size
    BY <2>1, <2>2, <2>3
  <2>5. h > 0 \/ count[readsem] > 0 => Fill > 0
    BY <2>1, <2>2, <2>3
  <2> QED  BY <2>1, <2>4, <2>5, Zenon
<1> QED  BY <1>1, <1>2, Zenon

(* Writing a slot, reading one and giving the token on keep the invariant:  *)
(* every step moves one token from one term of TokenInv to another.         *)
LEMMA SlotInv ==
  ASSUME MboxInv, OwnSems, NEW t \in Thread, DoPost(t) \/ DoRecv(t) \/ DoUp(t)
  PROVE  MboxInv'
<1> USE MboxAssumption
<1>1. PICK q \in Queue, o \in Queue :
        /\ q = on[t] /\ o = (IF on[t] = writesem THEN readsem ELSE writesem) /\ o # q
        /\ (q = writesem /\ o = readsem) \/ (q = readsem /\ o = writesem)
  <2>1. on[t] \in {readsem, writesem}
    BY DEF OwnSems, DoPost, DoRecv, DoUp
  <2> QED  BY <2>1, Zenon
<1>2. /\ at \in [Thread -> WaitAt \cup {"got", "failed", "wake", "up"}]
      /\ on \in [Thread -> Queue] /\ count \in [Queue -> Nat]
      /\ waiting' = waiting
  BY Zenon DEF MboxInv, SleepInv, DoPost, DoRecv, DoUp, UpCount
<1>3. PICK to \in {"up", "wake"} :
        /\ at' = [at EXCEPT ![t] = to]
        /\ to = "up" => at[t] = "got" /\ on' = on /\ count' = count
        /\ to = "wake" => /\ at[t] = "up" /\ on' = [on EXCEPT ![t] = o]
                          /\ count' = [count EXCEPT ![o] = @ + 1]
                          /\ UNCHANGED <<msgs, readpos, writepos, sending>>
  BY <1>1 DEF DoPost, DoRecv, DoUp, UpCount, Goto
<1>4. /\ at'[t] = to
      /\ \A u \in Thread \ {t} : at'[u] = at[u] /\ on'[u] = on[u]
  BY <1>2, <1>3, Zenon
<1>5. SleepInv'
  <2>1. /\ at' \in [Thread -> WaitAt \cup {"got", "failed", "wake", "up"}]
        /\ on' \in [Thread -> Queue] /\ count' \in [Queue -> Nat]
    BY <1>1, <1>2, <1>3
  <2>2. \A r \in Queue : \A u \in waiting'[r] : at'[u] = "blocked" /\ on'[u] = r
    BY <1>2, <1>3, <1>4, SMTT(60) DEF MboxInv, SleepInv
  <2> QED  BY <1>2, <2>1, <2>2, Zenon DEF MboxInv, SleepInv
<1>6. \A p \in {"got", "up"}, s \in Queue :
        /\ Cardinality(Holds(p, s)) \in Nat
        /\ (t \in Holds(p, s) <=> t \in Holds(p, s)')
             => Cardinality(Holds(p, s))' = Cardinality(Holds(p, s))
        /\ t \notin Holds(p, s) /\ t \in Holds(p, s)'
             => Cardinality(Holds(p, s))' = Cardinality(Holds(p, s)) + 1
        /\ t \in Holds(p, s) /\ t \notin Holds(p, s)'
             => Cardinality(Holds(p, s))' = Cardinality(Holds(p, s)) - 1
  <2> TAKE p \in {"got", "up"}, s \in Queue
  <2>1. SleepInv
    BY DEF MboxInv
  <2>2. \A u \in Thread \ {t} : \/ at'[u] = at[u] /\ on'[u] = on[u]
                                \/ at[u] = "blocked" /\ at'[u] = "resumed"
    BY <1>4, Zenon
  <2> QED  BY <1>5, <2>1, <2>2, HoldsMove
<1>7. RingInv'
  <2>1. CASE DoPost(t)
    <3>1. sending[t] \in Msg /\ Fill < Size
      BY <2>1, TokenMeans, Zenon DEF DoPost, MboxInv, RingInv
    <3>2. writepos' \in 0..Size
      BY <2>1, <3>1, PutFill, Zenon DEF DoPost, MboxInv
    <3> QED  BY <1>3, <1>4, <2>1, <3>1, <3>2, Zenon DEF DoPost, Put, MboxInv, RingInv
  <2>2. CASE DoRecv(t)
    <3>1. Fill > 0
      BY <2>2, TokenMeans, Zenon DEF DoRecv
    <3>2. readpos' \in 0..Size
      BY <2>2, <3>1, GetFill, Zenon DEF DoRecv, MboxInv
    <3>3. got' \in [Thread \cup {Handler} -> Msg \cup {None}]
      BY <2>2, Zenon DEF DoRecv, Get, MboxInv, RingInv
    <3> QED  BY <1>3, <1>4, <2>2, <3>2, <3>3, Zenon DEF DoRecv, MboxInv, RingInv
  <2>3. CASE DoUp(t)
    BY <1>3, <1>4, <2>3, Zenon DEF DoUp, MboxInv, RingInv
  <2> QED  BY <2>1, <2>2, <2>3, Zenon
<1>8. /\ count[readsem] \in Nat /\ count[writesem] \in Nat /\ Fill \in 0..Size
  BY TokenTypes, Zenon
<1>c. /\ Cardinality(Holds("got", readsem)) \in Nat /\ Cardinality(Holds("got", writesem)) \in Nat
      /\ Cardinality(Holds("up", readsem)) \in Nat /\ Cardinality(Holds("up", writesem)) \in Nat
  BY <1>6, Zenon
<1>t. TokenInv
  BY Zenon DEF MboxInv
<1>9. TokenInv'
  <2>1. CASE DoPost(t)
    <3>1. Fill' = Fill + 1
      BY <2>1, TokenMeans, PutFill, Zenon DEF DoPost, MboxInv
    <3>2. /\ Cardinality(Holds("got", writesem))' = Cardinality(Holds("got", writesem)) - 1
          /\ Cardinality(Holds("up", writesem))' = Cardinality(Holds("up", writesem)) + 1
          /\ Cardinality(Holds("got", readsem))' = Cardinality(Holds("got", readsem))
          /\ Cardinality(Holds("up", readsem))' = Cardinality(Holds("up", readsem))
      <4>1. at[t] = "got" /\ on[t] = writesem /\ at'[t] = "up" /\ on'[t] = writesem
        BY <1>2, <2>1, Zenon DEF DoPost, Goto
      <4> QED  BY <1>6, <4>1, Zenon DEF Holds
    <3>3. count' = count
      BY <2>1, Zenon DEF DoPost
    <3> QED  BY <1>8, <1>c, <1>t, <3>1, <3>2, <3>3 DEF TokenInv
  <2>2. CASE DoRecv(t)
    <3>1. Fill' = Fill - 1
      BY <2>2, TokenMeans, GetFill, Zenon DEF DoRecv, MboxInv
    <3>2. /\ Cardinality(Holds("got", readsem))' = Cardinality(Holds("got", readsem)) - 1
          /\ Cardinality(Holds("up", readsem))' = Cardinality(Holds("up", readsem)) + 1
          /\ Cardinality(Holds("got", writesem))' = Cardinality(Holds("got", writesem))
          /\ Cardinality(Holds("up", writesem))' = Cardinality(Holds("up", writesem))
      <4>1. at[t] = "got" /\ on[t] = readsem /\ at'[t] = "up" /\ on'[t] = readsem
        BY <1>2, <2>2, Zenon DEF DoRecv, Goto
      <4> QED  BY <1>6, <4>1, Zenon DEF Holds
    <3>3. count' = count
      BY <2>2, Zenon DEF DoRecv
    <3> QED  BY <1>8, <1>c, <1>t, <3>1, <3>2, <3>3 DEF TokenInv
  <2>3. CASE DoUp(t)
    <3>1. Fill' = Fill
      BY <2>3, Zenon DEF DoUp, Fill
    <3>2. at[t] = "up" /\ at'[t] = "wake" /\ on'[t] = o /\ count' = [count EXCEPT ![o] = @ + 1]
      BY <1>1, <1>2, <2>3, Zenon DEF DoUp, UpCount, Goto
    <3>3. /\ t \in Holds("up", q) /\ t \notin Holds("up", o)
          /\ \A s \in Queue : t \notin Holds("up", s)'
          /\ \A s \in Queue : t \notin Holds("got", s) /\ t \notin Holds("got", s)'
      BY <1>1, <3>2, Zenon DEF Holds
    <3>4. count'[o] = count[o] + 1 /\ count'[q] = count[q]
      BY <1>1, <1>2, <3>2, Zenon
    <3>5. (q = writesem /\ o = readsem) \/ (q = readsem /\ o = writesem)
      BY <1>1, Zenon
    <3>6. /\ Cardinality(Holds("up", q))' = Cardinality(Holds("up", q)) - 1
          /\ Cardinality(Holds("up", o))' = Cardinality(Holds("up", o))
          /\ \A s \in Queue : Cardinality(Holds("got", s))' = Cardinality(Holds("got", s))
      BY <1>1, <1>6, <3>3, Zenon
    <3>7. CASE q = writesem /\ o = readsem
      <4>1. /\ Cardinality(Holds("up", writesem))' = Cardinality(Holds("up", writesem)) - 1
            /\ Cardinality(Holds("up", readsem))' = Cardinality(Holds("up", readsem))
            /\ Cardinality(Holds("got", writesem))' = Cardinality(Holds("got", writesem))
            /\ Cardinality(Holds("got", readsem))' = Cardinality(Holds("got", readsem))
            /\ count'[readsem] = count[readsem] + 1 /\ count'[writesem] = count[writesem]
        BY <3>4, <3>6, <3>7, Zenon
      <4>2. count'[readsem] + Cardinality(Holds("got", readsem))'
                          + Cardinality(Holds("up", writesem))' = Fill
        BY <1>8, <1>c, <1>t, <4>1 DEF TokenInv
      <4>3. count'[writesem] + Cardinality(Holds("got", writesem))'
                           + Cardinality(Holds("up", readsem))' = Size - Fill
        BY <1>8, <1>c, <1>t, <4>1 DEF TokenInv
      <4> QED  BY <3>1, <4>2, <4>3, Zenon DEF TokenInv
    <3>8. CASE q = readsem /\ o = writesem
      <4>1. /\ Cardinality(Holds("up", readsem))' = Cardinality(Holds("up", readsem)) - 1
            /\ Cardinality(Holds("up", writesem))' = Cardinality(Holds("up", writesem))
            /\ Cardinality(Holds("got", readsem))' = Cardinality(Holds("got", readsem))
            /\ Cardinality(Holds("got", writesem))' = Cardinality(Holds("got", writesem))
            /\ count'[writesem] = count[writesem] + 1 /\ count'[readsem] = count[readsem]
        BY <3>4, <3>6, <3>8, Zenon
      <4>2. count'[readsem] + Cardinality(Holds("got", readsem))'
                          + Cardinality(Holds("up", writesem))' = Fill
        BY <1>8, <1>c, <1>t, <4>1 DEF TokenInv
      <4>3. count'[writesem] + Cardinality(Holds("got", writesem))'
                           + Cardinality(Holds("up", readsem))' = Size - Fill
        BY <1>8, <1>c, <1>t, <4>1 DEF TokenInv
      <4> QED  BY <3>1, <4>2, <4>3, Zenon DEF TokenInv
    <3> QED  BY <3>5, <3>7, <3>8, Zenon
  <2> QED  BY <2>1, <2>2, <2>3
<1> QED  BY <1>5, <1>7, <1>9, Zenon DEF MboxInv

(* The interrupt handler's post and fetch keep the invariant. *)
LEMMA IsrInv ==
  ASSUME MboxInv, RecvIsr \/ \E m \in Msg : PostIsr(m)
  PROVE  MboxInv'
<1> USE MboxAssumption
<1>1. PICK q \in Queue :
        /\ EmptyQueue(q) /\ at' = Woken(q)
        /\ q = readsem => \E m \in Msg : PostIsr(m)
        /\ q = writesem => RecvIsr
  BY Zenon DEF PostIsr, RecvIsr
<1>2. /\ on' = on /\ sending' = sending
      /\ count \in [Queue -> Nat] /\ count' \in [Queue -> Nat]
  BY DEF PostIsr, RecvIsr, MboxInv, SleepInv
<1>3. \A u \in Thread : \/ at'[u] = at[u]
                        \/ at[u] = "blocked" /\ at'[u] = "resumed" /\ u \in waiting[q]
  BY <1>1, Zenon DEF Woken, MboxInv, SleepInv
<1>4. SleepInv'
  <2>1. at' \in [Thread -> WaitAt \cup {"got", "failed", "wake", "up"}]
    BY <1>1 DEF Woken, MboxInv, SleepInv, WaitAt
  <2> QED  BY <1>1, <1>2, <1>3, <2>1, WakeSleep, Zenon DEF MboxInv
<1>5. \A p \in {"got", "up"}, s \in Queue : Holds(p, s)' = Holds(p, s)
  BY <1>2, <1>3, HoldsSame, Zenon DEF MboxInv
<1>6. \A p \in {"got", "up"}, s \in Queue : Cardinality(Holds(p, s)) \in Nat
  BY TokenTypes, Zenon
<1>7. count[readsem] \in Nat /\ count[writesem] \in Nat /\ Fill \in 0..Size
  BY TokenTypes
<1>8. CASE \E m \in Msg : PostIsr(m)
  <2>1. PICK m \in Msg : PostIsr(m)
    BY <1>8, Zenon
  <2>2. Fill < Size
    BY <2>1, TokenMeans, Zenon DEF PostIsr
  <2>3. Fill' = Fill + 1 /\ writepos' \in 0..Size
    BY <2>1, <2>2, PutFill, Zenon DEF PostIsr, MboxInv
  <2>4. RingInv'
    BY <1>2, <1>3, <2>1, <2>3, Zenon DEF PostIsr, Put, MboxInv, RingInv
  <2>5. count'[readsem] = count[readsem] + 1 /\ count'[writesem] = count[writesem] - 1
    BY <1>2, <2>1 DEF PostIsr
  <2>6. TokenInv'
    BY <1>5, <1>6, <1>7, <2>3, <2>5 DEF MboxInv, TokenInv
  <2> QED  BY <1>4, <2>4, <2>6 DEF MboxInv
<1>9. CASE RecvIsr
  <2>1. Fill > 0
    BY <1>9, TokenMeans, Zenon DEF RecvIsr
  <2>2. Fill' = Fill - 1 /\ readpos' \in 0..Size
    BY <1>9, <2>1, GetFill, Zenon DEF RecvIsr, MboxInv
  <2>3. got' \in [Thread \cup {Handler} -> Msg \cup {None}]
    BY <1>9, Zenon DEF RecvIsr, Get, MboxInv, RingInv
  <2>4. RingInv'
    BY <1>2, <1>3, <1>9, <2>2, <2>3, Zenon DEF RecvIsr, MboxInv, RingInv
  <2>5. count'[readsem] = count[readsem] - 1 /\ count'[writesem] = count[writesem] + 1
    BY <1>2, <1>9, Zenon DEF RecvIsr
  <2>6. TokenInv'
    BY <1>5, <1>6, <1>7, <2>2, <2>5, SMTT(60) DEF MboxInv, TokenInv
  <2> QED  BY <1>4, <2>4, <2>6, Zenon DEF MboxInv
<1> QED  BY <1>8, <1>9, Zenon

-----------------------------------------------------------------------------
(* The ring as a sequence: as long as the ring is full, the i-th message in *)
(* the i-th slot from readpos on.                                           *)
LEMMA QueuedIs ==
  RingInv =>
         /\ Queued = [i \in 1..Fill |-> msgs[(readpos + i - 1) % len]]
         /\ Queued \in Seq(Msg \cup {None}) /\ Len(Queued) = Fill
         /\ Fill \in 0..Size
         /\ \A i \in 1..(Size + 1) :
              /\ (readpos + i - 1) % len \in 0..Size
              /\ (readpos + i - 1) % len
                   = IF readpos + i - 1 < len THEN readpos + i - 1 ELSE readpos + i - 1 - len
<1> USE MboxAssumption
<1> HAVE RingInv
<1>1. readpos \in 0..Size /\ writepos \in 0..Size /\ len = Size + 1
  BY DEF RingInv, len
<1>2. (writepos - readpos + len) % len = Fill /\ Fill \in 0..Size
  <2>1. writepos - readpos + len \in Nat /\ writepos - readpos + len < 2 * len
    BY <1>1
  <2>2. \A a \in Nat : a < 2 * len => a % len = IF a < len THEN a ELSE a - len
    BY Wraps
  <2>3. PICK a \in Nat : a = writepos - readpos + len
    BY <2>1
  <2>4. a % len = IF a < len THEN a ELSE a - len
    BY <2>1, <2>2, <2>3, Zenon
  <2>5. a % len = Fill /\ Fill \in 0..Size
    BY <1>1, <2>3, <2>4 DEF Fill
  <2> QED  BY <2>3, <2>5
<1>3. Queued = [i \in 1..Fill |-> msgs[(readpos + i - 1) % len]]
  BY <1>2, Zenon DEF Queued
<1>4. \A i \in 1..(Size + 1) :
        /\ (readpos + i - 1) % len \in 0..Size
        /\ (readpos + i - 1) % len
             = IF readpos + i - 1 < len THEN readpos + i - 1 ELSE readpos + i - 1 - len
  <2> SUFFICES ASSUME NEW i \in 1..(Size + 1)
               PROVE  /\ (readpos + i - 1) % len \in 0..Size
                      /\ (readpos + i - 1) % len
                           = IF readpos + i - 1 < len THEN readpos + i - 1
                             ELSE readpos + i - 1 - len
    OBVIOUS
  <2>1. readpos + i - 1 \in Nat /\ readpos + i - 1 < 2 * len
    BY <1>1
  <2>2. \A a \in Nat : a < 2 * len => a % len = IF a < len THEN a ELSE a - len
    BY Wraps, Zenon
  <2> QED  BY <1>1, <2>1, <2>2
<1>5. \A i \in 1..Fill : msgs[(readpos + i - 1) % len] \in Msg \cup {None}
  <2>1. \A i \in 1..Fill : i \in 1..(Size + 1)
    BY <1>2
  <2>2. \A i \in 1..Fill : (readpos + i - 1) % len \in 0..Size
    BY <1>4, <2>1, Zenon
  <2> QED  BY <2>2 DEF RingInv
<1>6. Queued \in Seq(Msg \cup {None}) /\ Len(Queued) = Fill
  BY <1>2, <1>3, <1>5
<1> QED  BY <1>2, <1>3, <1>4, <1>6, Zenon

(* The same of the state after a step *)
LEMMA QueuedIsNext ==
  (RingInv =>
         /\ Queued = [i \in 1..Fill |-> msgs[(readpos + i - 1) % len]]
         /\ Queued \in Seq(Msg \cup {None}) /\ Len(Queued) = Fill
         /\ Fill \in 0..Size
         /\ \A i \in 1..(Size + 1) :
              /\ (readpos + i - 1) % len \in 0..Size
              /\ (readpos + i - 1) % len
                   = IF readpos + i - 1 < len THEN readpos + i - 1 ELSE readpos + i - 1 - len)'
BY QueuedIs, PTL

(* Writing the slot at writepos appends to the sequence. *)
LEMMA PutAppends ==
  ASSUME RingInv, RingInv', NEW m \in Msg, Put(m), readpos' = readpos, Fill < Size
  PROVE  Queued' = Append(Queued, m)
<1> USE MboxAssumption
<1>1. Fill \in Nat /\ Fill' = Fill + 1
  BY PutFill, Zenon
<1>2. /\ Queued = [i \in 1..Fill |-> msgs[(readpos + i - 1) % len]]
      /\ Queued \in Seq(Msg \cup {None}) /\ Len(Queued) = Fill
  BY QueuedIs, Zenon
<1>3. Queued' = [i \in 1..(Fill + 1) |-> msgs'[(readpos + i - 1) % len]]
  BY <1>1, QueuedIsNext, Zenon
<1>4. readpos \in 0..Size /\ writepos \in 0..Size /\ len = Size + 1
  BY Zenon DEF RingInv, len
<1>5. \A i \in 1..Fill : msgs'[(readpos + i - 1) % len] = Queued[i]
  <2> SUFFICES ASSUME NEW i \in 1..Fill
               PROVE  msgs'[(readpos + i - 1) % len] = Queued[i]
    BY Zenon
  <2>1. /\ (readpos + i - 1) % len \in 0..Size
        /\ (readpos + i - 1) % len
             = IF readpos + i - 1 < len THEN readpos + i - 1 ELSE readpos + i - 1 - len
    BY <1>1, QueuedIs
  <2>2. (readpos + i - 1) % len # writepos
    BY <1>1, <1>4, <2>1 DEF Fill
  <2> QED  BY <1>2, <2>1, <2>2, Zenon DEF Put, RingInv
<1>6. msgs'[(readpos + (Fill + 1) - 1) % len] = m
  <2>1. PICK i \in 1..(Size + 1) : i = Fill + 1
    BY <1>1
  <2>2. (readpos + i - 1) % len
          = IF readpos + i - 1 < len THEN readpos + i - 1 ELSE readpos + i - 1 - len
    BY QueuedIs, Zenon
  <2>3. (readpos + i - 1) % len = writepos
    BY <1>4, <2>1, <2>2 DEF Fill
  <2> QED  BY <1>4, <2>1, <2>3, Zenon DEF Put, RingInv
<1>7. Append(Queued, m) = [i \in 1..(Fill + 1) |-> IF i = Fill + 1 THEN m ELSE Queued[i]]
  BY <1>1, <1>2
<1>8. \A i \in 1..(Fill + 1) :
        msgs'[(readpos + i - 1) % len] = IF i = Fill + 1 THEN m ELSE Queued[i]
  <2>1. \A i \in 1..(Fill + 1) : i = Fill + 1 \/ i \in 1..Fill
    BY <1>1
  <2> QED  BY <1>5, <1>6, <2>1, Zenon
<1> QED  BY <1>3, <1>7, <1>8, Zenon

(* Reading the slot at readpos takes the head of the sequence. *)
LEMMA GetTakes ==
  ASSUME RingInv, RingInv', NEW r, Get(r), msgs' = msgs, writepos' = writepos, Fill > 0
  PROVE  Queued # <<>> /\ msgs[readpos] = Head(Queued) /\ Queued' = Tail(Queued)
<1> USE MboxAssumption
<1>1. Fill \in Nat /\ Fill' = Fill - 1 /\ Fill <= Size
  BY GetFill, QueuedIs
<1>2. /\ Queued = [i \in 1..Fill |-> msgs[(readpos + i - 1) % len]]
      /\ Queued \in Seq(Msg \cup {None}) /\ Len(Queued) = Fill
  BY QueuedIs, Zenon
<1>3. Queued' = [i \in 1..(Fill - 1) |-> msgs[(readpos' + i - 1) % len]]
  BY <1>1, QueuedIsNext, Zenon
<1>4. readpos \in 0..Size /\ readpos' \in 0..Size /\ len = Size + 1
  BY DEF RingInv, len
<1>5. readpos' = IF readpos = Size THEN 0 ELSE readpos + 1
  <2>1. PICK a \in Nat : a = readpos + 1
    BY <1>4
  <2>2. a < 2 * len
    BY <1>4, <2>1
  <2>3. a % len = IF a < len THEN a ELSE a - len
    BY <2>2, Wraps
  <2>4. readpos' = a % len
    BY <2>1 DEF Get
  <2> QED  BY <1>4, <2>1, <2>3, <2>4
<1>6. msgs[readpos] = Queued[1]
  <2>1. (readpos + 1 - 1) % len = readpos
    BY <1>4, Wraps
  <2> QED  BY <1>1, <1>2, <2>1
<1>7. \A i \in 1..(Fill - 1) : msgs[(readpos' + i - 1) % len] = Queued[i + 1]
  <2> SUFFICES ASSUME NEW i \in 1..(Fill - 1)
               PROVE  msgs[(readpos' + i - 1) % len] = Queued[i + 1]
    BY Zenon
  <2>1. (readpos + (i + 1) - 1) % len
          = IF readpos + (i + 1) - 1 < len THEN readpos + (i + 1) - 1
            ELSE readpos + (i + 1) - 1 - len
    <3>1. i + 1 \in 1..(Size + 1)
      BY <1>1
    <3> QED  BY <3>1, QueuedIs, Zenon
  <2>2. (readpos' + i - 1) % len
          = IF readpos' + i - 1 < len THEN readpos' + i - 1 ELSE readpos' + i - 1 - len
    <3>1. i \in 1..(Size + 1)
      BY <1>1
    <3> QED  BY <3>1, QueuedIsNext
  <2>3. (readpos' + i - 1) % len = (readpos + (i + 1) - 1) % len
    BY <1>1, <1>4, <1>5, <2>1, <2>2
  <2> QED  BY <1>1, <1>2, <2>3
<1>8. Tail(Queued) = [i \in 1..(Fill - 1) |-> Queued[i + 1]]
  BY <1>1, <1>2
<1>9. Queued' = Tail(Queued)
  BY <1>3, <1>7, <1>8, Zenon
<1>10. Queued # <<>> /\ Head(Queued) = Queued[1]
  BY <1>1, <1>2
<1> QED  BY <1>6, <1>9, <1>10, Zenon

-----------------------------------------------------------------------------
(* No thread strays to another semaphore. *)
LEMMA OwnSemsStep ==
  ASSUME MboxInv, OwnSems, [MboxNext]_mboxVars
  PROVE  OwnSems'
<1> USE MboxAssumption
<1>1. ASSUME NEW t \in Thread, NEW s \in {readsem, writesem}, Enter(t, s)
      PROVE  OwnSems'
  BY <1>1 DEF Enter, Down, DownTry, DownTo, WaitCall, Goto, MboxInv, SleepInv, OwnSems
<1>2. ASSUME NEW t \in Thread, Waits(t) \/ TakeToken(t) \/ DoPost(t) \/ DoRecv(t) \/ Fail(t)
      PROVE  OwnSems'
  <2>1. on' = on /\ at[t] # "idle" /\ \A u \in Thread \ {t} : at'[u] = at[u]
    <3>1. CASE Waits(t)
      BY <3>1 DEF Waits, WaitTest, WaitLock, WaitResumed, Enqueue, Goto, MboxInv, SleepInv
    <3>2. CASE TakeToken(t) \/ DoPost(t) \/ DoRecv(t) \/ Fail(t)
      BY <3>2 DEF TakeToken, DoPost, DoRecv, Fail, Goto, MboxInv, SleepInv
    <3> QED  BY <1>2, <3>1, <3>2, Zenon
  <2>2. count' = count \/ count' = [count EXCEPT ![on[t]] = @ - 1]
    BY <1>2, Zenon DEF Waits, TakeToken, DoPost, DoRecv, Fail
  <2> QED  BY <2>1, <2>2 DEF MboxInv, SleepInv, OwnSems
<1>3. ASSUME NEW t \in Thread, DoUp(t) PROVE OwnSems'
  BY <1>3 DEF DoUp, UpCount, Goto, MboxInv, SleepInv, OwnSems
<1>4. ASSUME NEW q \in Queue, NEW t \in Thread, on' = on, count' = count,
             at' = Woken(q) \/ at' = [Woken(q) EXCEPT ![t] = "idle"]
      PROVE  OwnSems'
  <2>1. ASSUME NEW u \in Thread, at'[u] # "idle" PROVE at[u] # "idle"
    <3>1. at'[u] = (IF u \in waiting[q] THEN "resumed" ELSE at[u])
      BY <1>4, <2>1, Zenon DEF Woken
    <3>2. u \in waiting[q] => at[u] = "blocked"
      BY Zenon DEF MboxInv, SleepInv
    <3> QED  BY <2>1, <3>1, <3>2
  <2> QED  BY <1>4, <2>1 DEF OwnSems
<1>5. ASSUME NEW t \in Thread, UpWake(t) \/ Timer(t) PROVE OwnSems'
  <2>1. on[t] \in Queue
    BY DEF MboxInv, SleepInv
  <2> QED  BY <1>4, <1>5, <2>1 DEF UpWake, Timer, Expire
<1>6. CASE RecvIsr \/ \E m \in Msg : PostIsr(m)
  <2>1. PICK q \in Queue : at' = Woken(q)
    BY <1>6, Zenon DEF RecvIsr, PostIsr
  <2>2. \A u \in Thread : at'[u] # "idle" => at[u] # "idle"
    BY <2>1 DEF Woken, MboxInv, SleepInv
  <2>3. on' = on /\ \A s \in Queue \ {readsem, writesem} : count'[s] = count[s]
    BY <1>6 DEF RecvIsr, PostIsr, MboxInv, SleepInv
  <2> QED  BY <2>2, <2>3 DEF OwnSems
<1>7. CASE Passing \/ UNCHANGED mboxVars
  <2>1. UNCHANGED <<at, on, count>>
    BY <1>7, Zenon DEF Passing, Tick, Clock, mboxVars, vars, waitVars
  <2> QED  BY <2>1, Zenon DEF OwnSems
<1>8. ASSUME NEW t \in Thread, RecvCall(t) \/ \E m \in Msg : PostCall(t, m)
      PROVE  OwnSems'
  BY <1>1, <1>8, Zenon DEF RecvCall, PostCall
<1> QED
  BY <1>2, <1>3, <1>5, <1>6, <1>7, <1>8, Zenon DEF MboxNext, Step, SemStep

(* The invariant holds throughout. *)
THEOREM MboxInvariant == MboxSpec => [](MboxInv /\ OwnSems)
<1>1. MboxInv /\ OwnSems /\ [MboxNext]_mboxVars => MboxInv'
  <2> SUFFICES ASSUME MboxInv, OwnSems, [MboxNext]_mboxVars PROVE MboxInv'
    OBVIOUS
  <2>1. ASSUME NEW t \in Thread, RecvCall(t) \/ \E m \in Msg : PostCall(t, m)
        PROVE  MboxInv'
    BY <2>1, EnterInv
  <2>2. ASSUME NEW t \in Thread, SemStep(t) PROVE MboxInv'
    BY <2>2, TakesInv, WakesInv, Zenon DEF SemStep
  <2>3. ASSUME NEW t \in Thread, DoPost(t) \/ DoRecv(t) \/ DoUp(t) \/ Fail(t)
        PROVE  MboxInv'
    BY <2>3, SlotInv, TakesInv
  <2>4. CASE RecvIsr \/ \E m \in Msg : PostIsr(m)
    BY <2>4, IsrInv
  <2>5. CASE Passing
    BY <2>5, WakesInv, Zenon
  <2>6. CASE UNCHANGED mboxVars
    <3>1. UNCHANGED <<at, on, waiting, count, msgs, readpos, writepos, got, sending>>
      BY <2>6, Zenon DEF mboxVars, vars, waitVars, boxVars
    <3>2. SleepInv'
      BY <3>1 DEF MboxInv, SleepInv
    <3> QED  BY <3>1, <3>2, QuietInv, Zenon DEF MboxInv, RingInv
  <2> QED  BY <2>1, <2>2, <2>3, <2>4, <2>5, <2>6, Zenon DEF MboxNext, Step
<1>2. MboxInit => OwnSems
  BY DEF MboxInit, SemInit, WaitInit, InitialCount, OwnSems
<1> QED  BY <1>1, <1>2, MboxInitInv, OwnSemsStep, PTL DEF MboxSpec

(* For any size, positions, slots and counts stay in range.                 *)
THEOREM MboxTypeCorrect == MboxSpec => []MboxTypeOK
<1>1. MboxInv /\ OwnSems => MboxTypeOK
  <2> SUFFICES ASSUME MboxInv, OwnSems PROVE MboxTypeOK
    BY Zenon
  <2>1. count[readsem] \in 0..len /\ count[writesem] \in 0..len
    BY TokenTypes, MboxAssumption DEF MboxInv, TokenInv, len
  <2>2. \A s \in Queue : count[s] \in 0..len
    BY <2>1, MboxAssumption DEF OwnSems, len
  <2>3. count \in [Queue -> 0..len]
    BY <2>2, Zenon DEF MboxInv, SleepInv
  <2> QED  BY <2>3 DEF MboxInv, SleepInv, RingInv, MboxTypeOK
<1> QED  BY <1>1, MboxInvariant, PTL

(* For any number of threads and any size, the assertions of _do_mbox_post  *)
(* and _do_mbox_recv hold, whatever comes between a token and its slot.     *)
THEOREM MboxAssertions == MboxSpec => []AssertsHold
<1>1. MboxInv /\ OwnSems => AssertsHold
  <2> SUFFICES ASSUME MboxInv, OwnSems PROVE AssertsHold
    OBVIOUS
  <2> USE MboxAssumption
  <2>1. readpos \in 0..Size /\ writepos \in 0..Size /\ len = Size + 1
    BY DEF MboxInv, RingInv, len
  <2>2. (writepos + 1) % len = IF writepos = Size THEN 0 ELSE writepos + 1
    BY <2>1, Wraps
  <2>3. /\ Fill > 0 => readpos # writepos
        /\ Fill < Size => readpos # (writepos + 1) % len
    BY <2>1, <2>2 DEF Fill
  <2>4. \A t \in Thread : at[t] = "got" => on[t] \in {readsem, writesem}
    BY DEF OwnSems
  <2> QED  BY <2>3, <2>4, TokenMeans, Zenon DEF AssertsHold
<1> QED  BY <1>1, MboxInvariant, PTL

(* For any number of threads and any size, no token is lost: with nobody in *)
(* the middle of an operation the semaphores count messages and free slots. *)
THEOREM MboxTokens == MboxSpec => []TokensComeBack
<1>1. MboxInv => TokensComeBack
  <2> SUFFICES ASSUME MboxInv, \A t \in Thread : at[t] \in {"idle", "blocked"}
               PROVE  count[readsem] = Len(Queued) /\ count[writesem] = Size - Len(Queued)
    BY Zenon DEF TokensComeBack
  <2> USE MboxAssumption
  <2>1. \A p \in {"got", "up"}, s \in Queue : Holds(p, s) = {}
    BY DEF Holds
  <2>2. \A p \in {"got", "up"}, s \in Queue : Cardinality(Holds(p, s)) = 0
    BY <2>1, FS_EmptySet, Zenon
  <2>3. Len(Queued) = Fill
    BY QueuedIs DEF MboxInv
  <2> QED  BY <2>2, <2>3, TokenTypes, SMTT(60) DEF MboxInv, TokenInv
<1> QED  BY <1>1, MboxInvariant, PTL

(* For any number of threads, any messages and any size, a mailbox is a     *)
(* bounded first-in first-out queue: every step is a post, a fetch or the   *)
(* end of one, or changes nothing a user can see.                           *)
THEOREM MboxIsFifo == MboxSpec => ImplementsFifo
<1> USE MboxAssumption
<1>1. MboxInit => F!Init
  <2> SUFFICES ASSUME MboxInit PROVE F!Init
    OBVIOUS
  <2>1. Fill = 0
    BY DEF MboxInit, Fill
  <2>2. Queued = <<>>
    BY <2>1, MboxInitInv, QueuedIs DEF MboxInv
  <2> QED  BY <2>2 DEF MboxInit, F!Init
<1>2. MboxInv /\ MboxInv' /\ [MboxNext]_mboxVars => [F!Next]_<<Queued, got>>
  <2> SUFFICES ASSUME MboxInv, MboxInv', [MboxNext]_mboxVars
               PROVE  F!Next \/ UNCHANGED <<Queued, got>>
    OBVIOUS
  <2>1. RingInv /\ RingInv' /\ Len(Queued) = Fill
    BY QueuedIs DEF MboxInv
  <2>2. ASSUME UNCHANGED <<msgs, readpos, writepos>> PROVE UNCHANGED Queued
    BY <2>2 DEF Queued
  <2>3. ASSUME NEW t \in Thread, DoPost(t) PROVE F!Next
    <3>1. sending[t] \in Msg /\ Fill < Size
      BY <2>3, TokenMeans, Zenon DEF DoPost, MboxInv, RingInv
    <3>2. Queued' = Append(Queued, sending[t])
      BY <2>1, <2>3, <3>1, PutAppends, Zenon DEF DoPost
    <3>3. F!Post(sending[t])
      BY <2>1, <2>3, <3>1, <3>2, Zenon DEF F!Post, DoPost
    <3> QED  BY <3>1, <3>3, Zenon DEF F!Next
  <2>4. ASSUME NEW m \in Msg, PostIsr(m) PROVE F!Next
    <3>1. Fill < Size
      BY <2>4, TokenMeans, Zenon DEF PostIsr
    <3>2. Queued' = Append(Queued, m)
      BY <2>1, <2>4, <3>1, PutAppends, Zenon DEF PostIsr
    <3>3. F!Post(m)
      BY <2>1, <2>4, <3>1, <3>2, Zenon DEF F!Post, PostIsr
    <3> QED  BY <3>3, Zenon DEF F!Next
  <2>5. ASSUME NEW t \in Thread, DoRecv(t) PROVE F!Next
    <3>1. Fill > 0
      BY <2>5, TokenMeans, Zenon DEF DoRecv
    <3>2. Queued # <<>> /\ msgs[readpos] = Head(Queued) /\ Queued' = Tail(Queued)
      BY <2>1, <2>5, <3>1, GetTakes, Zenon DEF DoRecv
    <3>3. F!Recv(t)
      BY <2>5, <3>2, Zenon DEF F!Recv, DoRecv, Get
    <3> QED  BY <3>3, Zenon DEF F!Next
  <2>6. ASSUME RecvIsr PROVE F!Next
    <3>1. Fill > 0
      BY <2>6, TokenMeans, Zenon DEF RecvIsr
    <3>2. Queued # <<>> /\ msgs[readpos] = Head(Queued) /\ Queued' = Tail(Queued)
      BY <2>1, <2>6, <3>1, GetTakes, Zenon DEF RecvIsr
    <3>3. F!Recv(Handler)
      BY <2>6, <3>2 DEF F!Recv, RecvIsr, Get
    <3> QED  BY <3>3, Zenon DEF F!Next
  <2>7. ASSUME NEW t \in Thread, DoUp(t) PROVE F!Next
    <3>1. F!Forget(t)
      BY <2>2, <2>7, Zenon DEF F!Forget, DoUp
    <3> QED  BY <3>1, Zenon DEF F!Next
  <2>8. ASSUME NEW t \in Thread,
               RecvCall(t) \/ SemStep(t) \/ Fail(t) \/ \E m \in Msg : PostCall(t, m)
        PROVE  UNCHANGED <<Queued, got>>
    BY <2>2, <2>8, Zenon DEF RecvCall, PostCall, Enter, SemStep, Fail, boxVars
  <2>9. CASE Passing \/ UNCHANGED mboxVars
    BY <2>2, <2>9 DEF Passing, mboxVars, boxVars
  <2> QED  BY <2>3, <2>4, <2>5, <2>6, <2>7, <2>8, <2>9, Zenon DEF MboxNext, Step
<1> QED  BY <1>1, <1>2, MboxInvariant, PTL DEF MboxSpec, ImplementsFifo, F!Spec

-----------------------------------------------------------------------------
(***************************************************************************)
(* Mutexes: one owner, and no wake-up is lost, for any depth of recursion. *)
(***************************************************************************)

(* Where lock_count stands at each point of a thread's way in and out.      *)
CountInv ==
  /\ \A t \in Thread : at[t] \in {"won", "release"} => lock_count = 0
  /\ \A t \in Thread : at[t] = "held" => lock_count > 0
  /\ \A t \in Thread : at[t] = "wake" => owner # t
  /\ owner = Null => lock_count = 0

(* The inductive invariant *)
MutexInv == MutexTypeOK /\ MutualExclusion /\ CountInv /\ NoSleeperWhenFree

(* A mutex starts free, with nobody waiting (uk_mutex_init_config).         *)
LEMMA MutexInitInv == MutexInit => MutexInv
<1> SUFFICES ASSUME MutexInit PROVE MutexInv
  OBVIOUS
<1>1. (CHOOSE q \in Queue : TRUE) \in Queue
  BY MutexAssumption
<1> QED  BY <1>1, MutexAssumption
         DEF MutexInit, WaitInit, MutexInv, MutexTypeOK, MutualExclusion, CountInv,
             NoSleeperWhenFree, Inside, WaitAt

(* A step of the waiting loop keeps the invariant: the thread blocks only   *)
(* if the mutex has an owner.                                               *)
LEMMA WaitsInv ==
  ASSUME MutexInv, NEW t \in Thread, Lock(t) \/ MutexWaits(t)
  PROVE  MutexInv'
<1> USE MutexAssumption
<1>1. /\ UNCHANGED <<owner, lock_count>>
      /\ on' \in [Thread -> Queue] /\ on'[t] = wait
      /\ \A u \in Thread \ {t} : on'[u] = on[u]
      /\ left' = left /\ timer' = timer
  BY DEF MutexInv, MutexTypeOK, Lock, MutexWaits, WaitCall, WaitTest, WaitLock,
         WaitResumed, Enqueue, StartTimer, lockVars, WaitAt
<1>2. MutexTypeOK'
  <2>1. /\ at' \in [Thread -> WaitAt \cup Inside \cup {"try", "wake"}]
        /\ \A u \in Thread \ {t} : at'[u] = at[u]
        /\ \A u \in Thread : at'[u] \in WaitAt \ {"idle"} => on'[u] = wait
    BY <1>1 DEF MutexInv, MutexTypeOK, Lock, MutexWaits, WaitCall, WaitTest, WaitLock,
           WaitResumed, Enqueue, Goto, WaitAt, Inside
  <2>2. /\ waiting' \in [Queue -> SUBSET Thread]
        /\ \A q \in Queue : \A u \in Thread :
             u \in waiting'[q] <=> (at'[u] = "blocked" /\ on'[u] = q)
    <3>1. CASE at'[t] = "blocked"
      <4>1. /\ waiting' = [waiting EXCEPT ![wait] = @ \cup {t}]
            /\ on' = on /\ at[t] # "blocked"
        BY <1>1, <3>1 DEF MutexInv, MutexTypeOK, Lock, MutexWaits, WaitCall, WaitTest,
             WaitLock, WaitResumed, Enqueue, Goto, WaitAt, Inside
      <4> QED  BY <1>1, <2>1, <3>1, <4>1 DEF MutexInv, MutexTypeOK
    <3>2. CASE at'[t] # "blocked"
      <4>1. waiting' = waiting /\ at[t] # "blocked"
        BY <3>2 DEF MutexInv, MutexTypeOK, Lock, MutexWaits, WaitCall, WaitTest,
             WaitLock, WaitResumed, Enqueue, Goto, WaitAt, Inside
      <4> QED  BY <1>1, <2>1, <3>2, <4>1 DEF MutexInv, MutexTypeOK
    <3> QED  BY <3>1, <3>2
  <2>3. waiting' = [q \in Queue |-> {u \in Thread : at'[u] = "blocked" /\ on'[u] = q}]
    BY <2>2
  <2> QED  BY <1>1, <2>1, <2>3 DEF MutexInv, MutexTypeOK
<1>3. MutualExclusion' /\ CountInv'
  <2>1. /\ \A u \in Thread \ {t} : at'[u] = at[u]
        /\ at'[t] \notin Inside \cup {"wake"}
    BY DEF MutexInv, MutexTypeOK, Lock, MutexWaits, WaitCall, WaitTest, WaitLock,
           WaitResumed, Enqueue, Goto, Inside
  <2>2. MutualExclusion'
    BY <1>1, <2>1 DEF MutexInv, MutualExclusion
  <2>3. CountInv'
    BY <1>1, <2>1 DEF MutexInv, CountInv, Inside
  <2> QED  BY <2>2, <2>3
<1>4. NoSleeperWhenFree'
  BY <1>1 DEF MutexInv, MutexTypeOK, NoSleeperWhenFree, Lock, MutexWaits, WaitCall,
         WaitTest, WaitLock, WaitResumed, Enqueue, Goto
<1> QED  BY <1>2, <1>3, <1>4 DEF MutexInv

(* Winning, counting and unlocking keep the invariant: only the thread that *)
(* is the owner moves the count, and it alone gives the mutex up.           *)
LEMMA OwnerInv ==
  ASSUME MutexInv, NEW t \in Thread,
         \/ TryLock(t) \/ Exchange(t) \/ Own(t)
         \/ Relock(t) \/ Unlock(t) \/ Release(t)
  PROVE  MutexInv'
<1> USE MutexAssumption
<1>1. UNCHANGED <<on, waiting, left, timer>>
  BY DEF TryLock, Exchange, Own, Relock, Unlock, Release, Stay
<1>2. MutexTypeOK'
  <2>1. lock_count' \in Nat /\ owner' \in Thread \cup {Null}
    BY DEF MutexInv, MutexTypeOK, CountInv, TryLock, Exchange, Own, Relock,
           Unlock, Release, Stay, lockVars
  <2>2. /\ at' \in [Thread -> WaitAt \cup Inside \cup {"try", "wake"}]
        /\ \A u \in Thread : at'[u] = "blocked" <=> at[u] = "blocked"
        /\ \A u \in Thread : at'[u] \in WaitAt \ {"idle"} => on'[u] = wait
    BY <1>1 DEF MutexInv, MutexTypeOK, TryLock, Exchange, Own, Relock, Unlock,
           Release, Goto, WaitAt, Inside
  <2> QED  BY <1>1, <2>1, <2>2 DEF MutexInv, MutexTypeOK
<1>3. MutualExclusion'
  BY DEF MutexInv, MutexTypeOK, MutualExclusion, TryLock, Exchange, Own, Relock,
         Unlock, Release, Goto, Inside, lockVars
<1>4. CountInv'
  BY DEF MutexInv, MutexTypeOK, MutualExclusion, CountInv, TryLock, Exchange, Own,
         Relock, Unlock, Release, Goto, Inside, lockVars
<1>5. NoSleeperWhenFree'
  BY <1>1 DEF MutexInv, MutexTypeOK, NoSleeperWhenFree, TryLock, Exchange, Own,
         Relock, Unlock, Release, Goto, lockVars
<1> QED  BY <1>2, <1>3, <1>4, <1>5 DEF MutexInv

(* uk_waitq_wake_up keeps the invariant: it empties the queue. *)
LEMMA WakeInv ==
  ASSUME MutexInv, NEW t \in Thread, Wake(t)
  PROVE  MutexInv'
<1> USE MutexAssumption
<1>1. UNCHANGED <<on, left, owner, lock_count>> /\ waiting'[wait] = {}
  BY DEF MutexInv, MutexTypeOK, Wake, EmptyQueue, lockVars
<1>2. MutexTypeOK'
  <2>1. /\ at' \in [Thread -> WaitAt \cup Inside \cup {"try", "wake"}]
        /\ \A u \in Thread : at'[u] # "blocked"
        /\ \A u \in Thread : at'[u] \in WaitAt \ {"idle"} => on'[u] = wait
    BY <1>1 DEF MutexInv, MutexTypeOK, Wake, Woken, WaitAt, Inside
  <2>2. \A q \in Queue : q # wait => waiting[q] = {}
    BY DEF MutexInv, MutexTypeOK, WaitAt
  <2>3. timer' = timer
    BY DEF MutexInv, MutexTypeOK, Wake, EmptyQueue
  <2>4. waiting' = [waiting EXCEPT ![wait] = {}] /\ DOMAIN waiting = Queue
    BY DEF MutexInv, MutexTypeOK, Wake, EmptyQueue
  <2>5. waiting' = [q \in Queue |-> {}]
    BY <2>2, <2>4
  <2> QED  BY <1>1, <2>1, <2>3, <2>5 DEF MutexInv, MutexTypeOK
<1>3. MutualExclusion' /\ CountInv'
  BY <1>1 DEF MutexInv, MutexTypeOK, MutualExclusion, CountInv, Wake, Woken, Inside
<1>4. NoSleeperWhenFree'
  BY <1>1 DEF NoSleeperWhenFree
<1> QED  BY <1>2, <1>3, <1>4 DEF MutexInv

(* The invariant holds throughout. *)
THEOREM MutexInvariant == MutexSpec => []MutexInv
<1>1. MutexInv /\ [MutexNext]_mutexVars => MutexInv'
  <2> SUFFICES ASSUME MutexInv, [MutexNext]_mutexVars PROVE MutexInv'
    OBVIOUS
  <2>1. CASE MutexNext
    <3>1. PICK t \in Thread : Lock(t) \/ TryLock(t) \/ Relock(t) \/ MutexRun(t)
      BY <2>1 DEF MutexNext
    <3> QED  BY <3>1, WaitsInv, OwnerInv, WakeInv DEF MutexRun
  <2>2. CASE UNCHANGED mutexVars
    BY <2>2 DEF MutexInv, MutexTypeOK, MutualExclusion, CountInv, NoSleeperWhenFree,
                mutexVars, waitVars, lockVars
  <2> QED  BY <2>1, <2>2
<1> QED  BY <1>1, MutexInitInv, PTL DEF MutexSpec

(* At most one thread is between its compare-and-exchange and the reset of  *)
(* m->owner, for any number of threads.                                     *)
THEOREM MutexExcludes == MutexSpec => []MutualExclusion
BY MutexInvariant, PTL DEF MutexInv

(* The assertions on m->lock_count never fail. *)
THEOREM MutexAssertions == MutexSpec => []CountMatches
<1>1. MutexInv => CountMatches
  BY DEF MutexInv, CountInv, CountMatches
<1> QED  BY <1>1, MutexInvariant, PTL

(* No wake-up of a mutex is lost. *)
THEOREM MutexWakeups == MutexSpec => []NoSleeperWhenFree
BY MutexInvariant, PTL DEF MutexInv
=============================================================================
