--------------------------- MODULE TnSchedProofs ---------------------------
(***************************************************************************)
(* The remaining steps of the kernel keep the invariant of                 *)
(* TnSchedInvariant, and what follows from it: the theorems about the      *)
(* thread kernel.                                                          *)
(***************************************************************************)
EXTENDS TnSchedInvariant

-----------------------------------------------------------------------------
(***************************************************************************)
(* Waking.                                                                 *)
(***************************************************************************)

(* uk_sched_thread_woken on a blocked thread that leaves its wait queue and *)
(* whose timer is off afterwards.                                           *)
LEMMA WakeKeeps ==
  ASSUME IInv, NEW u \in Thread, u \in attached, u \notin runnable, Wake(u),
         UNCHANGED <<live, attached, exited, prio, exitedq, current, irq, kpc, target>>,
         waitq' \in [WaitQ -> Seq(Thread)],
         \A w \in WaitQ : /\ QueueOK(waitq'[w], prio)
                          /\ Range(waitq'[w]) = Range(waitq[w]) \ {u},
         timer' \in [Thread -> WaitQ \cup {NULL, Off}],
         \A s \in Thread : timer'[s] = IF s = u THEN Off ELSE timer[s],
         pending' \in BOOLEAN, pending' => irq # "none",
         waking' \in WaitQ \cup {NULL}
  PROVE  IInv'
<1>1. u \notin exited /\ u # Idle /\ u \in live
  BY ConstantsAssumption DEF IInv, Types, Control
<1>2. /\ runnable' = runnable \cup {u}
      /\ runq' = IF u # current THEN PrioInsert(runq, prio, u) ELSE runq
      /\ panic' = panic
  BY <1>1 DEF Wake, IsRunnable, RunqAdd
<1>3. Types'
  BY <1>1, <1>2 DEF IInv, Types
<1>4. Queues'
  <2>1. /\ QueueOK(runq, prio) /\ Range(runq) = Ready \ {current}
        /\ prio \in [Thread -> Prio] /\ u \notin Ready
    BY DEF IInv, Types, Queues, Ready
  <2>2. QueueOK(runq', prio) /\ Range(runq') = (Range(runq) \cup {u}) \ {current}
    <3>1. CASE u = current
      BY <1>2, <2>1, <3>1, Zenon
    <3>2. CASE u # current
      <4>1. QueueOK(runq', prio) /\ Range(runq') = Range(runq) \cup {u}
        BY <1>2, <2>1, <3>2, QueueInsert, Zenon
      <4>2. QED
        BY <2>1, <3>2, <4>1, Zenon
    <3>3. QED
      BY <3>1, <3>2
  <2>3. Ready' = Ready \cup {u}
    BY <1>1, <1>2 DEF Ready
  <2>4. QED
    BY <2>1, <2>2, <2>3, Zenon DEF Queues
<1>5. Waiters'
  <2>1. \A w \in WaitQ : Range(waitq'[w]) \subseteq attached' \ runnable'
    BY <1>2 DEF IInv, Waiters
  <2>2. \A w, v \in WaitQ, s \in Thread :
          s \in Range(waitq'[w]) /\ s \in Range(waitq'[v]) => w = v
    BY DEF IInv, Waiters
  <2>3. \A s \in Thread : s # u => timer'[s] = timer[s]
    OBVIOUS
  <2>4. timer'[u] # NULL /\ timer'[u] \notin WaitQ
    BY ConstantsAssumption
  <2>5. \A s \in Thread : timer'[s] = NULL =>
          s \in attached' \ runnable' /\ \A w \in WaitQ : s \notin Range(waitq'[w])
    BY <1>2, <2>3, <2>4 DEF IInv, Waiters
  <2>6. \A s \in Thread : timer'[s] \in WaitQ => s \in Range(waitq'[timer'[s]])
    <3>1. SUFFICES ASSUME NEW s \in Thread, timer'[s] \in WaitQ
                   PROVE  s \in Range(waitq'[timer'[s]])
      OBVIOUS
    <3>2. s # u /\ timer[s] = timer'[s]
      BY <2>3, <2>4, <3>1, Zenon
    <3>3. s \in Range(waitq[timer[s]])
      BY <3>1, <3>2, Zenon DEF IInv, Waiters
    <3>4. QED
      BY <3>1, <3>2, <3>3, Zenon
  <2>7. QED
    BY <2>1, <2>2, <2>5, <2>6, Zenon DEF Waiters
<1>6. Control'
  BY <1>1, <1>2, Zenon DEF IInv, Types, Control
<1>7. Targets'
  BY DEF IInv, Types, Targets
<1>8. QED
  BY <1>3, <1>4, <1>5, <1>6, <1>7, Zenon DEF IInv

(* Taking the head off one wait queue and disarming its timer. *)
LEMMA HeadLeaves ==
  ASSUME IInv, NEW w \in WaitQ, waitq[w] # <<>>,
         waitq' = [waitq EXCEPT ![w] = Tail(@)],
         timer' = [timer EXCEPT ![Head(waitq[w])] = Off]
  PROVE  /\ Head(waitq[w]) \in Thread
         /\ Head(waitq[w]) \in attached /\ Head(waitq[w]) \notin runnable
         /\ waitq' \in [WaitQ -> Seq(Thread)]
         /\ \A v \in WaitQ : /\ QueueOK(waitq'[v], prio)
                             /\ Range(waitq'[v]) = Range(waitq[v]) \ {Head(waitq[w])}
         /\ timer' \in [Thread -> WaitQ \cup {NULL, Off}]
         /\ \A s \in Thread : timer'[s] = IF s = Head(waitq[w]) THEN Off ELSE timer[s]
<1> DEFINE u == Head(waitq[w])
           r == Tail(waitq[w])
<1>1. /\ waitq \in [WaitQ -> Seq(Thread)]
      /\ timer \in [Thread -> WaitQ \cup {NULL, Off}]
      /\ prio \in [Thread -> Prio]
      /\ \A v \in WaitQ : QueueOK(waitq[v], prio)
  BY DEF IInv, Types, Queues
<1>2. QueueOK(r, prio) /\ u \in Range(waitq[w]) /\ Range(r) = Range(waitq[w]) \ {u}
  BY <1>1, QueueHead, Zenon
<1>3. waitq' = [waitq EXCEPT ![w] = r] /\ timer' = [timer EXCEPT ![u] = Off]
  BY <1>1
<1> HIDE DEF u, r
<1>4. u \in attached /\ u \notin runnable /\ u \in Thread
  BY <1>2 DEF IInv, Types, Waiters
<1>5. r \in Seq(Thread)
  BY <1>2 DEF QueueOK
<1>6. \A v \in WaitQ : waitq'[v] = IF v = w THEN r ELSE waitq[v]
  BY <1>1, <1>3, Zenon
<1>7. \A v \in WaitQ : v # w => u \notin Range(waitq[v])
  BY <1>2, <1>4 DEF IInv, Waiters
<1>8. \A v \in WaitQ : QueueOK(waitq'[v], prio) /\ Range(waitq'[v]) = Range(waitq[v]) \ {u}
  BY <1>1, <1>2, <1>6, <1>7
<1>9. /\ waitq' \in [WaitQ -> Seq(Thread)]
      /\ timer' \in [Thread -> WaitQ \cup {NULL, Off}]
      /\ \A s \in Thread : timer'[s] = IF s = u THEN Off ELSE timer[s]
  BY <1>1, <1>3, <1>4, <1>5
<1>10. QED
  BY <1>4, <1>8, <1>9, Zenon DEF u

(* uk_sched_thread_woken, uk_waitq_wake_up_one and one iteration of         *)
(* uk_waitq_wake_up.                                                        *)
LEMMA WakeActions ==
  ASSUME IInv
  PROVE  /\ \A u \in Thread : Woken(u) => IInv'
         /\ \A w \in WaitQ : WakeUpOne(w) => IInv'
         /\ WakeStep => IInv'
<1> USE DEF cpuVars
<1>1. ASSUME NEW u \in Thread, Woken(u)
      PROVE  IInv'
  <2>1. /\ u \in attached /\ u \notin exited /\ timer[u] = Off
        /\ \A w \in WaitQ : u \notin Range(waitq[w])
    BY <1>1 DEF Woken, InWaitq, IInv, Control
  <2>2. u \notin runnable
    BY <1>1, <2>1 DEF Woken, IsRunnable
  <2>3. /\ waitq' \in [WaitQ -> Seq(Thread)]
        /\ \A w \in WaitQ : QueueOK(waitq'[w], prio)
        /\ timer' \in [Thread -> WaitQ \cup {NULL, Off}]
    BY <1>1 DEF IInv, Types, Queues, Woken
  <2>4. \A w \in WaitQ : Range(waitq'[w]) = Range(waitq[w]) \ {u}
    BY <1>1, <2>1, Zenon DEF Woken
  <2>5. \A s \in Thread : timer'[s] = IF s = u THEN Off ELSE timer[s]
    BY <1>1, <2>1, Zenon DEF Woken
  <2>6. QED
    BY <1>1, <2>1, <2>2, <2>3, <2>4, <2>5, WakeKeeps DEF Woken, IInv, Types, Control
<1>2. ASSUME NEW w \in WaitQ, waitq[w] # <<>>,
             timer' = [timer EXCEPT ![Head(waitq[w])] = Off],
             waitq' = [waitq EXCEPT ![w] = Tail(@)],
             Wake(Head(waitq[w])),
             UNCHANGED <<live, attached, exited, prio, exitedq, cpuVars, kpc, target>>
      PROVE  IInv'
  <2> DEFINE u == Head(waitq[w])
  <2>1. /\ u \in Thread /\ u \in attached /\ u \notin runnable
        /\ waitq' \in [WaitQ -> Seq(Thread)]
        /\ \A v \in WaitQ : /\ QueueOK(waitq'[v], prio)
                            /\ Range(waitq'[v]) = Range(waitq[v]) \ {u}
        /\ timer' \in [Thread -> WaitQ \cup {NULL, Off}]
        /\ \A s \in Thread : timer'[s] = IF s = u THEN Off ELSE timer[s]
    BY <1>2, HeadLeaves, Zenon
  <2>2. Wake(u)
    BY <1>2
  <2> HIDE DEF u
  <2>3. /\ pending' \in BOOLEAN /\ (pending' => irq # "none")
        /\ waking' \in WaitQ \cup {NULL}
    BY <1>2 DEF IInv, Types, Control
  <2>4. QED
    BY <1>2, <2>1, <2>2, <2>3, WakeKeeps, Zenon
<1>3. ASSUME NEW w \in WaitQ, WakeUpOne(w)
      PROVE  IInv'
  BY <1>2, <1>3, Zenon DEF WakeUpOne
<1>4. ASSUME WakeStep
      PROVE  IInv'
  <2>1. waking \in WaitQ
    BY <1>4 DEF WakeStep, IInv, Types
  <2>2. QED
    BY <1>2, <1>4, <2>1, Zenon DEF WakeStep
<1>5. QED
  BY <1>1, <1>3, <1>4, Zenon

(* uk_sched_thread_timeout *)
LEMMA TimerExpireStep ==
  ASSUME IInv, NEW t \in Thread, TimerExpire(t)
  PROVE  IInv'
<1>1. /\ timer \in [Thread -> WaitQ \cup {NULL, Off}]
      /\ timer' \in [Thread -> WaitQ \cup {NULL, Off}]
      /\ \A s \in Thread : timer'[s] = IF s = t THEN Off ELSE timer[s]
      /\ irq # "none"
  BY Zenon DEF IInv, Types, TimerExpire
<1>2. CASE timer[t] = NULL
  <2>1. /\ t \in attached /\ t \notin runnable
        /\ \A w \in WaitQ : t \notin Range(waitq[w])
    BY <1>2, Zenon DEF IInv, Waiters
  <2>2. /\ waitq' \in [WaitQ -> Seq(Thread)]
        /\ \A w \in WaitQ : QueueOK(waitq'[w], prio)
    BY DEF IInv, Types, Queues, TimerExpire
  <2>3. \A w \in WaitQ : Range(waitq'[w]) = Range(waitq[w]) \ {t}
    BY <2>1, Zenon DEF TimerExpire
  <2>4. Wake(t) /\ pending' = TRUE /\ waking' = waking
    BY <1>2, Zenon DEF TimerExpire
  <2>5. waking' \in WaitQ \cup {NULL}
    BY <2>4 DEF IInv, Types
  <2>6. QED
    BY <1>1, <2>1, <2>2, <2>3, <2>4, <2>5, WakeKeeps DEF TimerExpire
<1>3. CASE timer[t] # NULL
  <2>1. /\ waking' = timer[t] /\ timer[t] \in WaitQ
        /\ UNCHANGED <<live, attached, runnable, exited, prio, runq, waitq, exitedq,
                       current, pending, irq, kpc, target, panic>>
    BY <1>1, <1>3, Zenon DEF TimerExpire
  <2>2. Types'
    BY <1>1, <2>1, Zenon DEF IInv, Types
  <2>3. Queues'
    BY <2>1, Zenon DEF IInv, Queues, Ready
  <2>4. Waiters'
    <3>1. Off # NULL /\ Off \notin WaitQ
      BY ConstantsAssumption, Zenon
    <3>2. QED
      BY <1>1, <2>1, <3>1, Zenon DEF IInv, Waiters
  <2>5. Control'
    BY <2>1, Zenon DEF IInv, Control
  <2>6. Targets'
    BY <2>1 DEF IInv, Targets
  <2>7. QED
    BY <2>2, <2>3, <2>4, <2>5, <2>6, Zenon DEF IInv
<1>4. QED
  BY <1>2, <1>3

-----------------------------------------------------------------------------
(***************************************************************************)
(* Creation, exit and termination.                                         *)
(***************************************************************************)

(* tn_sched_thread_create_prio *)
LEMMA CreateStep ==
  ASSUME IInv, NEW t \in Thread, NEW u \in Thread, NEW p \in Prio \cup {MaxPrio + 1},
         Create(t, u, p)
  PROVE  IInv'
<1> USE DEF cpuVars
<1>1. current = t /\ kpc[t] = "run" /\ u \notin live
  BY Zenon DEF Create, At
<1>2. t \in live /\ t # u
  BY <1>1, RunningThread, Zenon DEF IInv, Types
<1>3. /\ u \notin attached /\ u \notin runnable /\ u \notin exited /\ u \notin Ready
      /\ kpc[u] = "run" /\ target[u] = NULL /\ u \notin Range(runq)
      /\ \A w \in WaitQ : u \notin Range(waitq[w])
      /\ timer[u] # NULL /\ timer[u] \notin WaitQ
  BY <1>1 DEF IInv, Types, Queues, Waiters, Control, Targets, Ready
<1>4. /\ QueueOK(runq, prio) /\ Range(runq) = Ready \ {current}
      /\ prio \in [Thread -> Prio]
      /\ \A w \in WaitQ : QueueOK(waitq[w], prio)
  BY DEF IInv, Types, Queues
<1>5. CASE p \in Prio
  <2>1. /\ live' = live \cup {u} /\ runnable' = runnable \cup {u}
        /\ attached' = attached \cup {u}
        /\ prio' = [prio EXCEPT ![u] = p]
        /\ runq' = PrioInsert(runq, prio', u)
        /\ kpc' = [kpc EXCEPT ![t] = "resched"]
        /\ UNCHANGED <<exited, waitq, timer, exitedq, cpuVars, target, panic>>
    BY <1>5, Zenon DEF Create, RunqAdd, Goto
  <2>2. /\ prio' \in [Thread -> Prio]
        /\ \A v \in Thread : v # u => prio'[v] = prio[v]
    BY <1>4, <1>5, <2>1, Zenon
  <2>3. /\ kpc' \in [Task -> ThreadPc \cup IdlePc] /\ kpc'[Idle] = kpc[Idle]
        /\ \A s \in Thread : kpc'[s] = IF s = t THEN "resched" ELSE kpc[s]
    BY <2>1, ConstantsAssumption, Zenon DEF IInv, Types, Task, ThreadPc
  <2>4. QueueOK(runq, prio') /\ \A w \in WaitQ : QueueOK(waitq[w], prio')
    <3>1. \A v \in Range(runq) : prio'[v] = prio[v]
      BY <1>3, <1>4, <2>2, QueueMembers, Zenon
    <3>2. \A w \in WaitQ : \A v \in Range(waitq[w]) : prio'[v] = prio[v]
      BY <1>3, <1>4, <2>2, QueueMembers, Zenon
    <3>3. QED
      BY <1>4, <3>1, <3>2, QueueReprioritise
  <2>5. QueueOK(runq', prio') /\ Range(runq') = Range(runq) \cup {u}
    BY <1>3, <2>1, <2>2, <2>4, QueueInsert, Zenon
  <2>6. Types'
    BY <2>1, <2>2, <2>3 DEF IInv, Types
  <2>7. Queues'
    <3>1. Ready' = Ready \cup {u}
      <4>1. \A s \in Thread : kpc'[s] = "removed" <=> kpc[s] = "removed"
        BY <1>1, <2>3, Zenon
      <4>2. live \subseteq Thread /\ u \notin exited
        BY <1>3, Zenon DEF IInv, Types
      <4>3. QED
        BY <1>3, <2>1, <4>1, <4>2 DEF Ready
    <3>2. QED
      BY <1>1, <1>2, <1>4, <2>1, <2>4, <2>5, <3>1 DEF Queues
  <2>8. Waiters'
    BY <1>3, <2>1, SMTT(60) DEF IInv, Waiters
  <2>9. Control'
    <3>1. /\ UNCHANGED <<exited, exitedq, current, pending, irq>>
          /\ attached' = attached \cup {u} /\ live' = live \cup {u}
          /\ runnable' = runnable \cup {u}
      BY <2>1, Zenon
    <3>2. /\ \A s \in Thread : kpc'[s] \in ThreadPc
          /\ kpc'[Idle] \in IdlePc
          /\ pending' => irq' # "none"
      BY <2>3, <3>1, Zenon DEF IInv, Control, ThreadPc
    <3>3. \A s \in attached' : s \notin exited' /\ kpc'[s] \notin {"removed", "exited"}
      BY <1>3, <2>3, <3>1 DEF IInv, Types, Control
    <3>4. \A s \in Thread :
            /\ kpc'[s] = "removed" => s \in runnable' /\ s \notin exited'
            /\ kpc'[s] = "exited" => s \in exited'
            /\ s \notin live' => kpc'[s] = "run"
      BY <1>2, <2>3, <3>1, Zenon DEF IInv, Control
    <3>5. current' = t /\ t \in live' /\ t \in attached' /\ kpc'[t] = "resched"
      BY <1>1, <1>2, <2>3, <3>1 DEF IInv, Control
    <3>6. \A s \in exitedq' : kpc'[s] = "exited" /\ s # current'
      BY <1>1, <2>3, <3>1 DEF IInv, Types, Control
    <3>7. QED
      BY <3>2, <3>3, <3>4, <3>5, <3>6 DEF Control
  <2>10. Targets'
    BY <1>1, <1>3, <2>1, <2>3, SMTT(60) DEF IInv, Types, Targets
  <2>11. QED
    BY <2>6, <2>7, <2>8, <2>9, <2>10, Zenon DEF IInv
<1>6. CASE p \notin Prio
  <2>1. /\ live' = live \cup {u} /\ runnable' = runnable \cup {u}
        /\ UNCHANGED <<prio, attached, runq, kpc, exited, waitq, timer, exitedq,
                       cpuVars, target, panic>>
    BY <1>6, Zenon DEF Create
  <2>2. Types'
    BY <2>1, Zenon DEF IInv, Types
  <2>3. Queues'
    <3>1. Ready' = Ready
      BY <1>3, <2>1, Zenon DEF IInv, Types, Ready
    <3>2. QED
      BY <2>1, <3>1, Zenon DEF IInv, Queues
  <2>4. Waiters'
    BY <1>3, <2>1, SMTT(60) DEF IInv, Waiters
  <2>5. Control'
    BY <1>3, <2>1, Zenon DEF IInv, Types, Control
  <2>6. Targets'
    BY <1>3, <2>1, Zenon DEF IInv, Types, Targets
  <2>7. QED
    BY <2>2, <2>3, <2>4, <2>5, <2>6 DEF IInv
<1>7. QED
  BY <1>5, <1>6, Zenon

(* uk_sched_thread_terminate of the running thread, section by section. *)
LEMMA ExitActions ==
  ASSUME IInv, NEW t \in Thread
  PROVE  /\ Exit(t) => IInv'
         /\ ExitSetExited(t) => IInv'
         /\ ExitEnqueue(t) => IInv'
<1> USE DEF cpuVars, queueVars, threadVars, flowVars
<1>1. ASSUME Exit(t)
      PROVE  IInv'
  <2>1. current = t /\ kpc[t] = "run"
    BY <1>1, Zenon DEF Exit, At
  <2>2. /\ t \in attached /\ t \in runnable /\ t \notin exited /\ t \in Ready
        /\ \A w \in WaitQ : t \notin Range(waitq[w])
    BY <2>1, RunningThread, Zenon
  <2>3. /\ kpc' \in [Task -> ThreadPc \cup IdlePc] /\ kpc'[Idle] = kpc[Idle]
        /\ \A s \in Thread : kpc'[s] = IF s = t THEN "removed" ELSE kpc[s]
    BY <1>1, ConstantsAssumption, Zenon DEF IInv, Types, Task, ThreadPc, Exit, Goto
  <2>4. Types'
    BY <1>1, <2>3, Zenon DEF IInv, Types, Exit
  <2>5. Queues'
    <3>1. Ready' = Ready
      BY <1>1, <2>2, <2>3, Zenon DEF IInv, Types, Ready, Exit
    <3>2. QED
      BY <1>1, <3>1, Zenon DEF IInv, Queues, Exit
  <2>6. Waiters'
    BY <1>1, <2>2, Zenon DEF IInv, Waiters, Exit
  <2>7. Control'
    BY <1>1, <2>1, <2>2, <2>3 DEF IInv, Types, Control, Exit, ThreadPc
  <2>8. Targets'
    BY <1>1, <2>1, <2>2, <2>3 DEF IInv, Types, Targets, Exit
  <2>9. QED
    BY <2>4, <2>5, <2>6, <2>7, <2>8 DEF IInv
<1>2. ASSUME ExitSetExited(t)
      PROVE  IInv'
  <2>1. current = t /\ kpc[t] = "removed"
    BY <1>2, Zenon DEF ExitSetExited, At
  <2>2. t \in live /\ t \notin attached
    BY <2>1, Zenon DEF IInv, Control
  <2>3. /\ kpc' \in [Task -> ThreadPc \cup IdlePc] /\ kpc'[Idle] = kpc[Idle]
        /\ \A s \in Thread : kpc'[s] = IF s = t THEN "exited" ELSE kpc[s]
    BY <1>2, ConstantsAssumption, Zenon DEF IInv, Types, Task, ThreadPc, ExitSetExited, Goto
  <2>4. Types'
    BY <1>2, <2>2, <2>3, Zenon DEF IInv, Types, ExitSetExited
  <2>5. Queues'
    <3>1. Ready' = Ready \ {t}
      BY <1>2, <2>3, Zenon DEF IInv, Types, Ready, ExitSetExited
    <3>2. QED
      BY <1>2, <2>1, <3>1, Zenon DEF IInv, Queues, ExitSetExited
  <2>6. Waiters'
    BY <1>2, Zenon DEF IInv, Waiters, ExitSetExited
  <2>7. Control'
    BY <1>2, <2>1, <2>2, <2>3 DEF IInv, Types, Control, ExitSetExited, ThreadPc
  <2>8. Targets'
    BY <1>2, <2>1, <2>3 DEF IInv, Types, Targets, ExitSetExited
  <2>9. QED
    BY <2>4, <2>5, <2>6, <2>7, <2>8 DEF IInv
<1>3. ASSUME ExitEnqueue(t)
      PROVE  IInv'
  <2>1. current = t /\ kpc[t] = "exited" /\ current' = NULL
    BY <1>3 DEF ExitEnqueue, At
  <2>2. t \in exited /\ t \notin Ready /\ NULL \notin Thread
    BY <2>1, ConstantsAssumption DEF IInv, Control, Ready
  <2>3. Types'
    BY <1>3, <2>1, <2>2, Zenon DEF IInv, Types, ExitEnqueue
  <2>4. Queues'
    <3>1. Ready' = Ready /\ NULL \notin Ready
      BY <1>3, <2>2, Zenon DEF IInv, Types, Ready, ExitEnqueue
    <3>2. QED
      BY <1>3, <2>1, <2>2, <3>1, Zenon DEF IInv, Queues, ExitEnqueue
  <2>5. Waiters'
    BY <1>3, Zenon DEF IInv, Waiters, ExitEnqueue
  <2>6. Control'
    BY <1>3, <2>1, <2>2, SMTT(60) DEF IInv, Types, Control, ExitEnqueue
  <2>7. Targets'
    BY <1>3, <2>1, <2>2, Zenon DEF IInv, Types, Targets, ExitEnqueue
  <2>8. QED
    BY <2>3, <2>4, <2>5, <2>6, <2>7 DEF IInv
<1>4. QED
  BY <1>1, <1>2, <1>3, Zenon

(* uk_sched_thread_terminate of another, runnable thread, up to its release. *)
LEMMA TerminateActions ==
  ASSUME IInv, NEW t \in Thread
  PROVE  /\ \A u \in Thread : Terminate(t, u) => IInv'
         /\ TerminateSetExited(t) => IInv'
<1> USE DEF cpuVars, queueVars
<1>1. ASSUME NEW u \in Thread, Terminate(t, u)
      PROVE  IInv'
  <2>1. /\ current = t /\ kpc[t] = "run" /\ u # t
        /\ u \in runnable /\ u \in attached
    BY <1>1, Zenon DEF Terminate, BeginTerminate, At
  <2>2. /\ u \in live /\ u \notin exited /\ u \in Ready
        /\ kpc[u] \notin {"removed", "exited"}
        /\ \A w \in WaitQ : u \notin Range(waitq[w])
        /\ timer[u] # NULL /\ timer[u] \notin WaitQ
    BY <2>1, Zenon DEF IInv, Types, Waiters, Control, Ready
  <2>3. /\ QueueOK(runq, prio) /\ Range(runq) = Ready \ {current}
        /\ prio \in [Thread -> Prio]
    BY Zenon DEF IInv, Types, Queues
  <2>4. runq' = Unlink(runq, u) /\ u \in Range(runq)
    BY <1>1, <2>1, <2>2, <2>3, Zenon DEF Terminate, BeginTerminate, IsRunnable, RunqRemove
  <2>5. QueueOK(runq', prio) /\ Range(runq') = Range(runq) \ {u}
    BY <2>3, <2>4, QueueRemove, Zenon
  <2>6. /\ kpc' \in [Task -> ThreadPc \cup IdlePc] /\ kpc'[Idle] = kpc[Idle]
        /\ \A s \in Thread : kpc'[s] = IF s = t THEN "term_removed" ELSE kpc[s]
    BY <1>1, ConstantsAssumption, Zenon
    DEF IInv, Types, Task, ThreadPc, Terminate, BeginTerminate, Goto
  <2>7. /\ target' \in [Thread -> Thread \cup {NULL}]
        /\ \A s \in Thread : target'[s] = IF s = t THEN u ELSE target[s]
    BY <1>1, Zenon DEF IInv, Types, Terminate, BeginTerminate
  <2>8. Types'
    BY <1>1, <2>6, <2>7, Zenon DEF IInv, Types, Terminate, BeginTerminate
  <2>9. Queues'
    <3>1. Ready' = Ready \ {u}
      BY <1>1, <2>1, <2>2, <2>6 DEF IInv, Types, Ready, Terminate, BeginTerminate
    <3>2. QED
      BY <1>1, <2>3, <2>5, <3>1, Zenon DEF IInv, Queues, Terminate, BeginTerminate
  <2>10. Waiters'
    BY <1>1, <2>2 DEF IInv, Waiters, Terminate, BeginTerminate
  <2>11. Control'
    BY <1>1, <2>1, <2>2, <2>6
    DEF IInv, Types, Control, Terminate, BeginTerminate, ThreadPc
  <2>12. Targets'
    <3>1. \A s \in Thread : target[s] # u
      BY <2>1, ConstantsAssumption, Zenon DEF IInv, Targets
    <3>2. u # NULL /\ target[t] = NULL
      BY <2>1, ConstantsAssumption, Zenon DEF IInv, Targets
    <3>3. live' = live /\ attached' = attached \ {u} /\ current' = current
      BY <1>1, Zenon DEF Terminate, BeginTerminate
    <3>4. \A s \in Thread : target'[s] # NULL <=> kpc'[s] \in {"term_removed", "term_exited"}
      BY <2>6, <2>7, <3>2, Zenon DEF IInv, Targets
    <3>5. \A s \in Thread : target'[s] # NULL =>
            /\ target'[s] \in live' \ attached'
            /\ target'[s] # current'
            /\ kpc'[target'[s]] \notin {"removed", "exited"}
      <4>1. SUFFICES ASSUME NEW s \in Thread, target'[s] # NULL
                     PROVE  /\ target'[s] \in live' \ attached'
                            /\ target'[s] # current'
                            /\ kpc'[target'[s]] \notin {"removed", "exited"}
        BY Zenon
      <4>2. CASE s = t
        BY <2>1, <2>2, <2>6, <2>7, <3>3, <4>2
      <4>3. CASE s # t
        <5>1. target'[s] = target[s] /\ target[s] \in Thread
          BY <2>7, <4>1, <4>3, Zenon DEF IInv, Types
        <5>2. QED
          BY <2>6, <3>3, <4>1, <5>1 DEF IInv, Targets
      <4>4. QED
        BY <4>2, <4>3, Zenon
    <3>6. \A s, r \in Thread : target'[s] # NULL /\ target'[s] = target'[r] => s = r
      BY <2>7, <3>1 DEF IInv, Targets
    <3>7. QED
      BY <3>4, <3>5, <3>6 DEF Targets
  <2>13. QED
    BY <2>8, <2>9, <2>10, <2>11, <2>12 DEF IInv
<1>2. ASSUME TerminateSetExited(t)
      PROVE  IInv'
  <2> DEFINE u == target[t]
  <2>1. current = t /\ kpc[t] = "term_removed" /\ exited' = exited \cup {u}
    BY <1>2, Zenon DEF TerminateSetExited, At
  <2>2. /\ u # NULL /\ u \in Thread /\ u \in live /\ u \notin attached
        /\ kpc[u] \notin {"removed", "exited"}
    BY <2>1, Zenon DEF IInv, Types, Targets
  <2> HIDE DEF u
  <2>3. /\ kpc' \in [Task -> ThreadPc \cup IdlePc] /\ kpc'[Idle] = kpc[Idle]
        /\ \A s \in Thread : kpc'[s] = IF s = t THEN "term_exited" ELSE kpc[s]
    BY <1>2, ConstantsAssumption, Zenon DEF IInv, Types, Task, ThreadPc, TerminateSetExited, Goto
  <2>4. Types'
    BY <1>2, <2>1, <2>2, <2>3 DEF IInv, Types, TerminateSetExited
  <2>5. Queues'
    <3>1. Ready' = Ready
      BY <1>2, <2>1, <2>2, <2>3, Zenon DEF IInv, Types, Ready, TerminateSetExited
    <3>2. QED
      BY <1>2, <3>1, Zenon DEF IInv, Queues, TerminateSetExited
  <2>6. Waiters'
    BY <1>2 DEF IInv, Waiters, TerminateSetExited
  <2>7. Control'
    BY <1>2, <2>1, <2>2, <2>3 DEF IInv, Types, Control, TerminateSetExited, ThreadPc
  <2>8. Targets'
    BY <1>2, <2>1, <2>3 DEF IInv, Types, Targets, TerminateSetExited
  <2>9. QED
    BY <2>4, <2>5, <2>6, <2>7, <2>8 DEF IInv
<1>3. QED
  BY <1>1, <1>2, Zenon

(* uk_thread_release of a thread outside the scheduler, whose memory a      *)
(* later creation may reuse.                                                *)
LEMMA ReleaseKeeps ==
  ASSUME IInv, NEW u \in Thread, u \notin attached, u \notin Ready, u # current,
         Release(u),
         UNCHANGED <<attached, runq, waitq, timer, current>>,
         \A s \in Thread : kpc'[s] = "removed" <=> kpc[s] = "removed" /\ s # u
  PROVE  Queues' /\ Waiters' /\ prio' \in [Thread -> Prio]
<1>1. /\ prio' \in [Thread -> Prio]
      /\ \A v \in Thread : v # u => prio'[v] = prio[v]
  BY ConstantsAssumption, SMTT(60) DEF IInv, Types, Release, Prio
<1>2. /\ QueueOK(runq, prio) /\ Range(runq) = Ready \ {current}
      /\ \A w \in WaitQ : QueueOK(waitq[w], prio) /\ u \notin Range(waitq[w])
  BY Zenon DEF IInv, Queues, Waiters
<1>3. QueueOK(runq, prio')
  <2>1. \A v \in Range(runq) : prio'[v] = prio[v]
    BY <1>1, <1>2, QueueMembers, Zenon
  <2>2. QED
    BY <1>2, <2>1, QueueReprioritise, Zenon
<1>4. \A w \in WaitQ : QueueOK(waitq[w], prio')
  <2>1. \A w \in WaitQ : \A v \in Range(waitq[w]) : prio'[v] = prio[v]
    BY <1>1, <1>2, QueueMembers, Zenon
  <2>2. QED
    BY <1>2, <2>1, QueueReprioritise, SMTT(60)
<1>5. Ready' = Ready
  BY Zenon DEF IInv, Types, Ready, Release
<1>6. Waiters'
  BY DEF IInv, Waiters, Release
<1>7. QED
  BY <1>1, <1>2, <1>3, <1>4, <1>5, <1>6 DEF Queues

(* The release that ends uk_sched_thread_terminate, and the one of the idle *)
(* thread's garbage collection.                                             *)
LEMMA ReleaseActions ==
  ASSUME IInv
  PROVE  /\ \A t \in Thread : TerminateRelease(t) => IInv'
         /\ \A u \in Thread : IdleCollect(u) => IInv'
<1> USE DEF cpuVars, queueVars
<1>1. ASSUME NEW t \in Thread, TerminateRelease(t)
      PROVE  IInv'
  <2> DEFINE u == target[t]
  <2>1. /\ current = t /\ kpc[t] = "term_exited" /\ Release(u)
        /\ target' = [target EXCEPT ![u] = NULL, ![t] = NULL]
        /\ kpc' = [kpc EXCEPT ![u] = "run", ![t] = "run"]
        /\ UNCHANGED <<attached, queueVars, cpuVars, panic>>
    BY <1>1, Zenon DEF TerminateRelease, At
  <2>2. /\ u \in Thread /\ u \in live /\ u \notin attached /\ u # t
        /\ kpc[u] \notin {"removed", "exited"}
        /\ \A s \in Thread : target[s] = u => s = t
        /\ \A s \in Thread : target[s] # t
    BY <2>1, ConstantsAssumption, Zenon DEF IInv, Types, Targets
  <2> HIDE DEF u
  <2>3. /\ kpc' \in [Task -> ThreadPc \cup IdlePc] /\ kpc'[Idle] = kpc[Idle]
        /\ \A s \in Thread : kpc'[s] = IF s \in {t, u} THEN "run" ELSE kpc[s]
    BY <2>1, <2>2, ConstantsAssumption, Zenon DEF IInv, Types, Task, ThreadPc
  <2>4. /\ target' \in [Thread -> Thread \cup {NULL}]
        /\ \A s \in Thread : target'[s] = IF s \in {t, u} THEN NULL ELSE target[s]
    BY <2>1, <2>2, Zenon DEF IInv, Types
  <2>5. u \notin Ready /\ u \notin exitedq /\ t \in attached /\ t \in runnable
    BY <2>1, <2>2 DEF IInv, Types, Ready, Control
  <2>6. Queues' /\ Waiters' /\ prio' \in [Thread -> Prio]
    <3>1. \A s \in Thread : kpc'[s] = "removed" <=> kpc[s] = "removed" /\ s # u
      <4>1. kpc[t] # "removed" /\ kpc[u] # "removed"
        BY <2>1, <2>2
      <4>2. QED
        BY <2>3, <4>1
    <3>2. UNCHANGED <<attached, runq, waitq, timer, current>> /\ u # current
      BY <2>1, <2>2, Zenon
    <3>3. QED
      BY <2>1, <2>2, <2>5, <3>1, <3>2, ReleaseKeeps
  <2>7. Types'
    BY <2>1, <2>2, <2>3, <2>4, <2>5, <2>6 DEF IInv, Types, Release
  <2>8. Control'
    <3>1. /\ UNCHANGED <<attached, exitedq, current, pending, irq>>
          /\ live' = live \ {u} /\ runnable' = runnable \ {u} /\ exited' = exited \ {u}
      BY <2>1, Zenon DEF Release
    <3>2. /\ \A s \in Thread : kpc'[s] \in ThreadPc
          /\ kpc'[Idle] \in IdlePc
          /\ pending' => irq' # "none"
      BY <2>3, <3>1, Zenon DEF IInv, Control, ThreadPc
    <3>3. \A s \in attached' : s \notin exited' /\ kpc'[s] \notin {"removed", "exited"}
      BY <2>3, <3>1, Zenon DEF IInv, Types, Control
    <3>4. \A s \in Thread :
            /\ kpc'[s] = "removed" => s \in runnable' /\ s \notin exited'
            /\ kpc'[s] = "exited" => s \in exited'
            /\ s \notin live' => kpc'[s] = "run"
      BY <2>3, <3>1, Zenon DEF IInv, Control
    <3>5. current' = t /\ t \in live' /\ t \in attached' /\ t \in runnable'
      BY <2>1, <2>2, <2>5, <3>1 DEF IInv, Types
    <3>6. \A s \in exitedq' : kpc'[s] = "exited" /\ s # current'
      BY <2>1, <2>3, <2>5, <3>1 DEF IInv, Types, Control
    <3>7. QED
      BY <3>2, <3>3, <3>4, <3>5, <3>6, Zenon DEF Control
  <2>9. Targets'
    <3>1. \A s \in Thread : target'[s] # NULL <=> kpc'[s] \in {"term_removed", "term_exited"}
      BY <2>3, <2>4 DEF IInv, Targets
    <3>2. \A s \in Thread : target'[s] # NULL =>
            /\ target'[s] \in live' \ attached'
            /\ target'[s] # current'
            /\ kpc'[target'[s]] \notin {"removed", "exited"}
      <4>1. SUFFICES ASSUME NEW s \in Thread, target'[s] # NULL
                     PROVE  /\ target'[s] \in live' \ attached'
                            /\ target'[s] # current'
                            /\ kpc'[target'[s]] \notin {"removed", "exited"}
        BY Zenon
      <4>2. target'[s] = target[s] /\ target[s] \in Thread /\ target[s] \notin {t, u}
        BY <2>2, <2>4, <4>1, Zenon DEF IInv, Types
      <4>3. kpc'[target[s]] = kpc[target[s]] /\ target[s] # NULL
        BY <2>3, <4>1, <4>2, Zenon
      <4>4. live' = live \ {u} /\ UNCHANGED <<attached, current>>
        BY <2>1, Zenon DEF Release
      <4>5. QED
        BY <4>2, <4>3, <4>4, Zenon DEF IInv, Targets
    <3>3. \A s, r \in Thread : target'[s] # NULL /\ target'[s] = target'[r] => s = r
      BY <2>4 DEF IInv, Targets
    <3>4. QED
      BY <3>1, <3>2, <3>3 DEF Targets
  <2>10. QED
    BY <2>6, <2>7, <2>8, <2>9 DEF IInv
<1>2. ASSUME NEW u \in Thread, IdleCollect(u)
      PROVE  IInv'
  <2>1. /\ current = Idle /\ u \in exitedq /\ exitedq' = exitedq \ {u} /\ Release(u)
        /\ kpc' = [kpc EXCEPT ![u] = "run"]
        /\ UNCHANGED <<attached, runq, waitq, timer, cpuVars, target, panic>>
    BY <1>2, Zenon DEF IdleCollect, At, Goto
  <2>2. /\ u \in exited /\ u \notin attached /\ kpc[u] = "exited" /\ u # current
        /\ u \notin Ready /\ target[u] = NULL
        /\ \A s \in Thread : target[s] # u
    BY <2>1, ConstantsAssumption DEF IInv, Types, Control, Targets, Ready
  <2>3. /\ kpc' \in [Task -> ThreadPc \cup IdlePc] /\ kpc'[Idle] = kpc[Idle]
        /\ \A s \in Thread : kpc'[s] = IF s = u THEN "run" ELSE kpc[s]
    BY <2>1, ConstantsAssumption, Zenon DEF IInv, Types, Task, ThreadPc
  <2>4. Queues' /\ Waiters' /\ prio' \in [Thread -> Prio]
    <3>1. \A s \in Thread : kpc'[s] = "removed" <=> kpc[s] = "removed" /\ s # u
      BY <2>2, <2>3, Zenon
    <3>2. UNCHANGED <<attached, runq, waitq, timer, current>>
      BY <2>1, Zenon
    <3>3. QED
      BY <2>1, <2>2, <3>1, <3>2, ReleaseKeeps, Zenon
  <2>5. Types'
    BY <2>1, <2>2, <2>3, <2>4 DEF IInv, Types, Release
  <2>6. Control'
    <3>1. /\ UNCHANGED <<attached, current, pending, irq>>
          /\ live' = live \ {u} /\ runnable' = runnable \ {u} /\ exited' = exited \ {u}
          /\ exitedq' = exitedq \ {u}
      BY <2>1, Zenon DEF Release
    <3>2. /\ \A s \in Thread : kpc'[s] \in ThreadPc
          /\ kpc'[Idle] \in IdlePc
          /\ pending' => irq' # "none"
      BY <2>3, <3>1, Zenon DEF IInv, Control, ThreadPc
    <3>3. \A s \in attached' : s \notin exited' /\ kpc'[s] \notin {"removed", "exited"}
      BY <2>2, <2>3, <3>1 DEF IInv, Types, Control
    <3>4. \A s \in Thread :
            /\ kpc'[s] = "removed" => s \in runnable' /\ s \notin exited'
            /\ kpc'[s] = "exited" => s \in exited'
            /\ s \notin live' => kpc'[s] = "run"
      BY <2>3, <3>1, Zenon DEF IInv, Control
    <3>5. current' \notin Thread
      BY <2>1, <3>1, ConstantsAssumption, Zenon
    <3>6. \A s \in exitedq' : kpc'[s] = "exited" /\ s # current'
      BY <2>1, <2>3, <3>1, Zenon DEF IInv, Types, Control
    <3>7. QED
      BY <3>2, <3>3, <3>4, <3>5, <3>6 DEF Control
  <2>7. Targets'
    <3>1. /\ UNCHANGED <<attached, current, target>> /\ live' = live \ {u}
          /\ \A s \in Thread : target[s] # NULL =>
               target[s] \in Thread /\ target[s] # u /\ kpc'[target[s]] = kpc[target[s]]
      BY <2>1, <2>2, <2>3, Zenon DEF IInv, Types, Release
    <3>2. \A s \in Thread : target'[s] # NULL <=> kpc'[s] \in {"term_removed", "term_exited"}
      BY <2>2, <2>3, <3>1, Zenon DEF IInv, Targets
    <3>3. QED
      BY <3>1, <3>2, Zenon DEF IInv, Targets
  <2>8. QED
    BY <2>4, <2>5, <2>6, <2>7 DEF IInv
<1>3. QED
  BY <1>1, <1>2, Zenon

-----------------------------------------------------------------------------
(***************************************************************************)
(* The invariant holds in every reachable state.                           *)
(***************************************************************************)

(* The state in which the scheduler starts. *)
LEMMA InitInvariant == Init => IInv
<1>1. SUFFICES ASSUME Init
               PROVE  IInv
  BY Zenon
<1>2. Types
  <2>1. waitq \in [WaitQ -> Seq(Thread)]
    BY <1>1 DEF Init
  <2>2. kpc \in [Task -> ThreadPc \cup IdlePc]
    BY <1>1 DEF Init, ThreadPc, IdlePc
  <2>3. prio \in [Thread -> Prio] /\ current \in Task
    BY <1>1, ConstantsAssumption DEF Init, Prio, Task
  <2>4. /\ timer \in [Thread -> WaitQ \cup {NULL, Off}]
        /\ target \in [Thread -> Thread \cup {NULL}]
    BY <1>1, Zenon DEF Init
  <2>5. QED
    BY <1>1, <2>1, <2>2, <2>3, <2>4, ConstantsAssumption DEF Init, Types
<1>3. Ready = {Main}
  BY <1>1, ConstantsAssumption, Zenon DEF Init, Ready
<1>4. Queues
  BY <1>1, <1>3, EmptyQueue, Zenon DEF Init, Queues
<1>5. Waiters
  BY <1>1, EmptyQueue, ConstantsAssumption, Zenon DEF Init, Waiters
<1>6. Control
  BY <1>1, ConstantsAssumption, Zenon DEF Init, Control, Task, ThreadPc, IdlePc
<1>7. Targets
  BY <1>1, ConstantsAssumption, Zenon DEF Init, Targets, Task
<1>8. QED
  BY <1>2, <1>4, <1>5, <1>6, <1>7 DEF IInv

(* Every step of every action preserves the invariant. *)
LEMMA NextInvariant == IInv /\ [Next]_vars => IInv'
<1>1. SUFFICES ASSUME IInv, [Next]_vars
               PROVE  IInv'
  BY Zenon
<1>2. CASE UNCHANGED vars
  <2>1. /\ UNCHANGED <<threadVars, queueVars, current, target>>
        /\ UNCHANGED <<pending, irq, waking, panic, kpc>>
    BY <1>2, Zenon DEF vars, cpuVars, flowVars
  <2>2. QED
    BY <1>1, <2>1, FrameStep, Zenon DEF IInv, Types, Control
<1>3. ASSUME NEW t \in Thread, ThreadStep(t)
      PROVE  IInv'
  BY <1>1, <1>3, ScheduleActions, SetPriorityStep, BlockedStep, WaitStep, CreateStep,
     ExitActions, TerminateActions, ReleaseActions
  DEF ThreadStep, Task
<1>4. CASE WakeCall
  BY <1>1, <1>4, WakeActions, FrameActions, Zenon DEF WakeCall
<1>5. CASE WakeStep
  BY <1>1, <1>5, WakeActions, Zenon
<1>6. CASE WakeDone
  BY <1>1, <1>6, FrameActions, Zenon
<1>7. CASE ExitLeave
  BY <1>1, <1>7, ScheduleActions, Zenon
<1>8. CASE IdleStep
  BY <1>1, <1>8, ReleaseActions, FrameActions, SwitchActions, ScheduleActions, Zenon
  DEF IdleStep, Task
<1>9. CASE IrqStep
  BY <1>1, <1>9, FrameActions, TimerExpireStep, SwitchActions, Zenon DEF IrqStep
<1>10. CASE Halted
  BY <1>2, <1>10, Zenon DEF Halted
<1>11. QED
  BY <1>1, <1>2, <1>3, <1>4, <1>5, <1>6, <1>7, <1>8, <1>9, <1>10 DEF Next

(* The inductive invariant holds in every reachable state of the kernel.    *)
LEMMA InvariantHolds == Spec => []IInv
BY InitInvariant, NextInvariant, PTL DEF Spec

(* Type correctness of the kernel state, for any set of threads, wait       *)
(* queues and priorities.                                                   *)
THEOREM TypeCorrect == Spec => []TypeOK
<1>1. IInv => TypeOK
  <2>1. ASSUME IInv
        PROVE  runq \in Seq(Thread)
    BY <2>1, Zenon DEF IInv, Queues, QueueOK
  <2>2. QED
    BY <2>1, Zenon DEF IInv, Types, TypeOK
<1>2. QED
  BY <1>1, InvariantHolds, PTL

(* No runnable thread is ever lost from the run queue or queued twice,      *)
(* whatever interleaving of wake-ups, timeouts, blocking calls, priority    *)
(* changes and interrupt-time switches.                                     *)
THEOREM RunQueueIsExact == Spec => []RunQueueExact
<1>1. IInv => RunQueueExact
  BY DEF IInv, Queues, QueueOK, RunQueueExact
<1>2. QED
  BY <1>1, InvariantHolds, PTL

(* Every queue stays in order of descending priority: its head is always a  *)
(* best choice.                                                             *)
THEOREM QueuesStaySorted == Spec => []QueuesSorted
<1>1. IInv => QueuesSorted
  BY Zenon DEF IInv, Queues, QueueOK, QueuesSorted
<1>2. QED
  BY <1>1, InvariantHolds, PTL

(* A waiter is blocked, in one queue only, and its timer names that queue.  *)
THEOREM WaitersAreBlocked == Spec => []WaitersBlocked
<1>1. IInv => WaitersBlocked
  <2>1. SUFFICES ASSUME IInv
                 PROVE  WaitersBlocked
    BY Zenon
  <2>2. \A w \in WaitQ : IsInjective(waitq[w]) /\ Range(waitq[w]) \subseteq attached \ runnable
    BY <2>1, Zenon DEF IInv, Queues, QueueOK, Waiters
  <2>3. \A w \in WaitQ : Range(waitq[w]) \subseteq Thread
    BY <2>1, QueueMembers, Zenon DEF IInv, Queues
  <2>4. \A w, v \in WaitQ : w # v => Range(waitq[w]) \cap Range(waitq[v]) = {}
    BY <2>1, <2>3, Zenon DEF IInv, Waiters
  <2>5. \A t \in Thread :
          /\ timer[t] = NULL => t \in attached \ runnable /\ ~InWaitq(t)
          /\ timer[t] \in WaitQ => t \in Range(waitq[timer[t]])
    BY <2>1, Zenon DEF IInv, Waiters, InWaitq
  <2>6. QED
    BY <2>2, <2>4, <2>5, Zenon DEF WaitersBlocked
<1>2. QED
  BY <1>1, InvariantHolds, PTL

(* The assertion !uk_thread_is_runnable(t) of uk_sched_thread_woken never   *)
(* fails, whichever of a wake-up and a timeout comes first.                 *)
THEOREM AssertionsHold == Spec => []AssertsHold
<1>1. IInv => AssertsHold
  BY Zenon DEF IInv, Types, AssertsHold
<1>2. QED
  BY <1>1, InvariantHolds, PTL

(* Nothing in the kernel refers to a thread whose memory was given back.    *)
THEOREM NoDanglingThread == Spec => []ReleasedUnreferenced
<1>1. IInv => ReleasedUnreferenced
  <2>1. SUFFICES ASSUME IInv, NEW t \in Thread, t \notin live
                 PROVE  /\ t # current /\ t \notin Range(runq) /\ t \notin exitedq
                        /\ timer[t] = Off /\ ~InWaitq(t)
                        /\ \A s \in Thread : target[s] # t
    BY Zenon DEF ReleasedUnreferenced
  <2>2. t # current /\ t \notin exitedq
    BY <2>1, Zenon DEF IInv, Types, Control
  <2>3. t \notin Range(runq)
    BY <2>1, Zenon DEF IInv, Queues, Ready
  <2>4. ~InWaitq(t)
    BY <2>1, Zenon DEF IInv, Types, Waiters, InWaitq
  <2>5. timer[t] = Off
    <3>1. timer[t] # NULL
      BY <2>1, Zenon DEF IInv, Types, Waiters
    <3>2. timer[t] \notin WaitQ
      BY <2>1, <2>4, Zenon DEF IInv, Waiters, InWaitq
    <3>3. QED
      BY <2>1, <3>1, <3>2, Zenon DEF IInv, Types
  <2>6. \A s \in Thread : target[s] # t
    BY <2>1, ConstantsAssumption, Zenon DEF IInv, Types, Targets
  <2>7. QED
    BY <2>2, <2>3, <2>4, <2>5, <2>6, Zenon
<1>2. QED
  BY <1>1, InvariantHolds, PTL

(* A timeout is never lost: a timer is disarmed only in a step that makes   *)
(* its thread runnable, or that starts to wake the queue the thread is in.  *)
THEOREM NoTimeoutLost == Spec => TimeoutsNotLost
<1> DEFINE kept(t) == timer[t] # Off /\ timer'[t] = Off =>
             \/ t \in runnable'
             \/ waking' # NULL /\ t \in Range(waitq'[waking'])
<1>1. ASSUME IInv, NEW t \in Thread, UNCHANGED timer
      PROVE  kept(t)
  BY <1>1, Zenon
<1>2. ASSUME IInv, NEW t \in Thread, NEW u \in Thread, NEW x \in WaitQ \cup {NULL},
             timer' = timer \/ timer' = [timer EXCEPT ![u] = x]
      PROVE  kept(t)
  BY <1>2, ConstantsAssumption, Zenon DEF IInv, Types
<1>3. ASSUME IInv, NEW t \in Thread, NEW w \in WaitQ, waitq[w] # <<>>,
             waitq' = [waitq EXCEPT ![w] = Tail(@)],
             timer' = [timer EXCEPT ![Head(waitq[w])] = Off],
             Wake(Head(waitq[w]))
      PROVE  kept(t)
  <2> DEFINE u == Head(waitq[w])
  <2>1. u \in Thread /\ u \notin runnable
        /\ \A s \in Thread : timer'[s] = IF s = u THEN Off ELSE timer[s]
    BY <1>3, HeadLeaves, Zenon
  <2>2. Wake(u)
    BY <1>3
  <2> HIDE DEF u
  <2>3. runnable' = runnable \cup {u}
    BY <2>1, <2>2, ConstantsAssumption DEF Wake, IsRunnable
  <2>4. QED
    BY <2>1, <2>3, Zenon
<1>4. ASSUME IInv, NEW t \in Thread, NEW u \in Thread, TimerExpire(u)
      PROVE  kept(t)
  <2>1. /\ timer \in [Thread -> WaitQ \cup {NULL, Off}]
        /\ timer' = [timer EXCEPT ![u] = Off] /\ timer[u] # Off
    BY <1>4, Zenon DEF IInv, Types, TimerExpire
  <2>2. CASE t # u
    BY <2>1, <2>2, Zenon
  <2>3. CASE t = u /\ timer[u] = NULL
    <3>1. u \notin runnable /\ Wake(u)
      BY <1>4, <2>3, Zenon DEF IInv, Waiters, TimerExpire
    <3>2. QED
      BY <2>3, <3>1, ConstantsAssumption, Zenon DEF Wake, IsRunnable
  <2>4. CASE t = u /\ timer[u] # NULL
    <3>1. timer[u] \in WaitQ /\ waking' = timer[u] /\ waitq' = waitq
      BY <1>4, <2>1, <2>4, Zenon DEF TimerExpire
    <3>2. u \in Range(waitq[timer[u]])
      BY <1>4, <3>1, Zenon DEF IInv, Waiters
    <3>3. QED
      BY <2>4, <3>1, <3>2, ConstantsAssumption, Zenon
  <2>5. QED
    BY <2>2, <2>3, <2>4, Zenon
<1> HIDE DEF kept
<1>5. IInv /\ [Next]_vars => [\A t \in Thread : kept(t)]_vars
  <2>1. SUFFICES ASSUME IInv, Next, NEW t \in Thread
                 PROVE  kept(t)
    BY Zenon
  <2> USE DEF queueVars
  <2>2. ASSUME NEW s \in Thread, ThreadStep(s)
        PROVE  kept(t)
    <3>1. CASE \E u \in Thread, timed \in BOOLEAN : Blocked(s, u, timed)
      BY <1>2, <2>1, <3>1, Zenon DEF Blocked
    <3>2. CASE \E w \in WaitQ, timed \in BOOLEAN : Wait(s, w, timed)
      BY <1>2, <2>1, <3>2, Zenon DEF Wait
    <3>3. CASE UNCHANGED timer
      BY <1>1, <2>1, <3>3, Zenon
    <3>4. QED
      BY <2>2, <3>1, <3>2, <3>3
      DEF ThreadStep, Yield, Reschedule, SetPriority, Create, Exit, ExitSetExited,
          ExitEnqueue, Terminate, BeginTerminate, TerminateSetExited, TerminateRelease
  <2>3. CASE WakeCall
    <3>1. ASSUME NEW w \in WaitQ, WakeUpOne(w)
          PROVE  kept(t)
      BY <1>3, <2>1, <3>1, Zenon DEF WakeUpOne
    <3>2. QED
      BY <1>1, <2>1, <2>3, <3>1 DEF WakeCall, Woken, WakeUp
  <2>4. CASE WakeStep
    <3>1. waking \in WaitQ
      BY <2>1, <2>4 DEF WakeStep, IInv, Types
    <3>2. QED
      BY <1>3, <2>1, <2>4, <3>1 DEF WakeStep
  <2>5. CASE WakeDone \/ ExitLeave \/ IdleStep \/ Halted
    BY <1>1, <2>1, <2>5, Zenon
    DEF WakeDone, ExitLeave, IdleStep, IdleCollect, IdleCollected, IdlePick, IdleWake,
        Reschedule, Halted, vars
  <2>6. CASE IrqStep
    BY <1>1, <1>4, <2>1, <2>6, Zenon DEF IrqStep, IrqEnter, IrqExit
  <2>7. QED
    BY <2>1, <2>2, <2>3, <2>4, <2>5, <2>6 DEF Next
<1>6. QED
  BY <1>5, InvariantHolds, PTL DEF Spec, TimeoutsNotLost, kept

-----------------------------------------------------------------------------
(***************************************************************************)
(* Who may be overtaken.                                                   *)
(***************************************************************************)

(* After schedprio_schedule nobody in the run queue ranks above the thread  *)
(* that has the CPU.                                                        *)
LEMMA NoneAbove ==
  ASSUME NEW q, NEW pr \in [Thread -> Prio], QueueOK(q, pr),
         current \in Task \cup {NULL}, current \notin Range(q),
         runnable \subseteq Thread,
         Schedule(q, pr), current' \in Thread
  PROVE  \A t \in Range(runq') : ~(pr[t] > pr[current'])
<1>1. SUFFICES ASSUME NEW t \in Range(runq')
               PROVE  ~(pr[t] > pr[current'])
  OBVIOUS
<1>2. /\ QueueOK(runq', pr)
      /\ \/ current' = Idle
         \/ current' \in Range(q)
         \/ current' = current /\ IsRunnable(current)
      /\ t \in Range(q) \/ (t = current /\ t # Idle /\ IsRunnable(t))
  BY ScheduleCorrect, Zenon
<1>3. t \in Thread /\ current' # Idle
  BY <1>2, QueueMembers, ConstantsAssumption, Zenon
<1>4. pr[t] \in Int /\ pr[current'] \in Int
  BY <1>3, PriorityOrder
<1>5. current' = SelectNext(q, pr, current)
  BY Zenon DEF Schedule
<1>6. CASE q = <<>>
  <2>1. Range(q) = {}
    BY <1>6, EmptyQueue
  <2>2. t = current /\ current' = current
    BY <1>2, <1>3, <2>1, Zenon
  <2>3. QED
    BY <1>4, <2>2
<1>7. CASE q # <<>>
  <2> DEFINE h == Head(q)
  <2>1. h \in Thread /\ h # Idle /\ h \in Range(q) /\ \A v \in Range(q) : pr[v] <= pr[h]
    BY <1>7, HeadIsBest, QueueHead, ConstantsAssumption
  <2> HIDE DEF h
  <2>2. pr[h] \in Int
    BY <2>1, PriorityOrder
  <2>3. t = current => (Overtakes(pr, h, current) /\ current' = h) \/ current' = current
    <3>1. t = current => IsRunnable(current)
      BY <1>2
    <3>2. QED
      BY <1>5, <1>7, <3>1 DEF SelectNext, h
  <2>4. \/ current' = h
        \/ current' = current /\ IsRunnable(current) /\ ~Overtakes(pr, h, current)
    BY <1>5, <1>7, Zenon DEF SelectNext, h
  <2>5. ASSUME current \in Thread
        PROVE  /\ pr[current] \in Int
               /\ Overtakes(pr, h, current) => pr[current] <= pr[h]
               /\ ~Overtakes(pr, h, current) => pr[h] <= pr[current]
    <3>1. PrioOf(pr, current) = pr[current] /\ PrioOf(pr, h) = pr[h]
      BY <2>1, <2>5, ConstantsAssumption, Zenon DEF PrioOf
    <3>2. pr[current] \in Int
      BY <2>5, PriorityOrder
    <3>3. QED
      BY <2>2, <3>1, <3>2 DEF Overtakes
  <2>6. CASE t \in Range(q)
    <3>1. pr[t] <= pr[h]
      BY <2>1, <2>6
    <3>2. QED
      BY <1>4, <2>2, <2>4, <2>5, <3>1
  <2>7. CASE t = current
    BY <1>3, <1>4, <2>2, <2>3, <2>5, <2>7
  <2>8. QED
    BY <1>2, <2>6, <2>7
<1>8. QED
  BY <1>6, <1>7

(* uk_waitq_wake_up, called from a thread, ends in a reschedule: while its  *)
(* loop runs outside an interrupt, the caller stands before that call.      *)
LoopReschedules ==
  waking # NULL /\ irq = "none" => current \in Thread /\ kpc[current] = "resched"

(* The caller of uk_waitq_wake_up stays where it is until the loop ends.    *)
LEMMA LoopReschedulesHolds == Spec => []LoopReschedules
<1>1. Init => LoopReschedules
  BY Zenon DEF Init, LoopReschedules
<1>2. IInv /\ LoopReschedules /\ [Next]_vars => LoopReschedules'
  <2>1. SUFFICES ASSUME IInv, LoopReschedules, [Next]_vars
                 PROVE  LoopReschedules'
    BY Zenon
  <2> USE DEF threadVars, queueVars, cpuVars, flowVars
  <2>2. ASSUME UNCHANGED <<waking, irq, current, kpc>>
        PROVE  LoopReschedules'
    BY <2>1, <2>2, Zenon DEF LoopReschedules
  <2>3. ASSUME waking' = NULL
        PROVE  LoopReschedules'
    BY <2>3, Zenon DEF LoopReschedules
  <2>4. ASSUME Quiet, UNCHANGED waking
        PROVE  LoopReschedules'
    BY <2>3, <2>4, Zenon DEF Quiet
  <2>5. ASSUME NEW t \in Thread, ThreadStep(t)
        PROVE  LoopReschedules'
    <3>1. Quiet /\ UNCHANGED waking
      BY <2>5
      DEF ThreadStep, At, Yield, Reschedule, SetPriority, Blocked, Wait, Create, Exit,
          ExitSetExited, ExitEnqueue, Terminate, BeginTerminate, TerminateSetExited,
          TerminateRelease
    <3>2. QED
      BY <2>4, <3>1, Zenon
  <2>6. CASE WakeCall
    <3>1. ASSUME NEW w \in WaitQ, WakeUp(w)
          PROVE  LoopReschedules'
      <4>1. CASE irq = "none"
        <5>1. current \in Thread /\ kpc' = [kpc EXCEPT ![current] = "resched"]
          BY <3>1, <4>1, Zenon DEF WakeUp, Caller, Goto
        <5>2. current' = current /\ kpc'[current] = "resched"
          BY <2>1, <3>1, <5>1 DEF WakeUp, IInv, Types, Task
        <5>3. QED
          BY <5>1, <5>2, Zenon DEF LoopReschedules
      <4>2. CASE irq # "none"
        BY <3>1, <4>2, Zenon DEF WakeUp, LoopReschedules
      <4>3. QED
        BY <4>1, <4>2, Zenon
    <3>2. QED
      BY <2>2, <2>6, <3>1, Zenon DEF WakeCall, Woken, WakeUpOne
  <2>7. CASE WakeStep
    BY <2>2, <2>7, Zenon DEF WakeStep
  <2>8. CASE WakeDone
    BY <2>3, <2>8, Zenon DEF WakeDone
  <2>9. CASE ExitLeave \/ IdleStep
    BY <2>4, <2>9, Zenon
    DEF ExitLeave, IdleStep, IdleCollect, IdleCollected, IdlePick, IdleWake, Reschedule, At
  <2>10. CASE IrqStep
    <3>1. ASSUME NEW t \in Thread, TimerExpire(t)
          PROVE  LoopReschedules'
      BY <3>1, Zenon DEF TimerExpire, LoopReschedules
    <3>2. QED
      BY <2>4, <2>10, <3>1, Zenon DEF IrqStep, IrqEnter, IrqExit
  <2>11. CASE Halted \/ UNCHANGED vars
    BY <2>2, <2>11, Zenon DEF Halted, vars
  <2>12. QED
    BY <2>1, <2>5, <2>6, <2>7, <2>8, <2>9, <2>10, <2>11, Zenon DEF Next
<1>3. QED
  BY <1>1, <1>2, InvariantHolds, PTL DEF Spec

(* A step that keeps the CPU where it is, adds nobody to the run queue and  *)
(* lifts nobody above the running thread leaves no inversion that was not   *)
(* there before.                                                            *)
LEMMA InversionWasThere ==
  ASSUME Inversion', kpc[current] # "resched",
         UNCHANGED <<current, waking, panic, pending>>,
         \A v \in Range(runq') : prio'[v] > prio'[current] =>
           v \in Range(runq) /\ prio[v] > prio[current]
  PROVE  Inversion
BY Zenon DEF Inversion, Quiet

(* A scheduling decision leaves no inversion. *)
LEMMA ScheduleEndsInversion ==
  ASSUME IInv, NEW q, prio' \in [Thread -> Prio], QueueOK(q, prio'),
         Range(q) = Ready \ {current}, Schedule(q, prio')
  PROVE  ~Inversion'
<1>1. current \in Task \cup {NULL} /\ current \notin Range(q) /\ runnable \subseteq Thread
  BY DEF IInv, Types
<1>2. current' \in Thread => \A t \in Range(runq') : ~(prio'[t] > prio'[current'])
  BY <1>1, NoneAbove
<1>3. QED
  BY <1>2, Zenon DEF Inversion

(* The calls of the running thread: each hands the CPU over to a better     *)
(* thread, or stands before a reschedule, or lifts nobody above the caller. *)
LEMMA ThreadStepInversion ==
  ASSUME IInv, NEW t \in Thread, ThreadStep(t), Inversion'
  PROVE  Inversion
<1> USE DEF threadVars, queueVars, cpuVars, flowVars
<1>1. /\ QueueOK(runq, prio) /\ Range(runq) = Ready \ {current} /\ prio \in [Thread -> Prio]
      /\ kpc \in [Task -> ThreadPc \cup IdlePc] /\ t \in Task
  BY DEF IInv, Types, Queues, Task
<1>2. ASSUME Schedule(runq, prio), UNCHANGED prio
      PROVE  FALSE
  BY <1>1, <1>2, ScheduleEndsInversion
<1>3. ASSUME kpc' = [kpc EXCEPT ![t] = "resched"], current' = t
      PROVE  FALSE
  <2>1. kpc'[current'] = "resched"
    BY <1>1, <1>3
  <2>2. QED
    BY <2>1 DEF Inversion
<1>4. ASSUME current = t, UNCHANGED <<prio, runq>>, kpc[t] # "resched",
             UNCHANGED <<current, waking, panic, pending>>
      PROVE  Inversion
  BY <1>4, InversionWasThere, Zenon
<1>5. ASSUME NEW u \in Thread, current = t, u \in Range(runq), UNCHANGED prio,
             runq' = Unlink(runq, u), kpc[t] # "resched",
             UNCHANGED <<current, waking, panic, pending>>
      PROVE  Inversion
  <2>1. Range(runq') \subseteq Range(runq)
    BY <1>1, <1>5, QueueRemove
  <2>2. QED
    BY <1>5, <2>1, InversionWasThere, Zenon
<1>6. ASSUME Yield(t) \/ Reschedule(t)
      PROVE  Inversion
  BY <1>2, <1>6, Zenon DEF Yield, Reschedule
<1>7. ASSUME NEW u \in Thread, NEW p \in Prio, SetPriority(t, u, p)
      PROVE  Inversion
  <2> DEFINE overtaken == IF u = t THEN p < prio[u] ELSE Overtakes(prio', u, t)
  <2>1. PICK q : q = IF u = t THEN runq ELSE PrioInsert(Unlink(runq, u), prio', u)
    OBVIOUS
  <2>2. /\ current = t /\ kpc[t] = "run" /\ prio' \in [Thread -> Prio]
        /\ prio'[u] = p /\ \A v \in Thread : v # u => prio'[v] = prio[v]
        /\ QueueOK(q, prio') /\ Range(q) = Ready \ {current}
        /\ IF overtaken THEN Schedule(q, prio') ELSE runq' = q /\ UNCHANGED current
    <3>1. Requeued(t, u, p, q)
      BY <1>7, <2>1, Requeue, Zenon
    <3>2. QED
      BY <3>1, Zenon DEF Requeued
  <2>3. p # prio[u] /\ UNCHANGED <<waking, panic, pending>>
    BY <1>7, Zenon DEF SetPriority
  <2>4. CASE overtaken
    <3>1. Schedule(q, prio')
      BY <2>2, <2>4, Zenon
    <3>2. QED
      BY <2>2, <3>1, ScheduleEndsInversion, Zenon
  <2>5. CASE ~overtaken
    <3>1. runq' = q /\ current' = t
      BY <2>2, <2>5, Zenon
    <3>2. ASSUME NEW v \in Range(runq'), prio'[v] > prio'[t]
          PROVE  v \in Range(runq) /\ prio[v] > prio[t]
      <4>1. v \in Range(runq) /\ v \in Thread /\ v # t
        BY <1>1, <2>2, <3>1, QueueMembers, Zenon
      <4>2. /\ prio[v] \in Int /\ prio'[v] \in Int /\ prio[t] \in Int /\ prio'[t] \in Int
            /\ p \in Int
        BY <1>1, <2>2, <4>1, PriorityOrder, ConstantsAssumption DEF Prio
      <4>3. CASE u = t
        <5>1. ~(p < prio[t]) /\ prio'[t] = p /\ prio'[v] = prio[v]
          BY <2>2, <2>5, <4>1, <4>3
        <5>2. QED
          BY <3>2, <4>1, <4>2, <5>1
      <4>4. CASE u # t
        <5>1. prio'[t] = prio[t] /\ (v # u => prio'[v] = prio[v])
          BY <2>2, <4>1, <4>4
        <5>2. PrioOf(prio', t) = prio'[t] /\ PrioOf(prio', u) = prio'[u]
          BY ConstantsAssumption DEF PrioOf
        <5>3. ~Overtakes(prio', u, t)
          BY <2>5, <4>4
        <5>4. v # u
          BY <3>2, <4>2, <5>2, <5>3 DEF Overtakes
        <5>5. QED
          BY <3>2, <4>1, <5>1, <5>4
      <4>5. QED
        BY <4>3, <4>4
    <3>3. kpc[current] # "resched" /\ UNCHANGED <<current, waking, panic, pending>>
      BY <2>2, <2>3, <3>1
    <3>4. QED
      BY <2>2, <3>1, <3>2, <3>3, InversionWasThere
  <2>6. QED
    BY <2>4, <2>5
<1>8. ASSUME NEW u \in Thread, NEW timed \in BOOLEAN, Blocked(t, u, timed)
      PROVE  Inversion
  <2>1. /\ current = t /\ kpc[t] = "run" /\ u \in attached /\ IsRunnable(u)
        /\ UNCHANGED <<prio, current, waking, panic, pending>>
    BY <1>8, Zenon DEF Blocked, At
  <2>2. CASE u = t
    BY <1>3, <1>8, <2>1, <2>2, Zenon DEF Blocked, Goto
  <2>3. CASE u # t
    <3>1. u \in Range(runq)
      BY <1>1, <2>1, <2>3, ConstantsAssumption DEF IInv, Types, Ready, IsRunnable
    <3>2. runq' = Unlink(runq, u)
      BY <1>8, <2>3, Zenon DEF Blocked, RunqRemove
    <3>3. QED
      BY <1>5, <2>1, <3>1, <3>2
  <2>4. QED
    BY <2>2, <2>3
<1>9. ASSUME NEW w \in WaitQ, NEW timed \in BOOLEAN, Wait(t, w, timed)
      PROVE  Inversion
  BY <1>3, <1>9, Zenon DEF Wait, At, Goto
<1>10. ASSUME NEW u \in Thread, NEW p \in Prio \cup {MaxPrio + 1}, Create(t, u, p)
       PROVE  Inversion
  <2>1. /\ current = t /\ kpc[t] = "run"
        /\ UNCHANGED <<current, waking, panic, pending>>
    BY <1>10, Zenon DEF Create, At
  <2>2. CASE p \in Prio
    BY <1>3, <1>10, <2>1, <2>2, Zenon DEF Create, Goto
  <2>3. CASE p \notin Prio
    <3>1. UNCHANGED <<prio, runq>>
      BY <1>10, <2>3, Zenon DEF Create
    <3>2. QED
      BY <1>4, <2>1, <3>1
  <2>4. QED
    BY <2>2, <2>3
<1>11. ASSUME Exit(t) \/ ExitSetExited(t) \/ TerminateSetExited(t)
       PROVE  Inversion
  <2>1. /\ current = t /\ kpc[t] \in {"run", "removed", "term_removed"}
        /\ UNCHANGED <<prio, runq, current, waking, panic, pending>>
    BY <1>11, Zenon DEF Exit, ExitSetExited, TerminateSetExited, At
  <2>2. QED
    BY <1>4, <2>1
<1>12. ASSUME ExitEnqueue(t)
       PROVE  Inversion
  BY <1>12, ConstantsAssumption, Zenon DEF ExitEnqueue, Inversion
<1>13. ASSUME NEW u \in Thread, Terminate(t, u)
       PROVE  Inversion
  <2>1. /\ current = t /\ kpc[t] = "run" /\ u # t /\ u \in attached /\ u \in runnable
        /\ runq' = (IF IsRunnable(u) THEN Unlink(runq, u) ELSE runq)
        /\ UNCHANGED <<prio, current, waking, panic, pending>>
    BY <1>13, Zenon DEF Terminate, BeginTerminate, At, RunqRemove
  <2>2. IsRunnable(u) => u \in Range(runq)
    BY <1>1, <2>1, ConstantsAssumption DEF IInv, Types, Ready, IsRunnable
  <2>3. CASE IsRunnable(u)
    BY <1>5, <2>1, <2>2, <2>3
  <2>4. CASE ~IsRunnable(u)
    BY <1>4, <2>1, <2>4
  <2>5. QED
    BY <2>3, <2>4
<1>14. ASSUME TerminateRelease(t)
       PROVE  Inversion
  <2> DEFINE u == target[t]
  <2>1. /\ current = t /\ kpc[t] = "term_exited" /\ prio' = [prio EXCEPT ![u] = 0]
        /\ UNCHANGED <<runq, current, waking, panic, pending>>
    BY <1>14, Zenon DEF TerminateRelease, At, Release
  <2>2. u # NULL
    BY <2>1 DEF IInv, Targets
  <2>3. u \in Thread /\ u # t /\ u \notin Range(runq)
    BY <1>1, <2>1, <2>2 DEF IInv, Types, Targets, Ready
  <2> HIDE DEF u
  <2>4. \A v \in Range(runq) : prio'[v] = prio[v] /\ prio'[t] = prio[t]
    BY <1>1, <2>1, <2>3, QueueMembers
  <2>5. QED
    BY <2>1, <2>4, InversionWasThere
<1>15. QED
  BY <1>6, <1>7, <1>8, <1>9, <1>10, <1>11, <1>12, <1>13, <1>14 DEF ThreadStep

(* Whatever the interleaving of calls, wake-up loops and interrupts, a      *)
(* higher-priority thread waits for a lower one only after one of the two   *)
(* wake-ups that do not reschedule, uk_waitq_wake_up_one and                *)
(* uk_sched_thread_woken.                                                   *)
THEOREM InversionNeedsQuietWake == Spec => NoNewInversion
<1> DEFINE step == Inversion' => \/ Inversion
                                 \/ \E u \in Thread : Woken(u)
                                 \/ \E w \in WaitQ : WakeUpOne(w)
<1> USE DEF threadVars, queueVars, cpuVars, flowVars
<1>1. ASSUME IInv, Schedule(runq, prio), UNCHANGED prio
      PROVE  ~Inversion'
  BY <1>1, ScheduleEndsInversion DEF IInv, Types, Queues
<1>2. ASSUME IInv, LoopReschedules, WakeDone
      PROVE  ~Inversion'
  <2>1. CASE irq = "none"
    BY <1>2, <2>1, Zenon DEF WakeDone, LoopReschedules, Inversion
  <2>2. CASE irq # "none"
    BY <1>2, <2>2, Zenon DEF WakeDone, Inversion
  <2>3. QED
    BY <2>1, <2>2, Zenon
<1>3. ASSUME IInv, NEW t \in Thread, TimerExpire(t)
      PROVE  ~Inversion'
  BY <1>3, Zenon DEF TimerExpire, Inversion, Quiet
<1>4. ASSUME IInv, IrqExit
      PROVE  step
  <2>1. CASE pending /\ Schedule(runq, prio)
    BY <1>1, <1>4, <2>1, Zenon DEF IrqExit
  <2>2. CASE pending /\ panic' = "null_sched"
    BY <2>2 DEF Inversion, Quiet
  <2>3. CASE ~pending
    BY <1>4, <2>3 DEF IrqExit, IInv, Types, Inversion, Quiet
  <2>4. QED
    BY <1>4, <2>1, <2>2, <2>3, Zenon DEF IrqExit, SwitchThroughSched
<1>5. ASSUME IInv, IdleStep
      PROVE  ~Inversion'
  <2>1. ASSUME current' = Idle
        PROVE  ~Inversion'
    BY <2>1, ConstantsAssumption, Zenon DEF Inversion
  <2>2. CASE IdlePick
    <3>1. Schedule(runq, prio) \/ panic' = "null_sched"
      BY <2>2, Zenon DEF IdlePick, SwitchThroughSched
    <3>2. panic' = "null_sched" => ~Inversion'
      BY DEF Inversion, Quiet
    <3>3. UNCHANGED prio
      BY <2>2 DEF IdlePick
    <3>4. QED
      BY <1>1, <1>5, <3>1, <3>2, <3>3, Zenon
  <2>3. CASE Reschedule(Idle)
    BY <1>1, <1>5, <2>3, Zenon DEF Reschedule
  <2>4. QED
    BY <1>5, <2>1, <2>2, <2>3, Zenon DEF IdleStep, IdleCollect, IdleCollected, IdleWake, At
<1>6. IInv /\ LoopReschedules /\ [Next]_vars => [step]_vars
  <2>1. SUFFICES ASSUME IInv, LoopReschedules, Next
                 PROVE  step
    BY Zenon
  <2>2. ASSUME NEW t \in Thread, ThreadStep(t)
        PROVE  step
    BY <2>1, <2>2, ThreadStepInversion, Zenon
  <2>3. CASE WakeCall
    <3>1. ASSUME NEW w \in WaitQ, WakeUp(w)
          PROVE  ~Inversion'
      BY <3>1, ConstantsAssumption, Zenon DEF WakeUp, Inversion, Quiet
    <3>2. QED
      BY <2>3, <3>1, Zenon DEF WakeCall
  <2>4. CASE WakeStep
    BY <2>4, Zenon DEF WakeStep, Inversion, Quiet
  <2>5. CASE WakeDone
    BY <1>2, <2>1, <2>5, Zenon
  <2>6. CASE ExitLeave
    BY <1>1, <2>1, <2>6, Zenon DEF ExitLeave
  <2>7. CASE IdleStep
    BY <1>5, <2>1, <2>7, Zenon
  <2>8. CASE IrqStep
    <3>1. ASSUME NEW source \in {"tick", "dev"}, IrqEnter(source)
          PROVE  step
      BY <3>1, Zenon DEF IrqEnter, Inversion, Quiet
    <3>2. QED
      BY <1>3, <1>4, <2>1, <2>8, <3>1, Zenon DEF IrqStep
  <2>9. CASE Halted
    BY <2>9, Zenon DEF Halted, vars, Inversion, Quiet
  <2>10. QED
    BY <2>1, <2>2, <2>3, <2>4, <2>5, <2>6, <2>7, <2>8, <2>9, Zenon DEF Next
<1>7. QED
  BY <1>6, InvariantHolds, LoopReschedulesHolds, PTL DEF Spec, NoNewInversion

-----------------------------------------------------------------------------
(***************************************************************************)
(* Round robin among equals.                                               *)
(***************************************************************************)

(* schedprio_set_priority: only the thread whose priority changes moves.    *)
LEMMA FifoSetPriority ==
  ASSUME IInv, NEW t \in Thread, NEW u \in Thread, NEW p \in Prio, SetPriority(t, u, p)
  PROVE  Fifo(runq, prio, runq', prio')
<1>1. PICK q : q = IF u = t THEN runq ELSE PrioInsert(Unlink(runq, u), prio', u)
  OBVIOUS
<1>2. /\ prio' \in [Thread -> Prio]
      /\ prio'[u] = p /\ \A v \in Thread : v # u => prio'[v] = prio[v]
      /\ QueueOK(q, prio') /\ Range(q) = Ready \ {current}
      /\ IF IF u = t THEN p < prio[u] ELSE Overtakes(prio', u, t)
         THEN Schedule(q, prio')
         ELSE runq' = q /\ UNCHANGED current
  <2>1. Requeued(t, u, p, q)
    BY <1>1, Requeue, Zenon
  <2>2. QED
    BY <2>1, Zenon DEF Requeued
<1>3. /\ QueueOK(runq, prio) /\ Range(runq) = Ready \ {current} /\ prio \in [Thread -> Prio]
      /\ current \in Task \cup {NULL} /\ runnable \subseteq Thread
  BY DEF IInv, Types, Queues
<1>4. Fifo(runq, prio, q, prio')
  <2>1. CASE u = t
    BY <1>1, <2>1, FifoSame
  <2>2. CASE u # t
    <3>1. u \in Range(runq) /\ p # prio[u]
      BY <2>2, Zenon DEF SetPriority
    <3>2. PICK rest : rest = Unlink(runq, u)
      OBVIOUS
    <3>3. QueueOK(rest, prio) /\ Range(rest) = Range(runq) \ {u} /\ Range(rest) \subseteq Thread
      BY <1>3, <3>1, <3>2, QueueRemove, QueueMembers
    <3>4. QueueOK(rest, prio')
      BY <1>2, <3>3, QueueReprioritise
    <3>5. \A v, x : Before(rest, v, x) => Before(q, v, x)
      <4>1. q = PrioInsert(rest, prio', u)
        BY <1>1, <2>2, <3>2
      <4>2. QED
        BY <1>2, <3>4, <4>1, InsertOrder
    <3>6. \A v, x : v # u /\ x # u /\ Before(runq, v, x) => Before(rest, v, x)
      BY <1>3, <3>1, <3>2, RemoveOrder, Zenon
    <3>7. \A x : prio[x] = prio'[x] => x # u
      BY <1>2, <3>1
    <3>8. QED
      BY <1>2, <1>3, <3>5, <3>6, <3>7, Zenon DEF Fifo
  <2>3. QED
    BY <2>1, <2>2
<1>5. CASE runq' = q
  BY <1>4, <1>5
<1>6. CASE Schedule(q, prio')
  <2>1. Fifo(q, prio', runq', prio')
    BY <1>2, <1>3, <1>6, FifoSchedule
  <2>2. \A v, x : Before(runq, v, x) => x \in Range(runq)
    BY <1>3, BeforeMembers, Zenon
  <2>3. Range(q) = Range(runq)
    BY <1>2, <1>3
  <2>4. QED
    BY <1>4, <2>1, <2>2, <2>3, FifoChain, Zenon
<1>7. QED
  BY <1>2, <1>5, <1>6

(* uk_sched_thread_woken: a woken thread goes behind its equals. *)
LEMMA FifoWake ==
  ASSUME IInv, NEW t \in Thread, Wake(t), UNCHANGED prio
  PROVE  Fifo(runq, prio, runq', prio')
<1>1. QueueOK(runq, prio) /\ prio \in [Thread -> Prio]
  BY DEF IInv, Types, Queues
<1>2. CASE runq' = runq
  BY <1>2, FifoSame
<1>3. CASE ~IsRunnable(t) /\ runq' = PrioInsert(runq, prio, t)
  <2>1. t \notin Range(runq)
    BY <1>3 DEF IInv, Queues, Ready, IsRunnable
  <2>2. QED
    BY <1>1, <1>3, <2>1, FifoInsert
<1>4. QED
  BY <1>2, <1>3, Zenon DEF Wake, RunqAdd

(* The head of a wait queue is a thread. *)
LEMMA WaiterIsThread ==
  ASSUME IInv, NEW w \in WaitQ, waitq[w] # <<>>
  PROVE  Head(waitq[w]) \in Thread
<1>1. QueueOK(waitq[w], prio) /\ prio \in [Thread -> Prio]
  BY DEF IInv, Types, Queues
<1>2. QED
  BY <1>1, HeadIsBest

(* The calls of the running thread. *)
LEMMA FifoThreadStep ==
  ASSUME IInv, NEW t \in Thread, ThreadStep(t)
  PROVE  Fifo(runq, prio, runq', prio')
<1> USE DEF threadVars, queueVars, cpuVars, flowVars
<1>1. /\ QueueOK(runq, prio) /\ Range(runq) = Ready \ {current} /\ prio \in [Thread -> Prio]
      /\ current \in Task \cup {NULL} /\ runnable \subseteq Thread /\ exited \subseteq Thread
  BY DEF IInv, Types, Queues
<1>2. ASSUME Schedule(runq, prio), UNCHANGED prio
      PROVE  Fifo(runq, prio, runq', prio')
  BY <1>1, <1>2, FifoSchedule
<1>3. ASSUME UNCHANGED runq
      PROVE  Fifo(runq, prio, runq', prio')
  BY <1>3, FifoSame
<1>4. ASSUME NEW u \in Range(runq), runq' = Unlink(runq, u)
      PROVE  Fifo(runq, prio, runq', prio')
  BY <1>1, <1>4, FifoRemove
<1>5. ASSUME NEW u \in Thread, u \in attached, IsRunnable(u), u # current
      PROVE  u \in Range(runq)
  BY <1>1, <1>5, ConstantsAssumption DEF IInv, Types, Ready, IsRunnable
<1>6. ASSUME NEW u \in Thread, NEW p \in Prio, SetPriority(t, u, p)
      PROVE  Fifo(runq, prio, runq', prio')
  BY <1>6, FifoSetPriority
<1>7. ASSUME NEW u \in Thread, NEW timed \in BOOLEAN, Blocked(t, u, timed)
      PROVE  Fifo(runq, prio, runq', prio')
  <2>1. CASE u = t
    BY <1>3, <1>7, <2>1, Zenon DEF Blocked
  <2>2. CASE u # t
    <3>1. u \in attached /\ IsRunnable(u) /\ current = t /\ runq' = Unlink(runq, u)
      BY <1>7, <2>2, Zenon DEF Blocked, At, RunqRemove
    <3>2. QED
      BY <1>4, <1>5, <2>2, <3>1, Zenon
  <2>3. QED
    BY <2>1, <2>2
<1>8. ASSUME NEW u \in Thread, NEW p \in Prio \cup {MaxPrio + 1}, Create(t, u, p)
      PROVE  Fifo(runq, prio, runq', prio')
  <2>1. CASE p \in Prio
    <3>1. /\ u \notin live /\ prio' = [prio EXCEPT ![u] = p]
          /\ runq' = PrioInsert(runq, prio', u)
      BY <1>8, <2>1, Zenon DEF Create, RunqAdd
    <3>2. u \notin Range(runq)
      BY <1>1, <3>1 DEF Ready
    <3>3. prio' \in [Thread -> Prio] /\ \A v \in Thread : v # u => prio'[v] = prio[v]
      BY <1>1, <2>1, <3>1
    <3>4. QueueOK(runq, prio')
      <4>1. \A v \in Range(runq) : prio'[v] = prio[v]
        BY <1>1, <3>2, <3>3, QueueMembers
      <4>2. QED
        BY <1>1, <4>1, QueueReprioritise
    <3>5. QED
      BY <3>1, <3>2, <3>3, <3>4, FifoInsert
  <2>2. CASE p \notin Prio
    BY <1>3, <1>8, <2>2, Zenon DEF Create
  <2>3. QED
    BY <2>1, <2>2
<1>9. ASSUME NEW u \in Thread, Terminate(t, u)
      PROVE  Fifo(runq, prio, runq', prio')
  <2>1. CASE IsRunnable(u)
    <3>1. u \in attached /\ current = t /\ u # t /\ runq' = Unlink(runq, u)
      BY <1>9, <2>1, Zenon DEF Terminate, BeginTerminate, At, RunqRemove
    <3>2. QED
      BY <1>4, <1>5, <2>1, <3>1, Zenon
  <2>2. CASE ~IsRunnable(u)
    BY <1>3, <1>9, <2>2, Zenon DEF Terminate, BeginTerminate
  <2>3. QED
    BY <2>1, <2>2
<1>10. CASE Yield(t) \/ Reschedule(t)
  BY <1>2, <1>10, Zenon DEF Yield, Reschedule
<1>11. CASE \/ \E w \in WaitQ, timed \in BOOLEAN : Wait(t, w, timed)
            \/ Exit(t) \/ ExitSetExited(t) \/ ExitEnqueue(t)
            \/ TerminateSetExited(t) \/ TerminateRelease(t)
  BY <1>3, <1>11, Zenon
  DEF Wait, Exit, ExitSetExited, ExitEnqueue, TerminateSetExited, TerminateRelease
<1>12. QED
  BY <1>6, <1>7, <1>8, <1>9, <1>10, <1>11 DEF ThreadStep

(* Round robin among equals in every step of the kernel: the order of the   *)
(* run queue is changed by schedprio_set_priority of a queued thread only,  *)
(* and a thread that enters it goes behind its equals.                      *)
THEOREM RunQueueIsFifo == Spec => RunQueueFifo
<1> DEFINE step ==
      \A t, u \in Range(runq') :
        /\ t # u /\ u \in Range(runq) /\ prio'[t] = prio'[u] /\ prio[u] = prio'[u]
        /\ \/ t \notin Range(runq)
           \/ \E i, j \in 1..Len(runq) : i < j /\ runq[i] = u /\ runq[j] = t
                                         /\ prio[t] = prio'[t]
        => \E i, j \in 1..Len(runq') : i < j /\ runq'[i] = u /\ runq'[j] = t
<1> USE DEF threadVars, queueVars, cpuVars, flowVars
<1>1. ASSUME Fifo(runq, prio, runq', prio')
      PROVE  step
  <2>1. SUFFICES ASSUME NEW t \in Range(runq'), NEW u \in Range(runq'),
                        t # u, u \in Range(runq), prio'[t] = prio'[u], prio[u] = prio'[u],
                        \/ t \notin Range(runq)
                        \/ \E i, j \in 1..Len(runq) : i < j /\ runq[i] = u /\ runq[j] = t
                                                      /\ prio[t] = prio'[t]
                 PROVE  \E i, j \in 1..Len(runq') : i < j /\ runq'[i] = u /\ runq'[j] = t
    BY Zenon
  <2>2. t \notin Range(runq) \/ (Before(runq, u, t) /\ prio[t] = prio'[t])
    BY <2>1, Zenon DEF Before, Precedes
  <2>3. Before(runq', u, t)
    BY <1>1, <2>1, <2>2, Zenon DEF Fifo
  <2>4. QED
    BY <2>3, Zenon DEF Before, Precedes
<1> HIDE DEF step
<1>2. IInv /\ [Next]_vars => [step]_vars
  <2>1. SUFFICES ASSUME IInv, Next
                 PROVE  Fifo(runq, prio, runq', prio')
    BY <1>1, Zenon
  <2>2. ASSUME Schedule(runq, prio), UNCHANGED prio
        PROVE  Fifo(runq, prio, runq', prio')
    BY <2>1, <2>2, FifoSchedule DEF IInv, Types, Queues
  <2>3. ASSUME UNCHANGED runq
        PROVE  Fifo(runq, prio, runq', prio')
    BY <2>3, FifoSame
  <2>4. ASSUME NEW t \in Thread, ThreadStep(t)
        PROVE  Fifo(runq, prio, runq', prio')
    BY <2>1, <2>4, FifoThreadStep
  <2>5. CASE WakeCall
    <3>1. ASSUME NEW w \in WaitQ, WakeUpOne(w)
          PROVE  Fifo(runq, prio, runq', prio')
      BY <2>1, <3>1, WaiterIsThread, FifoWake, Zenon DEF WakeUpOne
    <3>2. ASSUME NEW u \in Thread, Woken(u)
          PROVE  Fifo(runq, prio, runq', prio')
      BY <2>1, <3>2, FifoWake, Zenon DEF Woken
    <3>3. QED
      BY <2>3, <2>5, <3>1, <3>2, Zenon DEF WakeCall, WakeUp
  <2>6. CASE WakeStep
    <3>1. waking \in WaitQ
      BY <2>1, <2>6, Zenon DEF WakeStep, IInv, Types
    <3>2. QED
      BY <2>1, <2>6, <3>1, WaiterIsThread, FifoWake, Zenon DEF WakeStep
  <2>7. CASE WakeDone \/ ExitLeave \/ IdleStep \/ Halted
    BY <2>2, <2>3, <2>7, Zenon
    DEF WakeDone, ExitLeave, IdleStep, IdleCollect, IdleCollected, IdlePick, IdleWake,
        SwitchThroughSched, Reschedule, Halted, vars
  <2>8. CASE IrqStep
    <3>1. ASSUME NEW t \in Thread, TimerExpire(t)
          PROVE  Fifo(runq, prio, runq', prio')
      BY <2>1, <2>3, <3>1, FifoWake, Zenon DEF TimerExpire
    <3>2. QED
      BY <2>2, <2>3, <2>8, <3>1, Zenon DEF IrqStep, IrqEnter, IrqExit, SwitchThroughSched
  <2>9. QED
    BY <2>1, <2>4, <2>5, <2>6, <2>7, <2>8, Zenon DEF Next
<1>3. QED
  BY <1>2, InvariantHolds, PTL DEF Spec, RunQueueFifo, step
=============================================================================
