------------------------------ MODULE TnSched ------------------------------
(***************************************************************************)
(* The uniprocessor thread kernel of TenonOS: the priority scheduler       *)
(* (lib/tnschedprio), the generic scheduler layer (lib/uksched), the       *)
(* priority-ordered wait queues (uk/wait.h), the per-thread timeout timers *)
(* and the deferred switch at the end of an interrupt                      *)
(* (plat/common/arm/exceptions64.S).                                       *)
(*                                                                         *)
(* A section the code runs with interrupts disabled is one action.  An     *)
(* interrupt can arrive between any two actions: it borrows the CPU from   *)
(* whatever `current' is doing, and may hand it to another thread when it  *)
(* returns.  Threads are arbitrary clients: a running thread may call any  *)
(* operation of the API at any time, within the API's own preconditions.   *)
(*                                                                         *)
(* Time is abstract: an armed timer expires in some later tick interrupt.  *)
(***************************************************************************)
EXTENDS PrioQueue, FiniteSets

CONSTANTS
  Thread,       \* the struct uk_thread objects
  WaitQ,        \* the wait queues
  MaxPrio,      \* UK_THREADF_HIGHEST_PRIO; UK_THREADF_LOWEST_PRIO is 0
  Preemptive,   \* CONFIG_LIBTNSCHEDPRIO_ENABLE_PREEMTIVE
  Main,         \* the thread that runs when the scheduler starts
  Idle,         \* the idle thread of the CPU
  NULL,         \* the null pointer
  Off           \* state of a timer that is not in the timer list

ASSUME ConstantsAssumption ==
  /\ MaxPrio \in Nat
  /\ Preemptive \in BOOLEAN
  /\ Main \in Thread
  /\ Idle \notin Thread
  /\ NULL \notin Thread \cup {Idle} \cup WaitQ
  /\ Off \notin WaitQ \cup {NULL}

Prio == 0..MaxPrio

VARIABLES
  live,         \* threads created and not yet released
  attached,     \* threads whose sched pointer is set
  runnable,     \* threads with UK_THREADF_RUNNABLE
  exited,       \* threads with UK_THREADF_EXITED
  prio,         \* t->prio
  runq,         \* the run queue of the scheduler
  waitq,        \* the wait list of each wait queue
  timer,        \* t->timer: Off, or the wait queue (or NULL) it is armed for
  exitedq,      \* sched->exited_threads
  current,      \* lcpu->current_thread
  pending,      \* lcpu->pending_switch
  irq,          \* the interrupt being served, interrupt_nested = (irq # "none")
  waking,       \* the queue an unfinished uk_waitq_wake_up is emptying
  kpc,          \* where each thread stands inside the kernel
  target,       \* the thread each thread is terminating
  panic         \* why the kernel crashed, "none" as long as it has not

threadVars == <<live, attached, runnable, exited, prio>>
queueVars  == <<runq, waitq, timer, exitedq>>
cpuVars    == <<current, pending, irq, waking>>
flowVars   == <<kpc, target, panic>>
vars       == <<threadVars, queueVars, cpuVars, flowVars>>

Task   == Thread \cup {Idle}
ThreadPc == {"run", "resched", "removed", "exited", "term_removed", "term_exited"}
IdlePc == {"gc", "pick", "halt", "resched"}

-----------------------------------------------------------------------------
(***************************************************************************)
(* The queues and the choice of the next thread.                           *)
(***************************************************************************)

(* schedprio.h: runq_tailq_add *)
RunqAdd(q, pr, t) == PrioInsert(q, pr, t)

(* schedprio.h: runq_tailq_remove *)
RunqRemove(q, t) == Unlink(q, t)

(* wait_queue.h: waitq_list_add *)
WaitqAdd(q, pr, t) == PrioInsert(q, pr, t)

(* thread.h: uk_thread_is_runnable; the idle thread always is. *)
IsRunnable(t) == t = Idle \/ (t \in runnable /\ t \notin exited)

PrioOf(pr, t) == IF t = Idle THEN 0 ELSE pr[t]

(* Mutant: an equal does not take the CPU even where preemption is enabled. *)
Overtakes_Strict(pr, next, prev) == PrioOf(pr, prev) < PrioOf(pr, next)

(* schedprio.h: schedprio_prio_cmp, as the scheduler uses it: may next take *)
(* the CPU from a runnable prev?                                            *)
Overtakes(pr, next, prev) ==
  IF Preemptive THEN PrioOf(pr, prev) <= PrioOf(pr, next)
                ELSE PrioOf(pr, prev) < PrioOf(pr, next)

(* schedprio.c: tn_schedprio_select_next *)
SelectNext(q, pr, prev) ==
  IF q = <<>>
  THEN IF IsRunnable(prev) THEN prev ELSE Idle
  ELSE IF IsRunnable(prev) /\ ~Overtakes(pr, Head(q), prev)
       THEN prev
       ELSE Head(q)

(* The run queue after tn_schedprio_update_queue_and_switch. *)
QueueAfterSwitch(q, pr, prev, next) ==
  LET added == IF prev # Idle /\ IsRunnable(prev) THEN RunqAdd(q, pr, prev) ELSE q
  IN  IF next # Idle THEN RunqRemove(added, next) ELSE added

(* schedprio.c: schedprio_schedule with the queue q and the priorities pr *)
Schedule(q, pr) ==
  LET next == SelectNext(q, pr, current) IN
  IF next = current
  THEN runq' = q /\ UNCHANGED current
  ELSE /\ runq' = QueueAfterSwitch(q, pr, current, next)
       /\ current' = next

(* sched.c: tn_sched_next_to_run, then tn_sched_thread_switch when the      *)
(* choice is not prev.  The latter calls through next->sched: a NULL there  *)
(* is a crash.                                                              *)
SwitchThroughSched ==
  LET next == SelectNext(runq, prio, current) IN
  IF next # current /\ next \notin attached \cup {Idle}
  THEN panic' = "null_sched" /\ UNCHANGED <<runq, current>>
  ELSE Schedule(runq, prio) /\ UNCHANGED panic

-----------------------------------------------------------------------------
(***************************************************************************)
(* Who holds the CPU.  Nothing else moves while a wake-up loop runs with   *)
(* interrupts disabled, nor after a crash.                                 *)
(***************************************************************************)
Quiet == waking = NULL /\ panic = "none"

(* t executes, with interrupts enabled, at the point pc of its code. *)
At(t, pc) == Quiet /\ irq = "none" /\ current = t /\ kpc[t] = pc

Goto(t, pc) == kpc' = [kpc EXCEPT ![t] = pc]

(* Code that may wake threads: a running thread or a device's handler. *)
Caller ==
  /\ Quiet
  /\ \/ irq = "dev"
     \/ irq = "none" /\ current \in Thread /\ kpc[current] = "run"

InWaitq(t) == \E w \in WaitQ : t \in Range(waitq[w])

Init ==
  /\ live = {Main} /\ attached = {Main} /\ runnable = {Main} /\ exited = {}
  /\ prio = [t \in Thread |-> 0]
  /\ runq = <<>>
  /\ waitq = [w \in WaitQ |-> <<>>]
  /\ timer = [t \in Thread |-> Off]
  /\ exitedq = {}
  /\ current = Main
  /\ pending = FALSE
  /\ irq = "none"
  /\ waking = NULL
  /\ kpc = [t \in Task |-> IF t = Idle THEN "gc" ELSE "run"]
  /\ target = [t \in Thread |-> NULL]
  /\ panic = "none"

-----------------------------------------------------------------------------
(***************************************************************************)
(* Scheduling requests of the running thread.                              *)
(***************************************************************************)

(* sched.h: uk_sched_yield outside an interrupt, schedprio_yield *)
Yield(t) ==
  /\ At(t, "run")
  /\ Schedule(runq, prio)
  /\ UNCHANGED <<threadVars, waitq, timer, exitedq, pending, irq, waking, flowVars>>

(* The uk_sched_reschedule or uk_sched_yield that ends a blocking call, a   *)
(* wake-up or a creation: a section of its own, so an interrupt can come    *)
(* between it and what it follows.                                          *)
Reschedule(t) ==
  /\ At(t, "resched")
  /\ Schedule(runq, prio)
  /\ Goto(t, IF t = Idle THEN "gc" ELSE "run")
  /\ UNCHANGED <<threadVars, waitq, timer, exitedq, pending, irq, waking, target, panic>>

(* Mutant: the queue is not reordered. *)
SetPriority_NoRequeue(t, u, p) ==
  /\ At(t, "run")
  /\ u = t \/ u \in Range(runq)
  /\ p # prio[u]
  /\ prio' = [prio EXCEPT ![u] = p]
  /\ IF IF u = t THEN p < prio[u] ELSE Overtakes(prio', u, t)
     THEN Schedule(runq, prio')
     ELSE UNCHANGED <<runq, current>>
  /\ UNCHANGED <<live, attached, runnable, exited, waitq, timer, exitedq,
                 pending, irq, waking, flowVars>>

(* schedprio.c: schedprio_set_priority, one section including the switch *)
SetPriority(t, u, p) ==
  /\ At(t, "run")
  /\ u = t \/ u \in Range(runq)
  /\ p # prio[u]
  /\ prio' = [prio EXCEPT ![u] = p]
  /\ LET requeued == IF u = t THEN runq ELSE RunqAdd(RunqRemove(runq, u), prio', u)
     IN  IF IF u = t THEN p < prio[u] ELSE Overtakes(prio', u, t)
         THEN Schedule(requeued, prio')
         ELSE runq' = requeued /\ UNCHANGED current
  /\ UNCHANGED <<live, attached, runnable, exited, waitq, timer, exitedq,
                 pending, irq, waking, flowVars>>

-----------------------------------------------------------------------------
(***************************************************************************)
(* Blocking.                                                               *)
(***************************************************************************)

(* sched.c: uk_sched_thread_blocked(u, tick), tick = 0 arms no timer.  When *)
(* the caller blocks itself (uk_sched_thread_sleep_ns, _sleep_tick), the    *)
(* yield follows as a section of its own.                                   *)
Blocked(t, u, timed) ==
  /\ At(t, "run")
  /\ u \in attached /\ IsRunnable(u)
  /\ runnable' = runnable \ {u}
  /\ timer' = IF timed THEN [timer EXCEPT ![u] = NULL] ELSE timer
  /\ runq' = IF u # t THEN RunqRemove(runq, u) ELSE runq
  /\ IF u = t THEN Goto(t, "resched") ELSE UNCHANGED kpc
  /\ UNCHANGED <<live, attached, exited, prio, waitq, exitedq, cpuVars, target, panic>>

(* Mutant: the thread is queued but not marked blocked. *)
Wait_StaysRunnable(t, w, timed) ==
  /\ At(t, "run")
  /\ waitq' = [waitq EXCEPT ![w] = WaitqAdd(waitq[w], prio, t)]
  /\ timer' = IF timed THEN [timer EXCEPT ![t] = w] ELSE timer
  /\ Goto(t, "resched")
  /\ UNCHANGED <<threadVars, runq, exitedq, cpuVars, target, panic>>

(* wait.h: uk_waitq_wait_deadline up to its yield *)
Wait(t, w, timed) ==
  /\ At(t, "run")
  /\ waitq' = [waitq EXCEPT ![w] = WaitqAdd(waitq[w], prio, t)]
  /\ timer' = IF timed THEN [timer EXCEPT ![t] = w] ELSE timer
  /\ runnable' = runnable \ {t}
  /\ Goto(t, "resched")
  /\ UNCHANGED <<live, attached, exited, prio, runq, exitedq, cpuVars, target, panic>>

-----------------------------------------------------------------------------
(***************************************************************************)
(* Waking.                                                                 *)
(***************************************************************************)

(* Mutant: the current thread, woken before it yields, is queued as well. *)
Wake_QueuesCurrent(t) ==
  IF IsRunnable(t)
  THEN panic' = "assert" /\ UNCHANGED <<runnable, runq>>
  ELSE /\ runnable' = runnable \cup {t}
       /\ runq' = IF t \in attached /\ t \notin exited THEN RunqAdd(runq, prio, t) ELSE runq
       /\ UNCHANGED panic

(* sched.c: uk_sched_thread_woken, with its assertion *)
Wake(t) ==
  IF IsRunnable(t)
  THEN panic' = "assert" /\ UNCHANGED <<runnable, runq>>
  ELSE /\ runnable' = runnable \cup {t}
       /\ runq' = IF t \in attached /\ t \notin exited /\ t # current
                  THEN RunqAdd(runq, prio, t)
                  ELSE runq
       /\ UNCHANGED panic

(* uk_sched_thread_woken on a thread that blocked without timer or queue *)
Woken(u) ==
  /\ Caller
  /\ u \in attached /\ ~IsRunnable(u) /\ timer[u] = Off /\ ~InWaitq(u)
  /\ Wake(u)
  /\ UNCHANGED <<live, attached, exited, prio, waitq, timer, exitedq, cpuVars, kpc, target>>

(* Mutant: the timer of the woken thread stays armed. *)
WakeUpOne_KeepsTimer(w) ==
  /\ Caller
  /\ waitq[w] # <<>>
  /\ waitq' = [waitq EXCEPT ![w] = Tail(@)]
  /\ Wake(Head(waitq[w]))
  /\ UNCHANGED <<live, attached, exited, prio, timer, exitedq, cpuVars, kpc, target>>

(* wait.h: uk_waitq_wake_up_one; it does not reschedule *)
WakeUpOne(w) ==
  /\ Caller
  /\ waitq[w] # <<>>
  /\ timer' = [timer EXCEPT ![Head(waitq[w])] = Off]
  /\ waitq' = [waitq EXCEPT ![w] = Tail(@)]
  /\ Wake(Head(waitq[w]))
  /\ UNCHANGED <<live, attached, exited, prio, exitedq, cpuVars, kpc, target>>

(* wait.h: uk_waitq_wake_up enters its loop, interrupts disabled *)
WakeUp(w) ==
  /\ Caller
  /\ waking' = w
  /\ IF irq = "none" THEN Goto(current, "resched") ELSE UNCHANGED kpc
  /\ UNCHANGED <<threadVars, queueVars, current, pending, irq, target, panic>>

(* one iteration of the loop *)
WakeStep ==
  /\ panic = "none" /\ waking # NULL
  /\ waitq[waking] # <<>>
  /\ Wake(Head(waitq[waking]))
  /\ waitq' = [waitq EXCEPT ![waking] = Tail(@)]
  /\ timer' = [timer EXCEPT ![Head(waitq[waking])] = Off]
  /\ UNCHANGED <<live, attached, exited, prio, exitedq, cpuVars, kpc, target>>

(* Mutant: no switch is requested from a handler. *)
WakeDone_NoRequest ==
  /\ panic = "none" /\ waking # NULL
  /\ waitq[waking] = <<>>
  /\ waking' = NULL
  /\ UNCHANGED <<threadVars, queueVars, current, pending, irq, flowVars>>

(* the loop ends; in a handler uk_sched_reschedule only leaves a request *)
WakeDone ==
  /\ panic = "none" /\ waking # NULL
  /\ waitq[waking] = <<>>
  /\ waking' = NULL
  /\ pending' = (pending \/ irq # "none")
  /\ UNCHANGED <<threadVars, queueVars, current, irq, flowVars>>

-----------------------------------------------------------------------------
(***************************************************************************)
(* Creation, exit and termination of threads.                              *)
(***************************************************************************)

(* schedprio.c: tn_sched_thread_create_prio; a priority out of range makes  *)
(* schedprio_thread_add fail and leaves the new thread unattached.          *)
Create(t, u, p) ==
  /\ At(t, "run")
  /\ u \notin live
  /\ live' = live \cup {u}
  /\ runnable' = runnable \cup {u}
  /\ IF p \in Prio
     THEN /\ prio' = [prio EXCEPT ![u] = p]
          /\ attached' = attached \cup {u}
          /\ runq' = RunqAdd(runq, prio', u)
          /\ Goto(t, "resched")
     ELSE UNCHANGED <<prio, attached, runq, kpc>>
  /\ UNCHANGED <<exited, waitq, timer, exitedq, cpuVars, target, panic>>

(* thread.c: uk_thread_release gives the memory back; a later creation may  *)
(* reuse it.                                                                *)
Release(u) ==
  /\ live' = live \ {u}
  /\ runnable' = runnable \ {u}
  /\ exited' = exited \ {u}
  /\ prio' = [prio EXCEPT ![u] = 0]

(* sched.c: uk_sched_thread_exit, then uk_sched_thread_terminate of the     *)
(* running thread: uk_sched_thread_remove, ...                              *)
Exit(t) ==
  /\ At(t, "run")
  /\ attached' = attached \ {t}
  /\ Goto(t, "removed")
  /\ UNCHANGED <<live, runnable, exited, prio, queueVars, cpuVars, target, panic>>

(* ... uk_thread_set_exited, with interrupts enabled, ... *)
ExitSetExited(t) ==
  /\ At(t, "removed")
  /\ exited' = exited \cup {t}
  /\ Goto(t, "exited")
  /\ UNCHANGED <<live, attached, runnable, prio, queueVars, cpuVars, target, panic>>

(* ... then the thread goes on the list of exited threads and stops being   *)
(* current, ...                                                             *)
ExitEnqueue(t) ==
  /\ At(t, "exited")
  /\ exitedq' = exitedq \cup {t}
  /\ current' = NULL
  /\ UNCHANGED <<threadVars, runq, waitq, timer, pending, irq, waking, flowVars>>

(* ... and the CPU leaves it for good: schedprio_schedule with prev = NULL. *)
ExitLeave ==
  /\ Quiet /\ irq = "none" /\ current = NULL
  /\ Schedule(runq, prio)
  /\ UNCHANGED <<threadVars, waitq, timer, exitedq, pending, irq, waking, flowVars>>

(* uk_sched_thread_terminate of another thread: uk_sched_thread_remove, ... *)
BeginTerminate(t, u) ==
  /\ At(t, "run")
  /\ u # t /\ u \in attached
  /\ runq' = IF IsRunnable(u) THEN RunqRemove(runq, u) ELSE runq
  /\ attached' = attached \ {u}
  /\ target' = [target EXCEPT ![t] = u]
  /\ Goto(t, "term_removed")
  /\ UNCHANGED <<live, runnable, exited, prio, waitq, timer, exitedq, cpuVars, panic>>

Terminate(t, u) == u \in runnable /\ BeginTerminate(t, u)

TerminateBlocked(t, u) == u \notin runnable /\ BeginTerminate(t, u)

(* ... uk_thread_set_exited, ... *)
TerminateSetExited(t) ==
  /\ At(t, "term_removed")
  /\ exited' = exited \cup {target[t]}
  /\ Goto(t, "term_exited")
  /\ UNCHANGED <<live, attached, runnable, prio, queueVars, cpuVars, target, panic>>

(* ... and uk_thread_release on the spot. *)
TerminateRelease(t) ==
  /\ At(t, "term_exited")
  /\ Release(target[t])
  /\ target' = [target EXCEPT ![target[t]] = NULL, ![t] = NULL]
  /\ kpc' = [kpc EXCEPT ![target[t]] = "run", ![t] = "run"]
  /\ UNCHANGED <<attached, queueVars, cpuVars, panic>>

-----------------------------------------------------------------------------
(***************************************************************************)
(* The idle thread, sched.c: idle_thread_fn.                               *)
(***************************************************************************)

(* Mutant: the thread is released but stays on the list. *)
IdleCollect_StaysListed(u) ==
  /\ At(Idle, "gc")
  /\ u \in exitedq
  /\ Release(u)
  /\ Goto(u, "run")
  /\ UNCHANGED <<attached, queueVars, cpuVars, target, panic>>

(* uk_sched_thread_gc takes one thread off the list and releases it *)
IdleCollect(u) ==
  /\ At(Idle, "gc")
  /\ u \in exitedq
  /\ exitedq' = exitedq \ {u}
  /\ Release(u)
  /\ Goto(u, "run")
  /\ UNCHANGED <<attached, runq, waitq, timer, cpuVars, target, panic>>

IdleCollected ==
  /\ At(Idle, "gc")
  /\ exitedq = {}
  /\ Goto(Idle, "pick")
  /\ UNCHANGED <<threadVars, queueVars, cpuVars, target, panic>>

(* any new thread? *)
IdlePick ==
  /\ At(Idle, "pick")
  /\ SwitchThroughSched
  /\ Goto(Idle, IF SelectNext(runq, prio, Idle) = Idle THEN "halt" ELSE "gc")
  /\ UNCHANGED <<threadVars, waitq, timer, exitedq, pending, irq, waking, target>>

(* tn_systick_block_until returns: the first timer's tick has come *)
IdleWake ==
  /\ At(Idle, "halt")
  /\ Goto(Idle, "resched")
  /\ UNCHANGED <<threadVars, queueVars, cpuVars, target, panic>>

-----------------------------------------------------------------------------
(***************************************************************************)
(* Interrupts: the timer's and those of other devices.                     *)
(***************************************************************************)

(* el1_irq *)
IrqEnter(source) ==
  /\ Quiet /\ irq = "none"
  /\ irq' = source
  /\ UNCHANGED <<threadVars, queueVars, current, pending, waking, flowVars>>

(* Mutant: the expiry of a queued thread's timer wakes nobody. *)
TimerExpire_IgnoresQueue(t) ==
  /\ Quiet /\ irq = "tick"
  /\ timer[t] # Off
  /\ timer' = [timer EXCEPT ![t] = Off]
  /\ IF timer[t] = NULL
     THEN Wake(t) /\ pending' = TRUE
     ELSE UNCHANGED <<runnable, runq, panic, pending>>
  /\ UNCHANGED <<live, attached, exited, prio, waitq, exitedq, current, waking, irq, kpc, target>>

(* tn_timer_announce calls uk_sched_thread_timeout for a timer that is due *)
TimerExpire(t) ==
  /\ Quiet /\ irq = "tick"
  /\ timer[t] # Off
  /\ timer' = [timer EXCEPT ![t] = Off]
  /\ \/ /\ timer[t] = NULL
        /\ Wake(t)
        /\ pending' = TRUE
        /\ UNCHANGED waking
     \/ /\ timer[t] # NULL
        /\ waking' = timer[t]
        /\ UNCHANGED <<runnable, runq, panic, pending>>
  /\ UNCHANGED <<live, attached, exited, prio, waitq, exitedq, current, irq, kpc, target>>

(* RESTORE_IRQ_CONTEXT: the pending switch happens when the handler returns *)
IrqExit ==
  /\ Quiet /\ irq # "none"
  /\ irq' = "none"
  /\ pending' = FALSE
  /\ IF pending THEN SwitchThroughSched ELSE UNCHANGED <<runq, current, panic>>
  /\ UNCHANGED <<threadVars, waitq, timer, exitedq, waking, kpc, target>>

(* UK_CRASH halts the machine *)
Halted == panic # "none" /\ UNCHANGED vars

(* Only the thread on the CPU runs its code. *)
ThreadStep(t) ==
  /\ current = t
  /\ \/ Yield(t) \/ Reschedule(t)
     \/ \E u \in Thread, p \in Prio : SetPriority(t, u, p)
     \/ \E u \in Thread, timed \in BOOLEAN : Blocked(t, u, timed)
     \/ \E w \in WaitQ, timed \in BOOLEAN : Wait(t, w, timed)
     \/ \E u \in Thread, p \in Prio \cup {MaxPrio + 1} : Create(t, u, p)
     \/ Exit(t) \/ ExitSetExited(t) \/ ExitEnqueue(t)
     \/ \E u \in Thread : Terminate(t, u)
     \/ TerminateSetExited(t) \/ TerminateRelease(t)

WakeCall ==
  \/ \E u \in Thread : Woken(u)
  \/ \E w \in WaitQ : WakeUp(w) \/ WakeUpOne(w)

IdleStep ==
  \/ \E u \in Thread : IdleCollect(u)
  \/ IdleCollected \/ IdlePick \/ IdleWake \/ Reschedule(Idle)

IrqStep ==
  \/ \E source \in {"tick", "dev"} : IrqEnter(source)
  \/ \E t \in Thread : TimerExpire(t)
  \/ IrqExit

Next ==
  \/ \E t \in Thread : ThreadStep(t)
  \/ WakeCall \/ WakeStep \/ WakeDone
  \/ ExitLeave \/ IdleStep \/ IrqStep \/ Halted

Spec == Init /\ [][Next]_vars

(* The documented state machine of threads also lets terminate() strike a   *)
(* BLOCKED thread.                                                          *)
NextAnyTerminate ==
  \/ Next
  \/ \E t, u \in Thread : TerminateBlocked(t, u)

SpecAnyTerminate == Init /\ [][NextAnyTerminate]_vars

(* What the machine guarantees: an interrupt handler returns, its loops     *)
(* end, ticks keep coming and reach every timer, and interrupts leave the   *)
(* idle thread time to run.                                                 *)
Fairness ==
  /\ WF_vars(WakeStep) /\ WF_vars(WakeDone)
  /\ SF_vars(IrqExit)
  /\ SF_vars(IrqEnter("tick"))
  /\ \A t \in Thread : SF_vars(TimerExpire(t))
  /\ SF_vars(IdleStep)

FairSpec == Spec /\ Fairness

-----------------------------------------------------------------------------
(***************************************************************************)
(* Properties.                                                             *)
(***************************************************************************)

(* Type invariant of the kernel state. *)
TypeOK ==
  /\ live \subseteq Thread /\ attached \subseteq live
  /\ runnable \subseteq live /\ exited \subseteq live
  /\ prio \in [Thread -> Prio]
  /\ runq \in Seq(Thread)
  /\ waitq \in [WaitQ -> Seq(Thread)]
  /\ timer \in [Thread -> WaitQ \cup {NULL, Off}]
  /\ exitedq \subseteq Thread
  /\ current \in Task \cup {NULL}
  /\ pending \in BOOLEAN
  /\ irq \in {"none", "tick", "dev"}
  /\ waking \in WaitQ \cup {NULL}
  /\ kpc \in [Task -> ThreadPc \cup IdlePc]
  /\ target \in [Thread -> Thread \cup {NULL}]
  /\ panic \in {"none", "assert", "null_sched"}

(* The threads that could run: runnable, not exited, and attached - or      *)
(* preempted in uk_sched_thread_terminate between sched.c:258 and :260.     *)
Ready ==
  {t \in live : t \in runnable \ exited /\ (t \in attached \/ kpc[t] = "removed")}

(* The run queue holds, once each, exactly the threads that could run but   *)
(* do not.  No interleaving of wake-ups, timeouts, blocking calls and       *)
(* interrupt-time switches loses a runnable thread or queues one twice      *)
(* (schedprio_thread_woken_isr, tn_schedprio_update_queue_and_switch).      *)
RunQueueExact ==
  /\ IsInjective(runq)
  /\ Range(runq) = Ready \ {current}

(* The run queue and every wait queue stay in order of descending priority, *)
(* through priority changes of queued threads included, so that the head is *)
(* always a best choice (runq_tailq_best, waitq_list_best).                 *)
QueuesSorted ==
  /\ Sorted(runq, prio)
  /\ \A w \in WaitQ : Sorted(waitq[w], prio)

(* A thread in a wait queue is attached, blocked, and in no other queue; an *)
(* armed timer belongs to a blocked thread and names the very queue that    *)
(* thread waits in.  This is why the assertion !uk_thread_is_runnable(t) of *)
(* uk_sched_thread_woken holds whichever of a wake-up and a timeout wins.   *)
WaitersBlocked ==
  /\ \A w \in WaitQ :
       IsInjective(waitq[w]) /\ Range(waitq[w]) \subseteq attached \ runnable
  /\ \A w, v \in WaitQ : w # v => Range(waitq[w]) \cap Range(waitq[v]) = {}
  /\ \A t \in Thread :
       /\ timer[t] = NULL => t \in attached \ runnable /\ ~InWaitq(t)
       /\ timer[t] \in WaitQ => t \in Range(waitq[timer[t]])

(* No UK_ASSERT of the modelled code fails: uk_sched_thread_woken never     *)
(* meets a runnable thread, whatever the race between waker and timer.      *)
AssertsHold == panic # "assert"

(* No memory of a released thread is referenced: not from the run queue, a  *)
(* wait queue, the timer list, the list of exited threads, the CPU, or a    *)
(* termination in progress (uk_thread_release frees it without looking).    *)
ReleasedUnreferenced ==
  \A t \in Thread \ live :
    /\ t # current /\ t \notin Range(runq) /\ t \notin exitedq
    /\ timer[t] = Off /\ ~InWaitq(t)
    /\ \A s \in Thread : target[s] # t

(* A timeout is never lost: a thread's timer is disarmed only in the step   *)
(* that makes the thread runnable, or when its expiry starts waking the     *)
(* queue the thread is in.                                                  *)
TimeoutsNotLost ==
  [][\A t \in Thread :
       timer[t] # Off /\ timer'[t] = Off =>
         \/ t \in runnable'
         \/ waking' # NULL /\ t \in Range(waitq'[waking'])]_vars

(* Round robin among equals: a thread that enters the run queue goes behind *)
(* every queued thread of its own priority, and queued threads whose        *)
(* priorities do not change keep their order (runq_tailq_add).              *)
RunQueueFifo ==
  [][\A t, u \in Range(runq') :
       /\ t # u /\ u \in Range(runq) /\ prio'[t] = prio'[u] /\ prio[u] = prio'[u]
       /\ \/ t \notin Range(runq)
          \/ \E i, j \in 1..Len(runq) : i < j /\ runq[i] = u /\ runq[j] = t
                                        /\ prio[t] = prio'[t]
       => \E i, j \in 1..Len(runq') : i < j /\ runq'[i] = u /\ runq'[j] = t]_vars

(* The current thread has been overtaken: a queued thread has a strictly    *)
(* higher priority, and no reschedule is under way or requested.            *)
Inversion ==
  /\ Quiet /\ ~pending
  /\ current \in Thread /\ kpc[current] # "resched"
  /\ \E t \in Range(runq) : prio[t] > prio[current]

(* Only the two wake-ups that do not reschedule (uk_waitq_wake_up_one and   *)
(* uk_sched_thread_woken) can leave a higher-priority thread waiting for a  *)
(* lower one: every other call, and every interrupt, hands the CPU over     *)
(* before the running thread is back in its own code.                       *)
NoNewInversion ==
  [][Inversion' => \/ Inversion
                   \/ \E u \in Thread : Woken(u)
                   \/ \E w \in WaitQ : WakeUpOne(w)]_vars

(* Once uk_sched_thread_remove has taken a thread out of the scheduler,     *)
(* the thread is in no scheduling queue.                                    *)
RemovedStaysOut == Range(runq) \subseteq attached

(* Every exited thread that has left the CPU is on the list the idle thread *)
(* collects, unless its terminator is about to release it.                  *)
ExitedAreCollected ==
  \A t \in exited \ {current} :
    t \in exitedq \/ \E s \in Thread : target[s] = t

(* A blocking call with a timeout ends: whether the thread sleeps or waits  *)
(* in a queue, its timer makes it runnable again (unless the kernel         *)
(* crashes first).                                                          *)
TimeoutsFire ==
  \A t \in Thread : timer[t] # Off ~> (t \in runnable \/ panic # "none")

(* The idle thread does not keep the CPU from a thread in the run queue:    *)
(* it tries to schedule one each time round its loop.                       *)
IdleGivesWay ==
  (current = Idle /\ runq # <<>>) ~> (current # Idle \/ panic # "none")
=============================================================================
