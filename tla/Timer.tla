------------------------------- MODULE Timer -------------------------------
(***************************************************************************)
(* The soft timers of lib/tntimer/tntimer.c at the level of their links:   *)
(* two doubly linked lists (uk/list.h) in order of timeout_tick, one for   *)
(* the timeouts of the current round of the tick counter and one for those *)
(* beyond its wrap.  The kernel starts and deletes timers with interrupts  *)
(* disabled, so each call is one action; tn_timer_announce runs in the     *)
(* tick interrupt and calls back, and a callback may delete timers (a      *)
(* timeout wakes a whole wait queue and deletes the timers of its other    *)
(* waiters).                                                               *)
(***************************************************************************)
EXTENDS Integers, FiniteSets

CONSTANTS
  Timer,        \* the timers
  Periodic,     \* those with TN_TIMER_FLAG_PERIODIC
  Delay,        \* the values of init_tick
  TickMax,      \* TICK_MAX
  MaxLate,      \* most ticks between two tick interrupts
  Uptime,       \* bound: with a periodic timer armed no tick interrupt
                \* takes the counter beyond this; else it wraps and goes on
  Far,          \* whether clients start timers beyond the counter's wrap
  Head,         \* timer_list_head
  Overflow,     \* overflow_timer_list_head
  Off           \* no timer

ASSUME TimerAssumption ==
  /\ IsFiniteSet(Timer) /\ Periodic \subseteq Timer
  /\ TickMax \in Nat /\ MaxLate \in 1..TickMax /\ Uptime \in Nat
  /\ Far \in BOOLEAN
  /\ Delay \subseteq 0..TickMax
  /\ Head \notin Timer /\ Overflow \notin Timer \cup {Head}
  /\ Off \notin Timer \cup {Head, Overflow} \cup Int

Node == Timer \cup {Head, Overflow}
Tick == 0..TickMax

VARIABLES
  link,         \* the struct uk_list_head of each node
  timeout,      \* t->timeout_tick
  init,         \* t->init_tick
  cur,          \* cur_systick
  last,         \* last_tick
  overflowed,   \* timoutListsOverflowed
  phase,        \* where tn_timer_announce stands
  firing,       \* the timer whose timeout_func runs
  crash         \* a failed assertion or a list head taken for a timer

listVars  == <<link, overflowed, crash>>
clockVars == <<cur, last>>
callVars  == <<phase, firing>>
vars      == <<listVars, timeout, init, clockVars, callVars>>

-----------------------------------------------------------------------------
(***************************************************************************)
(* uk/list.h                                                               *)
(***************************************************************************)
Alone(n) == [next |-> n, prev |-> n]

IsEmpty(l, h) == l[h].next = h

(* Mutant: the new entry's successor does not point back to it. *)
ListAdd_NoBackLink(l, n, p, x) ==
  [l EXCEPT ![n] = [next |-> x, prev |-> p], ![p].next = n]

(* __uk_list_add: n between p and x *)
ListAdd(l, n, p, x) ==
  [l EXCEPT ![x].prev = n, ![n] = [next |-> x, prev |-> p], ![p].next = n]

ListDel(l, n) ==
  [l EXCEPT ![l[n].next].prev = l[n].prev, ![l[n].prev].next = l[n].next]

ListDelInit(l, n) == [ListDel(l, n) EXCEPT ![n] = Alone(n)]

(* The nodes uk_list_for_each_entry comes by, starting from the head h. *)
Walk(l, h) ==
  LET at[k \in 0..Cardinality(Node)] == IF k = 0 THEN h ELSE l[at[k - 1]].next
  IN  at

-----------------------------------------------------------------------------
(***************************************************************************)
(* tntimer.c                                                               *)
(***************************************************************************)
Armed(t) == link[t].next # t

(* Where the loop of tn_timer_add stops: at the first timer that is due     *)
(* after `when', or at the head.  A node that is neither is not a timer:    *)
(* the loop has left its list.                                              *)
StopAt(h, when) ==
  LET at == Walk(link, h)
      stops == {k \in 1..Cardinality(Node) :
                  at[k] \notin Timer \/ timeout[at[k]] > when}
  IN  IF stops = {} THEN Off ELSE at[CHOOSE k \in stops : \A j \in stops : k <= j]

(* tn_timer_add, in front of the node s: uk_list_add or uk_list_add_tail *)
TimerAdd(t, h, s) ==
  LET p == link[s].prev IN
  IF s \in Timer \cup {h}
  THEN /\ link' = ListAdd(link, t, p, IF s = h THEN h ELSE link[p].next)
       /\ UNCHANGED crash
  ELSE crash' = "wild" /\ UNCHANGED link

(* Mutant: a delay of zero is taken as it is. *)
TimerStart_Now(t, d) ==
  LET sum == (cur + d) % (TickMax + 1)
      wraps == sum < cur \/ sum < d
      h == IF wraps THEN Overflow ELSE Head
  IN  /\ timeout' = [timeout EXCEPT ![t] = sum]
      /\ TimerAdd(t, h, StopAt(h, sum))
      /\ overflowed' = (overflowed \/ wraps)
      /\ last' = cur

(* tn_timer_start *)
TimerStart(t, d) ==
  LET sum == (cur + (IF d < 1 THEN 1 ELSE d)) % (TickMax + 1)
      wraps == sum < cur \/ sum < d
      h == IF wraps THEN Overflow ELSE Head
  IN  /\ timeout' = [timeout EXCEPT ![t] = sum]
      /\ TimerAdd(t, h, StopAt(h, sum))
      /\ overflowed' = (overflowed \/ wraps)
      /\ last' = cur

(* tn_timer_list_switch, on the links l *)
ListSwitch(l) ==
  IF IsEmpty(l, Overflow)
  THEN crash' = "assert" /\ link' = l /\ UNCHANGED overflowed
  ELSE /\ link' = [l EXCEPT ![Head].next = l[Overflow].next,
                            ![l[Overflow].next].prev = Head,
                            ![Overflow] = Alone(Overflow)]
       /\ overflowed' = FALSE
       /\ UNCHANGED crash

(* tn_timer_delete *)
TimerDelete(t) ==
  LET l == ListDelInit(link, t) IN
  IF overflowed /\ IsEmpty(l, Head)
  THEN ListSwitch(l)
  ELSE link' = l /\ UNCHANGED <<overflowed, crash>>

(* Mutant: the time of the next timer, not the ticks until then. *)
NextTick_Absolute ==
  IF ~IsEmpty(link, Head) THEN timeout[link[Head].next] ELSE TickMax

(* tn_timer_next_tick, with get_next_timer *)
NextTick ==
  LET h == IF IsEmpty(link, Head) /\ overflowed THEN Overflow ELSE Head
      t == link[h].next
  IN  IF h = Head /\ t = Head THEN TickMax
      ELSE IF timeout[t] <= cur /\ ~overflowed THEN 0
      ELSE (timeout[t] - cur) % (TickMax + 1)

-----------------------------------------------------------------------------
Init ==
  /\ link = [n \in Node |-> Alone(n)]
  /\ timeout = [t \in Timer |-> 0]
  /\ init = [t \in Timer |-> 0]
  /\ cur = 0 /\ last = 0
  /\ overflowed = FALSE
  /\ phase = "idle" /\ firing = Off
  /\ crash = "none"

(* TN_THREAD_TIMER_START: tn_timer_init, then tn_timer_start *)
Start(t, d) ==
  /\ crash = "none" /\ phase = "idle"
  /\ ~Armed(t)
  /\ Far \/ (cur < TickMax /\ cur + d <= TickMax)
  /\ init' = [init EXCEPT ![t] = d]
  /\ TimerStart(t, d)
  /\ UNCHANGED <<cur, callVars>>

(* A wake-up, or a callback that wakes a wait queue, deletes timers whether *)
(* armed or not.                                                            *)
Delete(t) ==
  /\ crash = "none" /\ phase \notin {"flush", "due"}
  /\ TimerDelete(t)
  /\ UNCHANGED <<timeout, init, clockVars, callVars>>

(* Mutant: the wrap of the counter goes unnoticed. *)
Announce_NoFlush(n) ==
  /\ crash = "none" /\ phase = "idle"
  /\ (\E t \in Periodic : Armed(t)) => cur + n <= Uptime
  /\ cur' = (cur + n) % (TickMax + 1)
  /\ phase' = "due"
  /\ UNCHANGED <<listVars, timeout, init, last, firing>>

(* The tick interrupt: systick_update, then tn_timer_announce starts. *)
Announce(n) ==
  /\ crash = "none" /\ phase = "idle"
  /\ (\E t \in Periodic : Armed(t)) => cur + n <= Uptime
  /\ cur' = (cur + n) % (TickMax + 1)
  /\ phase' = IF cur' < last THEN "flush" ELSE "due"
  /\ UNCHANGED <<listVars, timeout, init, last, firing>>

First == link[Head].next

(* A loop of tn_timer_announce takes the first entry off and calls back.   *)
(* The head of the other list in that place is taken for a timer.           *)
Fire ==
  /\ crash = "none"
  /\ ~IsEmpty(link, Head)
  /\ \/ phase = "flush" /\ phase' = "flush_func"
     \/ /\ phase = "due" /\ phase' = "due_func"
        /\ First \in Timer => timeout[First] <= cur
  /\ link' = ListDelInit(link, First)
  /\ IF First \in Timer
     THEN firing' = First /\ UNCHANGED crash
     ELSE crash' = "wild" /\ UNCHANGED firing
  /\ UNCHANGED <<overflowed, timeout, init, clockVars>>

(* The callback returns; a periodic timer starts again. *)
Fired ==
  /\ crash = "none"
  /\ \/ phase = "flush_func" /\ phase' = "flush"
     \/ phase = "due_func" /\ phase' = "due"
  /\ IF firing \in Periodic
     THEN TimerStart(firing, init[firing])
     ELSE UNCHANGED <<listVars, timeout, last>>
  /\ firing' = Off
  /\ UNCHANGED <<init, cur>>

(* The first list is flushed: its successor takes over. *)
Flushed ==
  /\ crash = "none" /\ phase = "flush"
  /\ IsEmpty(link, Head)
  /\ phase' = "due"
  /\ IF overflowed THEN ListSwitch(link) ELSE UNCHANGED listVars
  /\ UNCHANGED <<timeout, init, clockVars, firing>>

(* Nothing is due any more. *)
Announced ==
  /\ crash = "none" /\ phase = "due"
  /\ First = Head \/ (First \in Timer /\ timeout[First] > cur)
  /\ phase' = "idle"
  /\ last' = cur
  /\ UNCHANGED <<listVars, timeout, init, cur, firing>>

Next ==
  \/ \E t \in Timer, d \in Delay : Start(t, d)
  \/ \E t \in Timer : Delete(t)
  \/ \E n \in 0..MaxLate : Announce(n)
  \/ Fire \/ Fired \/ Flushed \/ Announced

(* A tick interrupt, once taken, runs to its end. *)
Handler == Fire \/ Fired \/ Flushed \/ Announced

Spec == Init /\ [][Next]_vars /\ WF_vars(Handler)

-----------------------------------------------------------------------------
(* Between any two steps of starts, deletes and callbacks the two lists are *)
(* well formed: next and prev are inverse to each other, every linked timer *)
(* is reached from one of the heads, and a timer is never in front of one   *)
(* with an earlier timeout_tick.                                            *)
ListsSound ==
  /\ \A n \in Node : link[link[n].next].prev = n
  /\ \A t \in Timer : Armed(t) =>
       \E h \in {Head, Overflow}, k \in 1..Cardinality(Node) : Walk(link, h)[k] = t
  /\ \A t \in Timer : Armed(t) /\ link[t].next \in Timer =>
       timeout[t] <= timeout[link[t].next]

(* Outside the tick interrupt tn_timer_next_tick is the number of ticks to  *)
(* the earliest of all armed timers, and TICK_MAX when none is armed: the   *)
(* idle thread, which halts for that long, misses none.                     *)
NextTickExact ==
  phase = "idle" =>
    LET ticks == {timeout[t] - cur : t \in {u \in Timer : Armed(u)}} IN
    IF ticks = {} THEN NextTick = TickMax
    ELSE NextTick \in ticks /\ \A k \in ticks : NextTick <= k

(* The tick interrupt always returns: the loops of tn_timer_announce end    *)
(* however many timers are due and although periodic timers are restarted   *)
(* inside them.                                                             *)
AnnounceReturns == []<>(phase = "idle")

(* The ticks until t is due; while the first list is flushed after a wrap   *)
(* the timeouts on it lie in the previous round of the counter.             *)
Left(t) ==
  IF ~Armed(t) THEN Off
  ELSE IF phase \in {"flush", "flush_func"} THEN timeout[t] - cur - (TickMax + 1)
  ELSE timeout[t] - cur

A == INSTANCE Alarm WITH
       left <- [t \in Timer |-> Left(t)],
       serving <- phase # "idle",
       owed <- {firing} \cap Periodic

(* The linked lists implement the alarm clock: no timer fires early, late,  *)
(* out of order or twice, and none is lost by deletes from callbacks.       *)
ImplementsAlarm == A!Spec

(* No loop over a timer list takes the other list's head for a timer.       *)
NotWild == crash # "wild"
=============================================================================
