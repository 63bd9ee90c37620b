-------------------------------- MODULE Futex -------------------------------
(***************************************************************************)
(* The futex system call (lib/posix-futex/futex.c) on the blocking, waking *)
(* and timing out of threads in uksched/sched.c.  The list is only changed *)
(* with interrupts disabled; the comparison with the futex word, joining   *)
(* the list and blocking are three steps of the caller.  Timeouts come     *)
(* from the tick interrupt, at any time.                                   *)
(***************************************************************************)
EXTENDS Integers, Sequences, FiniteSets

CONSTANTS
  Thread,       \* the threads
  Addr,         \* the futex words
  Value,        \* their values
  Count,        \* the values of val and val2: how many to wake, to requeue
  Preempt       \* whether a thread can be preempted inside a call

VARIABLES
  word,         \* *uaddr
  futex_list,   \* struct uk_futex: [uaddr, thread]
  at,           \* where a thread stands: outside, or in a step of futex_wait
  call,         \* the arguments of its futex_wait: [uaddr, timed]
  runnable,     \* uk_thread_is_runnable
  armed,        \* the thread's timer is in the timer list
  failed        \* an assertion has failed: the system stops

vars == <<word, futex_list, at, call, runnable, armed, failed>>

Init ==
  /\ word \in [Addr -> Value]
  /\ futex_list = <<>>
  /\ at = [t \in Thread |-> "outside"]
  /\ call = [t \in Thread |-> [uaddr |-> CHOOSE a \in Addr : TRUE, timed |-> FALSE]]
  /\ runnable = [t \in Thread |-> TRUE]
  /\ armed = [t \in Thread |-> FALSE]
  /\ failed = FALSE

(* t is on the CPU or may get it. *)
Runs(t) ==
  /\ ~failed
  /\ runnable[t]
  /\ Preempt \/ \A u \in Thread \ {t} : runnable[u] => at[u] \notin {"enqueue", "block"}

Goto(t, where) == at' = [at EXCEPT ![t] = where]

(* Threads are woken by uk_sched_thread_woken, one for each of n entries;   *)
(* it asserts that they are blocked.                                        *)
Woken(threads, n) ==
  /\ runnable' = [t \in Thread |-> runnable[t] \/ t \in threads]
  /\ failed' = (Cardinality(threads) < n \/ \E t \in threads : runnable[t])

-----------------------------------------------------------------------------
(* The program writes a futex word. *)
Store(t, a, v) ==
  /\ Runs(t) /\ at[t] = "outside"
  /\ word' = [word EXCEPT ![a] = v]
  /\ UNCHANGED <<futex_list, at, call, runnable, armed, failed>>

(* futex_wait: the word has the expected value.  (If not: -EAGAIN.) *)
Wait(t, a, v, timed) ==
  /\ Runs(t) /\ at[t] = "outside"
  /\ word[a] = v
  /\ Goto(t, "enqueue")
  /\ call' = [call EXCEPT ![t] = [uaddr |-> a, timed |-> timed]]
  /\ UNCHANGED <<word, futex_list, runnable, armed, failed>>

Enqueue(t) ==
  /\ Runs(t) /\ at[t] = "enqueue"
  /\ futex_list' = Append(futex_list, [uaddr |-> call[t].uaddr, thread |-> t])
  /\ Goto(t, "block")
  /\ UNCHANGED <<word, call, runnable, armed, failed>>

(* uk_sched_thread_block_until or uk_sched_thread_blocked, and the yield.   *)
(* A deadline that is exactly now gives a timer of no ticks: none.          *)
Block(t) ==
  /\ Runs(t) /\ at[t] = "block"
  /\ runnable' = [runnable EXCEPT ![t] = FALSE]
  /\ \E start \in IF call[t].timed THEN BOOLEAN ELSE {FALSE} :
       armed' = [armed EXCEPT ![t] = @ \/ start]
  /\ Goto(t, "asleep")
  /\ UNCHANGED <<word, futex_list, call, failed>>

(* The end of futex_wait: still on the list for this word is a timeout.     *)
(* An entry that was moved to another word is not found and stays behind.   *)
Return(t) ==
  /\ Runs(t) /\ at[t] = "asleep"
  /\ futex_list' = SelectSeq(futex_list, LAMBDA f :
                     f # [uaddr |-> call[t].uaddr, thread |-> t])
  /\ Goto(t, "outside")
  /\ UNCHANGED <<word, call, runnable, armed, failed>>

(* uk_sched_thread_timeout, from the tick interrupt *)
Expire(t) ==
  /\ ~failed /\ armed[t]
  /\ armed' = [armed EXCEPT ![t] = FALSE]
  /\ Woken({t}, 1)
  /\ UNCHANGED <<word, futex_list, at, call>>

-----------------------------------------------------------------------------
(* The places in the list of the first n entries for a; the loops look at   *)
(* the count after an entry, so that for n = 0 it is one.                   *)
First(a, n) ==
  LET on == {i \in DOMAIN futex_list : futex_list[i].uaddr = a}
  IN  {i \in on : Cardinality({j \in on : j < i}) < IF n = 0 THEN 1 ELSE n}

(* The entries at some places of the list *)
Keep(places) ==
  LET f[i \in 0..Len(futex_list)] ==
        IF i = 0 THEN <<>>
        ELSE IF i \in places THEN Append(f[i - 1], futex_list[i]) ELSE f[i - 1]
  IN  f[Len(futex_list)]

(* futex_wake *)
Wake(t, a, n) ==
  /\ Runs(t) /\ at[t] = "outside"
  /\ futex_list' = Keep(DOMAIN futex_list \ First(a, n))
  /\ Woken({futex_list[i].thread : i \in First(a, n)}, Cardinality(First(a, n)))
  /\ UNCHANGED <<word, at, call, armed>>

(* futex_cmp_requeue, on the word a with its expected value: n threads are  *)
(* woken, then up to m of the others moved to the word b.                   *)
CmpRequeue(t, a, n, m, b) ==
  LET woken == First(a, n)
      left == {i \in DOMAIN futex_list \ woken : futex_list[i].uaddr = a}
      moved == IF m = 0 THEN {}
               ELSE {i \in left : Cardinality({j \in left : j < i}) < m}
      tail == Keep(moved)
  IN  /\ Runs(t) /\ at[t] = "outside"
      /\ futex_list' = Keep(DOMAIN futex_list \ (woken \cup moved))
                       \o [i \in DOMAIN tail |-> [tail[i] EXCEPT !.uaddr = b]]
      /\ Woken({futex_list[i].thread : i \in woken}, Cardinality(woken))
      /\ UNCHANGED <<word, at, call, armed>>

Next ==
  \/ \E t \in Thread, a \in Addr :
       \/ \E v \in Value : Store(t, a, v)
       \/ \E v \in Value, timed \in BOOLEAN : Wait(t, a, v, timed)
       \/ \E n \in Count : Wake(t, a, n)
       \/ \E n, m \in Count, b \in Addr \ {a} : CmpRequeue(t, a, n, m, b)
  \/ \E t \in Thread : Enqueue(t) \/ Block(t) \/ Return(t) \/ Expire(t)

Spec == Init /\ [][Next]_vars

-----------------------------------------------------------------------------
(* Only blocked threads are woken: the assertion of uk_sched_thread_woken   *)
(* never fails, neither when futex_wake finds a thread on the list nor when *)
(* the timer of a futex_wait goes off.                                      *)
WokenAreBlocked == ~failed
=============================================================================
