------------------------------ MODULE Systick ------------------------------
(***************************************************************************)
(* The system tick (lib/tnsystick/tnsystick.c) and the sleeping that is    *)
(* counted in it: the tick interrupt derives the tick counter from the     *)
(* free running counter of the hardware, times are converted to ticks and  *)
(* back by scaled multiplication in unsigned integers, and a sleeping      *)
(* thread is woken by the first tick interrupt at or after its tick (what  *)
(* Timer promises).  The widths and rates are constants, so that small     *)
(* ones can be checked.                                                    *)
(***************************************************************************)
EXTENDS Integers, FiniteSetsExt

CONSTANTS
  Half,         \* bits of a uint32_t; a uint64_t has twice as many
  Sec,          \* ukarch_time_sec_to_nsec(1)
  MaxSecs,      \* __MAX_CONVERT_SECS
  Freq,         \* CONFIG_LIBTNSYSTICK_FREQ
  ClockFreq,    \* sysclock.freq
  Boot,         \* values of the hardware counter in tn_systick_init
  MaxLateCounts, \* bound: counts from the due time of a tick to its handling
  MaxCounts,    \* bound: the last value of the hardware counter
  Thread,       \* the threads
  Nanos,        \* the periods they sleep for
  NoTimer       \* no timer

ASSUME SystickAssumption ==
  /\ Half \in Nat \ {0} /\ Sec \in 1..(2^Half - 1) /\ MaxSecs \in Nat \ {0}
  /\ Freq \in 1..Sec /\ ClockFreq \in Nat /\ ClockFreq >= Freq
  /\ Boot \subseteq Nat /\ MaxLateCounts \in Nat /\ MaxCounts \in Nat
  /\ Nanos \subseteq Nat /\ NoTimer \notin Int

(* Arithmetic the provers do not know: powers of two. *)
ASSUME WidthAssumption ==
  /\ 2^(2 * Half) \in Nat \ {0}
  /\ \A b \in 0..Half : 2^b \in Nat \ {0} /\ 2^(b + 1) = 2 * 2^b

u32(n) == n % 2^Half
u64(n) == n % 2^(2 * Half)

-----------------------------------------------------------------------------
(***************************************************************************)
(* The conversions                                                         *)
(***************************************************************************)
Bits(n) == Min({b \in 0..(2 * Half) : n < 2^b})

(* calculate_mult_shift: the largest shift whose multiplier, rounded to the *)
(* nearest, leaves room for the range to be converted                       *)
calculate_mult_shift(from, to) ==
  LET sftacc == Half - Bits(u64(MaxSecs * from) \div 2^Half)
      mult(sft) == u64(u64(to * 2^sft) + from \div 2) \div from
      fit == {sft \in 1..Half : mult(sft) < 2^sftacc}
  IN  IF fit = {} THEN [mult |-> u32(mult(1)), shift |-> 0]
      ELSE [mult |-> u32(mult(Max(fit))), shift |-> Max(fit)]

(* systick_convert_init *)
tot_ns_per_tick   == Sec \div Freq
counts_per_tick   == ClockFreq \div Freq
ns_per_tick       == calculate_mult_shift(Freq, Sec)
tick_per_ns       == calculate_mult_shift(Sec, Freq)
max_convert_ticks == ((2^(2 * Half) - 1) \div 2) \div counts_per_tick

ticks_to_ns(ticks) ==
  IF ticks > max_convert_ticks THEN u64(ticks * tot_ns_per_tick)
  ELSE u64(ns_per_tick.mult * ticks) \div 2^ns_per_tick.shift

(* Mutant: rounded down. *)
ns_to_ticks_Floor(ns) ==
  IF ns > MaxSecs * Sec THEN ns \div tot_ns_per_tick
  ELSE u64(tick_per_ns.mult * ns) \div 2^tick_per_ns.shift

ns_to_ticks(ns) ==
  LET isceil == IF ns % tot_ns_per_tick = 0 THEN 0 ELSE 1 IN
  IF ns > MaxSecs * Sec THEN ns \div tot_ns_per_tick + isceil
  ELSE u64(tick_per_ns.mult * ns) \div 2^tick_per_ns.shift + isceil

-----------------------------------------------------------------------------
VARIABLES
  counts,       \* the hardware counter, tn_sysclock_get_counts
  compare,      \* what tn_sysclock_set_next was given last
  last_count,
  cur_systick,
  at,           \* where a thread stands
  before,       \* the clock's time when it asked to sleep
  nsec,         \* and for how long
  timeout_tick  \* of its timer

counterVars == <<counts, compare, last_count, cur_systick>>
threadVars  == <<at, before, nsec, timeout_tick>>
systickVars == <<counterVars, threadVars>>

(* ukplat_monotonic_clock *)
clock == ticks_to_ns(cur_systick)

elapsed_tick == u32((counts - last_count) \div counts_per_tick)

(* The counter ran before tn_systick_init, which takes over its value. *)
SystickInit ==
  /\ counts \in Boot
  /\ cur_systick = u32(counts \div counts_per_tick)
  /\ last_count = u32(cur_systick * counts_per_tick)
  /\ compare = last_count + counts_per_tick
  /\ at = [t \in Thread |-> "running"]
  /\ before = [t \in Thread |-> 0] /\ nsec = [t \in Thread |-> 0]
  /\ timeout_tick = [t \in Thread |-> NoTimer]

(* The hardware counts; the interrupt may be late. *)
Count ==
  /\ counts < MaxCounts /\ counts < compare + MaxLateCounts
  /\ counts' = counts + 1
  /\ UNCHANGED <<compare, last_count, cur_systick, threadVars>>

(* Mutant: timers expire a tick early. *)
Expired_Early == {t \in Thread : timeout_tick[t] # NoTimer /\ timeout_tick[t] <= cur_systick' + 1}

(* The timers that tn_timer_announce takes off *)
Expired == {t \in Thread : timeout_tick[t] # NoTimer /\ timeout_tick[t] <= cur_systick'}

(* Mutant: the part of a tick that has passed is dropped. *)
systick_update_Drift ==
  /\ cur_systick' = u64(cur_systick + elapsed_tick)
  /\ last_count' = counts

systick_update ==
  /\ cur_systick' = u64(cur_systick + elapsed_tick)
  /\ last_count' = last_count + u32(elapsed_tick * counts_per_tick)

(* The tick interrupt *)
sys_timer_irq_handler ==
  /\ counts >= compare
  /\ systick_update
  /\ compare' = last_count' + counts_per_tick
  /\ at' = [t \in Thread |-> IF t \in Expired THEN "woken" ELSE at[t]]
  /\ timeout_tick' = [t \in Thread |-> IF t \in Expired THEN NoTimer ELSE timeout_tick[t]]
  /\ UNCHANGED <<counts, before, nsec>>

-----------------------------------------------------------------------------
(* uk_sched_thread_blocked: for no ticks no timer is started. *)
Blocked(t, tick) ==
  timeout_tick' = [timeout_tick EXCEPT ![t] = IF tick = 0 THEN NoTimer ELSE cur_systick + tick]

Asks(t, n) ==
  /\ before' = [before EXCEPT ![t] = clock]
  /\ nsec' = [nsec EXCEPT ![t] = n]

Due(t) == before[t] + nsec[t]

(* nanosleep and uk_sched_thread_sleep_ns.  Who sleeps for no time at all   *)
(* blocks like the others, and has missed its time.                         *)
Nanosleep(t, n) ==
  /\ at[t] = "running"
  /\ at' = [at EXCEPT ![t] = IF n > 0 THEN "asleep" ELSE "missed"]
  /\ Asks(t, n)
  /\ Blocked(t, ns_to_ticks(n))
  /\ UNCHANGED counterVars

(* A caller of uk_sched_thread_block_until works out its deadline (the      *)
(* futex system call from its timeout) ...                                  *)
Deadline(t, n) ==
  /\ at[t] = "running"
  /\ at' = [at EXCEPT ![t] = "deadline"]
  /\ Asks(t, n)
  /\ UNCHANGED <<counterVars, timeout_tick>>

(* ... and calls it later, as ticks go by, perhaps when its time has come:  *)
(* then there are no ticks left, or the unsigned difference is enormous.    *)
BlockUntil(t) ==
  /\ at[t] = "deadline"
  /\ at' = [at EXCEPT ![t] = IF clock < Due(t) THEN "asleep" ELSE "missed"]
  /\ Blocked(t, ns_to_ticks(u64(Due(t) - clock)))
  /\ UNCHANGED <<counterVars, before, nsec>>

(* A woken thread goes on, perhaps some ticks later. *)
Return(t) ==
  /\ at[t] = "woken"
  /\ at' = [at EXCEPT ![t] = "running"]
  /\ UNCHANGED <<counterVars, before, nsec, timeout_tick>>

(* The bound on the uptime has been reached. *)
Over == counts = MaxCounts /\ UNCHANGED systickVars

SystickNext ==
  \/ Count \/ sys_timer_irq_handler \/ Over
  \/ \E t \in Thread :
       \/ \E n \in Nanos : Nanosleep(t, n) \/ Deadline(t, n)
       \/ BlockUntil(t) \/ Return(t)

SystickSpec == SystickInit /\ [][SystickNext]_systickVars

-----------------------------------------------------------------------------
(* However late its interrupts are handled, the tick counter neither loses  *)
(* nor repeats a tick and does not drift: it is the number of whole ticks   *)
(* that the hardware had counted at the last interrupt, and the next        *)
(* interrupt is asked for at the next whole tick.                           *)
TicksExact ==
  /\ last_count = cur_systick * counts_per_tick
  /\ last_count <= counts
  /\ compare = last_count + counts_per_tick

(* No sleep is cut short: when the tick interrupt wakes a thread the clock  *)
(* has reached the time it sleeps for, so that nanosleep never returns      *)
(* -EINTR, whichever way its period was rounded on the way to ticks.        *)
NotEarly == \A t \in Thread : at[t] = "woken" => clock >= Due(t)

(* The multiplier of ns_to_ticks is off by up to one half: a sleep may take *)
(* an extra tick for every 2^(shift + 1) nanoseconds that it has begun.     *)
Latest(t) ==
  LET begun == (nsec[t] + 2^(tick_per_ns.shift + 1) - 1) \div 2^(tick_per_ns.shift + 1)
  IN  Due(t) + tot_ns_per_tick * Max({1, begun})

(* No sleep is stretched by more than the rounding of the conversion: the   *)
(* tick interrupt that finds the clock that far wakes the thread.  The only *)
(* ones it does not wake are those who blocked when their time had come.    *)
NotLate == \A t \in Thread : at[t] = "asleep" => clock < Latest(t)

(* The same of all who sleep for a time or until one.  It does not hold:    *)
(* uk_sched_thread_blocked starts no timer for no ticks, and nobody looks   *)
(* whether the deadline is still ahead.                                     *)
NobodyOversleeps ==
  \A t \in Thread : at[t] \in {"asleep", "missed"} => clock < Latest(t)
=============================================================================
