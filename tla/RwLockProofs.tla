---------------------------- MODULE RwLockProofs ---------------------------
(* Proofs about RwLock, for any finite set of threads, where the spin lock  *)
(* of the lock keeps other threads out of a section.                        *)
EXTENDS RwLock, FiniteSetTheorems, TLAPS

(* The readers that nactive counts, the writers npending_writes counts *)
Active  == {t \in Thread : at[t] = "reading" \/ (at[t] = "took" /\ Reads(t))}
Pending == {t \in Thread : /\ Writes(t)
                           /\ at[t] \in {"test", "lock", "blocked", "resumed", "take"}}
Writing == {t \in Thread : at[t] = "writing"}

(* Positions that only readers, and only writers, come by *)
Sides ==
  \A t \in Thread :
    /\ at[t] \in {"pending", "queue", "reading"} => Reads(t)
    /\ at[t] = "writing" => Writes(t)

(* What nactive is *)
ActiveInv ==
  /\ Writing = {} => nactive = Cardinality(Active)
  /\ Writing # {} => nactive = -1 /\ Active = {}
  /\ \A t, u \in Writing : t = u

(* What a thread found free stays so for as long as it has the section. *)
FoundFree ==
  \A t \in Thread :
    /\ at[t] = "take" => Free(t)
    /\ at[t] = "took" /\ Writes(t) => nactive = 0

(* The inductive invariant *)
RwInv ==
  /\ RwTypeOK /\ Sides /\ ActiveInv /\ FoundFree
  /\ npending_writes = Cardinality(Pending)

(* A set of threads is finite, and has one member more or less when a       *)
(* thread joins it or leaves it.                                            *)
LEMMA Counting ==
  ASSUME NEW S \in SUBSET Thread, NEW t \in Thread
  PROVE  /\ IsFiniteSet(S) /\ Cardinality(S) \in Nat
         /\ Cardinality(S) = 0 <=> S = {}
         /\ t \notin S => Cardinality(S \cup {t}) = Cardinality(S) + 1
         /\ t \in S => Cardinality(S \ {t}) = Cardinality(S) - 1
<1>1. IsFiniteSet(S)
  BY RwLockAssumption, FS_Subset
<1>2. Cardinality(S) \in Nat
  BY <1>1, FS_CardinalityType
<1> QED  BY <1>1, <1>2, FS_EmptySet, FS_AddElement, FS_RemoveElement, Zenon

(* A lock starts free, with nobody on the way in (uk_rwlock_init_config).   *)
LEMMA RwInitInv == Init => RwInv
<1> SUFFICES ASSUME Init PROVE RwInv
  OBVIOUS
<1> USE RwLockAssumption DEF Init, WaitInit
<1>1. RwTypeOK
  <2>1. (CHOOSE q \in Queue : TRUE) \in Queue
    OBVIOUS
  <2>2. on \in [Thread -> Queue]
    BY <2>1
  <2> HIDE DEF WaitInit
  <2>3. at = [t \in Thread |-> "idle"] /\ waiting = [q \in Queue |-> {}]
    BY DEF WaitInit
  <2>4. left = [t \in Thread |-> Forever] /\ timer = [t \in Thread |-> "off"]
    BY DEF WaitInit
  <2>5. waiting = [q \in Queue |-> {t \in Thread : at[t] = "blocked" /\ on[t] = q}]
    BY <2>3
  <2> QED  BY <2>2, <2>3, <2>4, <2>5 DEF RwTypeOK, WaitAt, Section
<1>2. Sides /\ FoundFree
  BY DEF Sides, FoundFree
<1>3. Active = {} /\ Pending = {} /\ Writing = {}
  BY DEF Active, Pending, Writing
<1>4. Cardinality(Active) = 0 /\ Cardinality(Pending) = 0
  BY <1>3, FS_EmptySet
<1> QED  BY <1>1, <1>2, <1>3, <1>4 DEF RwInv, ActiveInv

(* Coming in keeps the invariant: the caller has the section to itself and  *)
(* a writer is counted as pending.                                          *)
LEMMA CallsInv ==
  ASSUME Spin, RwInv, NEW t \in Thread, RLock(t) \/ WLock(t)
  PROVE  RwInv'
<1> USE RwLockAssumption
<1>1. /\ at[t] = "idle" /\ sl = Null /\ sl' = t
      /\ UNCHANGED <<waiting, left, timer, nactive>>
  BY DEF RLock, WLock, SpinLock
<1>2. /\ at \in [Thread -> WaitAt \cup Section
                             \cup {"reading", "writing", "wake_one", "wake_all"}]
      /\ on \in [Thread -> Queue]
      /\ npending_reads \in Int /\ npending_writes \in Int /\ nactive \in Int
      /\ \A u \in Thread : at[u] \notin Section
  BY <1>1 DEF RwInv, RwTypeOK
<1>3. \A u \in Thread : u # t => at'[u] = at[u] /\ on'[u] = on[u]
  BY <1>2 DEF RLock, WLock, Goto
<1>4. RwTypeOK'
  <2>1. waiting' = [q \in Queue |-> {u \in Thread : at'[u] = "blocked" /\ on'[u] = q}]
    <3>1. \A u \in Thread, q \in Queue :
            at[u] = "blocked" /\ on[u] = q <=> at'[u] = "blocked" /\ on'[u] = q
      BY <1>1, <1>2 DEF RLock, WLock, Goto
    <3> QED  BY <1>1, <3>1 DEF RwInv, RwTypeOK
  <2>2. \A u \in Thread : (sl' = u) <=> (Spin /\ at'[u] \in Section)
    BY <1>1, <1>2 DEF RLock, WLock, Goto, Section
  <2>3. /\ at' \in [Thread -> WaitAt \cup Section
                                \cup {"reading", "writing", "wake_one", "wake_all"}]
        /\ on' \in [Thread -> Queue]
        /\ npending_reads' \in Int /\ npending_writes' \in Int
    BY <1>2 DEF RLock, WLock, Goto, Section
  <2> QED  BY <1>1, <2>1, <2>2, <2>3 DEF RwInv, RwTypeOK
<1>5. Sides' /\ FoundFree'
  BY <1>1, <1>2, <1>3 DEF RwInv, Sides, FoundFree, RLock, WLock, Goto, Reads, Writes, Section
<1>6. Active' = Active /\ Writing' = Writing
  BY <1>1, <1>2 DEF Active, Writing, RLock, WLock, Goto, Reads
<1>7. npending_writes' = Cardinality(Pending')
  <2>1. CASE RLock(t)
    <3>1. Pending' = Pending
      BY <1>1, <1>2, <2>1 DEF Pending, RLock, Goto, Writes
    <3> QED  BY <2>1, <3>1 DEF RwInv, RLock
  <2>2. CASE WLock(t)
    <3>1. Pending' = Pending \cup {t} /\ t \notin Pending
      BY <1>1, <1>2, <2>2 DEF Pending, WLock, Goto, Writes
    <3>2. Pending \in SUBSET Thread
      BY DEF Pending
    <3> QED  BY <2>2, <3>1, <3>2, Counting DEF RwInv, WLock
  <2> QED  BY <2>1, <2>2
<1> QED  BY <1>1, <1>4, <1>5, <1>6, <1>7 DEF RwInv, ActiveInv

(* Waiting keeps the invariant: a thread goes on to take the lock only from *)
(* a test of its condition inside the section, which it then keeps.         *)
LEMMA WaitingInv ==
  ASSUME Spin, RwInv, NEW t \in Thread, Behind(t) \/ QueueUp(t) \/ Waits(t)
  PROVE  RwInv'
<1> USE RwLockAssumption
<1> USE DEF Behind, QueueUp, Waits, WaitTest, WaitLock, WaitResumed, Enqueue, Goto
<1>1. UNCHANGED <<on, left, counters>>
  BY DEF Stay
<1>2. /\ at \in [Thread -> WaitAt \cup Section
                             \cup {"reading", "writing", "wake_one", "wake_all"}]
      /\ on \in [Thread -> Queue]
      /\ waiting = [q \in Queue |-> {u \in Thread : at[u] = "blocked" /\ on[u] = q}]
      /\ left = [u \in Thread |-> Forever] /\ timer = [u \in Thread |-> "off"]
      /\ \A u \in Thread : sl = u <=> at[u] \in Section
  BY DEF RwInv, RwTypeOK
<1>3. PICK to \in {"queue", "test", "lock", "take", "blocked"} :
        at' = [at EXCEPT ![t] = to]
  OBVIOUS
<1>4. at[t] \in {"pending", "queue", "test", "lock", "resumed"}
  BY Zenon
<1>5. sl' = IF to = "blocked" THEN Null ELSE t
  BY <1>2, <1>3, <1>4 DEF SpinLock, SpinUnlock, Section, Stay
<1>6. RwTypeOK'
  <2>1. timer' = timer
    BY <1>2, WaitAssumption, Zenon DEF StartTimer, Stay
  <2>2. /\ to = "blocked" => waiting' = [waiting EXCEPT ![on[t]] = @ \cup {t}]
        /\ to # "blocked" => waiting' = waiting
    BY <1>2, <1>3, Zenon DEF Stay
  <2>3. waiting' = [q \in Queue |-> {u \in Thread : at'[u] = "blocked" /\ on'[u] = q}]
    <3> HIDE DEF Behind, QueueUp, Waits
    <3>1. CASE to = "blocked"
      BY <1>1, <1>2, <1>3, <2>2, <3>1, SMTT(60)
    <3>2. CASE to # "blocked"
      BY <1>1, <1>2, <1>3, <1>4, <2>2, <3>2
    <3> QED  BY <3>1, <3>2
  <2>4. \A u \in Thread : (sl' = u) <=> (Spin /\ at'[u] \in Section)
    <3>1. sl \in {t, Null}
      BY <1>2, <1>4 DEF Section, SpinLock
    <3> HIDE DEF Behind, QueueUp, Waits
    <3>2. \A u \in Thread : u # t => at'[u] \notin Section
      BY <1>2, <1>3, <3>1
    <3>3. at'[t] = to
      BY <1>2, <1>3, Zenon
    <3> QED  BY <1>5, <3>2, <3>3, Zenon DEF Section
  <2> QED  BY <1>1, <1>2, <1>3, <1>5, <2>1, <2>3, <2>4, Zenon
           DEF RwInv, RwTypeOK, WaitAt, Section, counters
<1>7. Sides'
  BY <1>1, <1>2, <1>3, <1>4 DEF RwInv, Sides, Reads, Writes, Stay
<1>8. FoundFree'
  <2>1. to = "take" => Free(t)
    BY <1>2, <1>3 DEF Late
  <2> HIDE DEF Behind, QueueUp, Waits
  <2> QED  BY <1>1, <1>2, <1>3, <2>1, Zenon DEF RwInv, FoundFree, Free, Reads, Writes, counters
<1> HIDE DEF Behind, QueueUp, Waits
<1>9. Active' = Active /\ Writing' = Writing
  BY <1>1, <1>2, <1>3, <1>4 DEF Active, Writing, Reads
<1>10. Pending' = Pending
  <2>1. at[t] \in {"pending", "queue"} => Reads(t)
    BY DEF RwInv, Sides
  <2>2. Reads(t) => ~ Writes(t)
    BY DEF Reads, Writes
  <2>3. to = "queue" => Reads(t)
    BY <1>2, <1>3, <2>1 DEF Behind, QueueUp, Waits, WaitTest, WaitLock, WaitResumed
  <2> QED  BY <1>1, <1>2, <1>3, <1>4, <2>1, <2>2, <2>3 DEF Pending, Writes
<1> QED  BY <1>1, <1>6, <1>7, <1>8, <1>9, <1>10, Zenon DEF RwInv, ActiveInv, counters

(* A step of a thread that has the section, or takes it, and does not sleep *)
LEMMA SectionStep ==
  ASSUME Spin, RwTypeOK, NEW t \in Thread,
         NEW to \in Section \cup {"idle", "reading", "writing", "wake_one", "wake_all"},
         at[t] # "blocked", Goto(t, to), Stay,
         sl \in {t, Null}, sl' = IF to \in Section THEN t ELSE Null,
         nactive' \in Int, npending_reads' \in Int, npending_writes' \in Int
  PROVE  /\ RwTypeOK'
         /\ at'[t] = to
         /\ \A u \in Thread \ {t} : at'[u] = at[u] /\ at[u] \notin Section
<1> USE RwLockAssumption
<1>1. /\ at \in [Thread -> WaitAt \cup Section
                             \cup {"reading", "writing", "wake_one", "wake_all"}]
      /\ \A u \in Thread : sl = u <=> at[u] \in Section
  BY DEF RwTypeOK
<1>2. /\ at'[t] = to
      /\ \A u \in Thread \ {t} : at'[u] = at[u] /\ at[u] \notin Section
      /\ at' \in [Thread -> WaitAt \cup Section
                              \cup {"reading", "writing", "wake_one", "wake_all"}]
  BY <1>1 DEF Goto, WaitAt
<1>3. \A u \in Thread : (sl' = u) <=> (Spin /\ at'[u] \in Section)
  BY <1>2
<1>4. waiting' = [q \in Queue |-> {u \in Thread : at'[u] = "blocked" /\ on'[u] = q}]
  <2>1. to # "blocked"
    BY DEF Section
  <2>2. \A u \in Thread : at'[u] = "blocked" <=> at[u] = "blocked"
    BY <1>2, <2>1
  <2> QED  BY <2>2 DEF RwTypeOK, Stay
<1> QED  BY <1>2, <1>3, <1>4 DEF RwTypeOK, Stay

(* A reader's way in keeps the invariant: nactive counts it from the moment *)
(* it is raised.                                                            *)
LEMMA TakeSharedInv ==
  ASSUME Spin, RwInv, NEW t \in Thread, TakeShared(t)
  PROVE  RwInv'
<1> USE RwLockAssumption
<1> DEFINE to == IF at[t] = "take" THEN "took" ELSE "reading"
<1>1. /\ nactive \in Int /\ npending_reads \in Int /\ npending_writes \in Int
      /\ at[t] \in {"take", "took"} /\ sl = t /\ Reads(t) /\ ~ Writes(t)
  BY DEF RwInv, RwTypeOK, TakeShared, Section, Reads, Writes
<1>2. /\ Goto(t, to) /\ Stay
      /\ sl' = IF to \in Section THEN t ELSE Null
      /\ nactive' \in Int /\ npending_reads' \in Int
      /\ npending_writes' = npending_writes
      /\ on' = on
  BY <1>1 DEF TakeShared, SpinUnlock, Section, Stay
<1>3. /\ RwTypeOK'
      /\ at'[t] = to
      /\ \A u \in Thread \ {t} : at'[u] = at[u] /\ at[u] \notin Section
  <2> HIDE DEF to
  <2>1. to \in Section \cup {"idle", "reading", "writing", "wake_one", "wake_all"}
    BY DEF to, Section
  <2> QED  BY <1>1, <1>2, <2>1, SectionStep DEF RwInv
<1>4. Sides' /\ FoundFree'
  BY <1>1, <1>2, <1>3, Zenon DEF RwInv, Sides, FoundFree, Reads, Writes, Section
<1>5. Pending' = Pending /\ Writing' = Writing
  BY <1>1, <1>2, <1>3 DEF Pending, Writing, Writes
<1>6. ActiveInv'
  <2>1. CASE at[t] = "take"
    <3>1. nactive >= 0 /\ nactive' = nactive + 1
      BY <1>1, <2>1 DEF RwInv, FoundFree, Free, TakeShared
    <3>2. Writing = {} /\ nactive = Cardinality(Active)
      BY <3>1 DEF RwInv, ActiveInv
    <3>3. Active' = Active \cup {t} /\ t \notin Active /\ Active \in SUBSET Thread
      BY <1>1, <1>2, <1>3, <2>1 DEF Active, Reads
    <3> QED  BY <1>5, <3>1, <3>2, <3>3, Counting DEF ActiveInv
  <2>2. CASE at[t] = "took"
    <3>1. Active' = Active /\ nactive' = nactive
      BY <1>1, <1>2, <1>3, <2>2 DEF Active, Reads, TakeShared
    <3> QED  BY <1>5, <3>1 DEF RwInv, ActiveInv
  <2> QED  BY <1>1, <2>1, <2>2
<1> QED  BY <1>2, <1>3, <1>4, <1>5, <1>6 DEF RwInv

(* A writer's way in keeps the invariant: it has found the lock free, and   *)
(* nobody has come in since.                                                *)
LEMMA TakeExclusiveInv ==
  ASSUME Spin, RwInv, NEW t \in Thread, TakeExclusive(t)
  PROVE  RwInv'
<1> USE RwLockAssumption
<1> DEFINE to == IF at[t] = "take" THEN "took" ELSE "writing"
<1>1. /\ nactive = 0 /\ npending_reads \in Int /\ npending_writes \in Int
      /\ at[t] \in {"take", "took"} /\ sl = t /\ Writes(t) /\ ~ Reads(t)
  BY DEF RwInv, RwTypeOK, FoundFree, TakeExclusive, Section, Reads, Writes
<1>2. /\ Goto(t, to) /\ Stay
      /\ sl' = IF to \in Section THEN t ELSE Null
      /\ nactive' \in Int /\ npending_writes' \in Int
      /\ npending_reads' = npending_reads
      /\ on' = on
  BY <1>1 DEF TakeExclusive, SpinUnlock, Section, Stay
<1>3. /\ RwTypeOK'
      /\ at'[t] = to
      /\ \A u \in Thread \ {t} : at'[u] = at[u] /\ at[u] \notin Section
  <2> HIDE DEF to
  <2>1. to \in Section \cup {"idle", "reading", "writing", "wake_one", "wake_all"}
    BY DEF to, Section
  <2> QED  BY <1>1, <1>2, <2>1, SectionStep DEF RwInv
<1>4. Sides' /\ FoundFree'
  BY <1>1, <1>2, <1>3, Zenon DEF RwInv, Sides, FoundFree, Reads, Writes, Section, TakeExclusive
<1>5. Active' = Active
  BY <1>1, <1>2, <1>3 DEF Active, Reads
<1>6. Writing = {} /\ Active = {}
  <2>1. Writing = {} /\ Cardinality(Active) = 0
    BY <1>1 DEF RwInv, ActiveInv
  <2> QED  BY <2>1, Counting, Zenon DEF Active
<1>7. ActiveInv'
  <2>1. CASE at[t] = "take"
    <3>1. Writing' = {} /\ nactive' = nactive
      BY <1>3, <1>6, <2>1 DEF Writing, TakeExclusive
    <3> QED  BY <1>5, <1>6, <3>1 DEF RwInv, ActiveInv
  <2>2. CASE at[t] = "took"
    <3>1. Writing' = {t} /\ nactive' = -1
      BY <1>3, <1>6, <2>2 DEF Writing, TakeExclusive
    <3> QED  BY <1>5, <1>6, <3>1 DEF ActiveInv
  <2> QED  BY <1>1, <2>1, <2>2
<1>8. npending_writes' = Cardinality(Pending')
  <2>1. CASE at[t] = "take"
    <3>1. Pending' = Pending \ {t} /\ t \in Pending /\ Pending \in SUBSET Thread
      BY <1>1, <1>2, <1>3, <2>1 DEF Pending, Writes
    <3> QED  BY <2>1, <3>1, Counting DEF RwInv, TakeExclusive
  <2>2. CASE at[t] = "took"
    <3>1. Pending' = Pending
      BY <1>2, <1>3, <2>2 DEF Pending, Writes
    <3> QED  BY <2>2, <3>1 DEF RwInv, TakeExclusive
  <2> QED  BY <1>1, <2>1, <2>2
<1> QED  BY <1>3, <1>4, <1>7, <1>8 DEF RwInv

(* Leaving keeps the invariant: a reader takes back its count, a writer,    *)
(* who was alone, leaves the lock free.                                     *)
LEMMA UnlockInv ==
  ASSUME Spin, RwInv, NEW t \in Thread, Unlock(t)
  PROVE  RwInv'
<1> USE RwLockAssumption
<1>1. /\ nactive \in Int /\ npending_reads \in Int /\ npending_writes \in Int
      /\ at[t] \in {"reading", "writing"} /\ sl = Null
  BY DEF RwInv, RwTypeOK, Unlock, SpinLock
<1>2. /\ Goto(t, "left") /\ Stay /\ on' = on
      /\ sl' = t /\ nactive' \in Int
      /\ UNCHANGED <<npending_reads, npending_writes>>
  BY <1>1 DEF Unlock, SpinLock, Stay
<1>3. /\ RwTypeOK'
      /\ at'[t] = "left"
      /\ \A u \in Thread \ {t} : at'[u] = at[u] /\ at[u] \notin Section
  BY <1>1, <1>2, SectionStep, Zenon DEF RwInv, Section
<1>4. Sides' /\ FoundFree'
  BY <1>1, <1>2, <1>3, Zenon DEF RwInv, Sides, FoundFree, Reads, Writes, Section
<1>5. Pending' = Pending
  BY <1>1, <1>2, <1>3 DEF Pending, Writes
<1>6. ActiveInv'
  <2>1. CASE at[t] = "reading"
    <3>1. nactive' = nactive - 1 /\ t \in Active /\ Active \in SUBSET Thread
      BY <2>1 DEF Unlock, Active
    <3>2. Writing = {} /\ nactive = Cardinality(Active)
      BY <3>1, Zenon DEF RwInv, ActiveInv
    <3>3. Active' = Active \ {t} /\ Writing' = {}
      BY <1>2, <1>3, <2>1, <3>2 DEF Active, Writing, Reads
    <3> QED  BY <3>1, <3>2, <3>3, Counting DEF ActiveInv
  <2>2. CASE at[t] = "writing"
    <3>1. nactive' = 0 /\ t \in Writing
      BY <2>2 DEF Unlock, Writing
    <3>2. Active = {} /\ Writing = {t}
      BY <3>1 DEF RwInv, ActiveInv
    <3>3. Active' = {} /\ Writing' = {}
      BY <1>2, <1>3, <3>2, Zenon DEF Active, Writing, Reads
    <3> QED  BY <3>1, <3>3, FS_EmptySet DEF ActiveInv
  <2> QED  BY <1>1, <2>1, <2>2
<1> QED  BY <1>2, <1>3, <1>4, <1>5, <1>6 DEF RwInv

(* Choosing whom to wake keeps the invariant: no counter moves. *)
LEMMA ChooseInv ==
  ASSUME Spin, RwInv, NEW t \in Thread, Choose(t)
  PROVE  RwInv'
<1> USE RwLockAssumption
<1>1. /\ nactive \in Int /\ npending_reads \in Int /\ npending_writes \in Int
      /\ at[t] = "left" /\ sl = t
  BY DEF RwInv, RwTypeOK, Choose, Section
<1>2. PICK to \in {"idle", "wake_one", "wake_all"} : Goto(t, to)
  BY DEF Choose
<1>3. Stay /\ on' = on /\ sl' = Null /\ UNCHANGED counters
  BY Zenon DEF Choose, SpinUnlock, Stay
<1>4. /\ RwTypeOK'
      /\ at'[t] = to
      /\ \A u \in Thread \ {t} : at'[u] = at[u] /\ at[u] \notin Section
  BY <1>1, <1>2, <1>3, SectionStep, Zenon DEF RwInv, Section, counters
<1>5. Sides' /\ FoundFree'
  BY <1>2, <1>3, <1>4, Zenon DEF RwInv, Sides, FoundFree, Reads, Writes, Section, counters
<1>6. Pending' = Pending /\ Active' = Active /\ Writing' = Writing
  BY <1>1, <1>2, <1>3, <1>4 DEF Pending, Active, Writing, Reads, Writes
<1> QED  BY <1>3, <1>4, <1>5, <1>6 DEF RwInv, ActiveInv, counters

(* Waking keeps the invariant, though it is done outside the section: the   *)
(* threads it wakes stay pending until they have tested the counters again. *)
LEMMA WakingInv ==
  ASSUME Spin, RwInv, NEW t \in Thread, WakeReaders(t) \/ WakeWriter(t)
  PROVE  RwInv'
<1> USE RwLockAssumption
<1>1. /\ at \in [Thread -> WaitAt \cup Section
                             \cup {"reading", "writing", "wake_one", "wake_all"}]
      /\ on \in [Thread -> Queue]
      /\ waiting = [q \in Queue |-> {u \in Thread : at[u] = "blocked" /\ on[u] = q}]
      /\ timer = [u \in Thread |-> "off"]
  BY DEF RwInv, RwTypeOK
<1>2. at[t] \in {"wake_one", "wake_all"} /\ UNCHANGED <<on, left, sl, counters>>
  BY Zenon DEF WakeReaders, WakeWriter
<1>3. PICK W \in SUBSET {u \in Thread : at[u] = "blocked"} :
        /\ at' = [u \in Thread |-> IF u = t THEN "idle"
                                   ELSE IF u \in W THEN "resumed" ELSE at[u]]
        /\ waiting' = [q \in Queue |-> waiting[q] \ W]
        /\ timer' = timer
  <2>1. CASE WakeReaders(t)
    <3> DEFINE W == waiting[shared]
    <3>1. at' = [u \in Thread |-> IF u = t THEN "idle"
                                  ELSE IF u \in W THEN "resumed" ELSE at[u]]
      BY <1>1, <2>1, Zenon DEF WakeReaders, Woken
    <3>2. waiting' = [q \in Queue |-> waiting[q] \ W]
      <4>1. waiting' = [waiting EXCEPT ![shared] = {}]
        BY <2>1 DEF WakeReaders, EmptyQueue
      <4>2. waiting[exclusive] \ W = waiting[exclusive] /\ waiting[shared] \ W = {}
        BY <1>1
      <4> QED  BY <1>1, <4>1, <4>2, Zenon
    <3>3. timer' = timer
      BY <1>1, <2>1 DEF WakeReaders, EmptyQueue
    <3> QED  BY <1>1, <3>1, <3>2, <3>3
  <2>2. CASE WakeWriter(t) /\ waiting[exclusive] = {}
    <3>1. at' = [u \in Thread |-> IF u = t THEN "idle"
                                  ELSE IF u \in {} THEN "resumed" ELSE at[u]]
      BY <1>1, <2>2 DEF WakeWriter, Goto
    <3>2. waiting' = [q \in Queue |-> waiting[q] \ {}] /\ timer' = timer
      BY <1>1, <2>2 DEF WakeWriter
    <3> QED  BY <3>1, <3>2, Zenon
  <2>3. CASE WakeWriter(t) /\ waiting[exclusive] # {}
    <3>1. PICK w \in waiting[exclusive] :
            /\ at' = [at EXCEPT ![t] = "idle", ![w] = "resumed"]
            /\ waiting' = [waiting EXCEPT ![exclusive] = @ \ {w}]
            /\ timer' = timer
      BY <2>3 DEF WakeWriter
    <3>2. at[w] = "blocked" /\ w # t /\ w \in Thread
      BY <1>1, <1>2
    <3>3. at' = [u \in Thread |-> IF u = t THEN "idle"
                                  ELSE IF u \in {w} THEN "resumed" ELSE at[u]]
      BY <1>1, <3>1, <3>2, Zenon
    <3>4. waiting' = [q \in Queue |-> waiting[q] \ {w}]
      BY <1>1, <3>1, ZenonT(60)
    <3>5. {w} \in SUBSET {u \in Thread : at[u] = "blocked"}
      BY <3>2
    <3>6. timer' = timer
      BY <3>1
    <3> QED  BY ONLY <3>3, <3>4, <3>5, <3>6, Zenon
  <2> QED  BY <2>1, <2>2, <2>3
<1>4. \A u \in Thread :
        /\ at'[u] = IF u = t THEN "idle" ELSE IF u \in W THEN "resumed" ELSE at[u]
        /\ u \in W => at[u] = "blocked"
  BY <1>3
<1>5. RwTypeOK'
  <2>1. at' \in [Thread -> WaitAt \cup Section
                             \cup {"reading", "writing", "wake_one", "wake_all"}]
    BY <1>1, <1>3 DEF WaitAt
  <2>2. waiting' = [q \in Queue |-> {u \in Thread : at'[u] = "blocked" /\ on'[u] = q}]
    BY <1>1, <1>2, <1>3, <1>4, Zenon
  <2>3. \A u \in Thread : at'[u] \in Section <=> at[u] \in Section
    BY <1>2, <1>4, Zenon DEF Section
  <2> QED  BY <1>2, <1>3, <2>1, <2>2, <2>3, Zenon DEF RwInv, RwTypeOK, counters
<1>6. Sides' /\ FoundFree'
  BY <1>2, <1>4, Zenon DEF RwInv, Sides, FoundFree, Free, Reads, Writes, counters
<1>7. Pending' = Pending /\ Active' = Active /\ Writing' = Writing
  BY <1>2, <1>4 DEF Pending, Active, Writing, Reads, Writes
<1> QED  BY <1>2, <1>5, <1>6, <1>7, Zenon DEF RwInv, ActiveInv, counters

-----------------------------------------------------------------------------
(* The readers that npending_reads counts *)
Arriving == {t \in Thread : /\ Reads(t)
                            /\ at[t] \in {"pending", "queue", "test", "lock", "blocked",
                                          "resumed", "take", "took"}}

(* t will get to a writer that sleeps while the lock is free: it is about   *)
(* to wake a writer, or readers that will do so when they leave, or it will *)
(* take the lock itself and do so when it leaves.                           *)
Attends(t) ==
  \/ at[t] \in {"test", "lock", "resumed", "take", "left", "wake_one"}
  \/ at[t] = "took" /\ Writes(t)
  \/ at[t] = "wake_all" /\ waiting[shared] # {}

(* A writer that sleeps while the lock is free is attended to.              *)
WritersAttended ==
  nactive = 0 /\ waiting[exclusive] # {} => \E t \in Thread : Attends(t)

(* t is a writer on its way in, inside, or on its way out to wake readers.  *)
Around(t) ==
  Writes(t) /\ at[t] \in {"test", "lock", "blocked", "resumed", "take", "took",
                          "writing", "left", "wake_all"}

(* A reader queues up only behind a pending writer, and sleeps only while   *)
(* there is one who will wake it.                                           *)
ReadersAttended ==
  /\ \A t \in Thread : at[t] = "queue" => Pending # {}
  /\ waiting[shared] # {} => \E w \in Thread : Around(w)

(* The inductive invariant behind NobodyForgotten *)
AttendInv ==
  /\ npending_reads = Cardinality(Arriving)
  /\ WritersAttended /\ ReadersAttended

(* Nobody is on the way when the lock is made.                              *)
LEMMA AttendInit == Init => AttendInv
<1> SUFFICES ASSUME Init PROVE AttendInv
  OBVIOUS
<1> USE RwLockAssumption DEF Init, WaitInit
<1>1. Arriving = {} /\ waiting[shared] = {} /\ waiting[exclusive] = {}
  BY DEF Arriving
<1>2. \A t \in Thread : at[t] = "idle"
  BY Zenon
<1> QED  BY <1>1, <1>2, FS_EmptySet DEF AttendInv, WritersAttended, ReadersAttended

(* Whatever the thread t does, no other one moves, but for sleepers that    *)
(* are woken, and only t falls asleep.                                      *)
LEMMA OthersStay ==
  ASSUME RwInv, NEW t \in Thread, RLock(t) \/ WLock(t) \/ Unlock(t) \/ Run(t)
  PROVE  /\ \A u \in Thread \ {t} :
              /\ on'[u] = on[u]
              /\ at'[u] = at[u] \/ (at[u] = "blocked" /\ at'[u] = "resumed")
         /\ at[t] # "idle" => on' = on
         /\ at[t] # "blocked"
<1> USE RwLockAssumption
<1>1. /\ DOMAIN at = Thread /\ DOMAIN on = Thread
      /\ \A q \in Queue, u \in Thread : u \in waiting[q] => at[u] = "blocked"
      /\ \A q \in Queue : waiting[q] \in SUBSET Thread
  BY Zenon DEF RwInv, RwTypeOK
<1>2. CASE RLock(t) \/ WLock(t)
  BY <1>1, <1>2, Zenon DEF RLock, WLock, Goto
<1>3. CASE Unlock(t)
  BY <1>1, <1>3, Zenon DEF Unlock, Goto, Stay
<1>4. CASE Behind(t) \/ QueueUp(t) \/ Choose(t) \/ TakeShared(t) \/ TakeExclusive(t)
  BY <1>1, <1>4, Zenon DEF Behind, QueueUp, Choose, TakeShared, TakeExclusive, Enqueue, Goto, Stay
<1>5. CASE Waits(t)
  BY <1>1, <1>5, Zenon DEF Waits, WaitTest, WaitLock, WaitResumed, Enqueue, Goto
<1>6. CASE WakeReaders(t)
  BY <1>1, <1>6, Zenon DEF WakeReaders, Woken
<1>7. CASE WakeWriter(t)
  BY <1>1, <1>7 DEF WakeWriter, Goto
<1> QED  BY <1>2, <1>3, <1>4, <1>5, <1>6, <1>7, Zenon DEF Run

(* A step of one thread keeps npending_reads the number of readers on their *)
(* way in.                                                                  *)
LEMMA ArrivingInv ==
  ASSUME Spin, RwInv, NEW t \in Thread, RLock(t) \/ WLock(t) \/ Unlock(t) \/ Run(t),
         npending_reads = Cardinality(Arriving)
  PROVE  npending_reads' = Cardinality(Arriving')
<1> USE RwLockAssumption
<1>1. at \in [Thread -> WaitAt \cup Section
                          \cup {"reading", "writing", "wake_one", "wake_all"}]
      /\ on \in [Thread -> Queue]
  BY Zenon DEF RwInv, RwTypeOK
<1>2. \A u \in Thread \ {t} : u \in Arriving' <=> u \in Arriving
  BY OthersStay, Zenon DEF Arriving, Reads
<1>3. Arriving \in SUBSET Thread /\ Arriving' \in SUBSET Thread
  BY DEF Arriving
<1>4. CASE RLock(t)
  <2>1. t \notin Arriving /\ t \in Arriving' /\ npending_reads' = npending_reads + 1
    BY <1>1, <1>4 DEF RLock, Goto, Arriving, Reads
  <2>2. Arriving' = Arriving \cup {t}
    BY <1>2, <1>3, <2>1
  <2> QED  BY <1>3, <2>1, <2>2, Counting, Zenon
<1>5. CASE TakeShared(t) /\ at[t] = "took"
  <2>1. t \in Arriving /\ t \notin Arriving' /\ npending_reads' = npending_reads - 1
    BY <1>1, <1>5, Zenon DEF TakeShared, Goto, Arriving, Reads
  <2>2. Arriving' = Arriving \ {t}
    BY <1>2, <1>3, <2>1
  <2> QED  BY <1>3, <2>1, <2>2, Counting, Zenon
<1>6. CASE ~ RLock(t) /\ ~ (TakeShared(t) /\ at[t] = "took")
  <2>1. npending_reads' = npending_reads
    BY <1>6, Zenon DEF Run, WLock, Unlock, Behind, QueueUp, Waits, TakeShared, TakeExclusive,
                Choose, WakeReaders, WakeWriter, counters
  <2>2. t \in Arriving' <=> t \in Arriving
    <3>1. CASE WLock(t)
      BY <1>1, <3>1, Zenon DEF WLock, Goto, Arriving, Reads
    <3>2. CASE Unlock(t) \/ Choose(t)
      BY <1>1, <3>2, Zenon DEF Unlock, Choose, Goto, Stay, Arriving, Reads
    <3>3. CASE Behind(t) \/ QueueUp(t)
      BY <1>1, <3>3, Zenon DEF Behind, QueueUp, Enqueue, Goto, Stay, Arriving, Reads
    <3>4. CASE Waits(t)
      BY <1>1, <3>4, Zenon DEF Waits, WaitTest, WaitLock, WaitResumed, Enqueue, Goto, Arriving, Reads
    <3>5. CASE TakeShared(t) \/ TakeExclusive(t)
      BY <1>1, <1>6, <3>5, Zenon DEF TakeShared, TakeExclusive, Goto, Stay, Arriving, Reads, Writes
    <3>6. CASE WakeReaders(t)
      BY <1>1, <3>6, Zenon DEF WakeReaders, Woken, Arriving, Reads
    <3>7. CASE WakeWriter(t)
      <4>1. \A w \in waiting[exclusive] : at[w] = "blocked"
        BY DEF RwInv, RwTypeOK
      <4>2. at'[t] = "idle" /\ at[t] = "wake_one"
        BY <1>1, <3>7, <4>1 DEF WakeWriter, Goto
      <4> QED  BY <4>2 DEF Arriving
    <3> QED  BY <1>6, <3>1, <3>2, <3>3, <3>4, <3>5, <3>6, <3>7, Zenon DEF Run
  <2>3. Arriving' = Arriving
    BY <1>2, <1>3, <2>2
  <2> QED  BY <2>1, <2>3
<1> QED  BY <1>4, <1>5, <1>6, Zenon

(* A step of one thread keeps the sleeping readers attended to: the writer  *)
(* they wait for leaves only after it has looked at npending_reads.         *)
LEMMA ReadersAttendedInv ==
  ASSUME Spin, RwInv, RwInv', AttendInv, NEW t \in Thread,
         RLock(t) \/ WLock(t) \/ Unlock(t) \/ Run(t)
  PROVE  ReadersAttended'
<1> USE RwLockAssumption
<1>1. /\ at \in [Thread -> WaitAt \cup Section
                             \cup {"reading", "writing", "wake_one", "wake_all"}]
      /\ on \in [Thread -> Queue]
      /\ waiting = [q \in Queue |-> {u \in Thread : at[u] = "blocked" /\ on[u] = q}]
      /\ \A u \in Thread : sl = u <=> at[u] \in Section
  BY Zenon DEF RwInv, RwTypeOK
<1>2. \A u \in Thread \ {t} : Around(u) => Around(u)'
  BY OthersStay DEF Around, Writes
<1>3. ASSUME NEW u \in Thread, at'[u] = "queue"
      PROVE  Pending' # {}
  <2>1. CASE u = t
    <3>1. Behind(t) /\ npending_writes > 0
      <4>1. ~ WakeReaders(t)
        BY <1>1, <1>3, <2>1, Zenon DEF WakeReaders, Woken
      <4>2. ~ WakeWriter(t)
        BY <1>1, <1>3, <2>1, Zenon DEF WakeWriter, Goto
      <4>3. ~ Choose(t) /\ ~ Unlock(t) /\ ~ TakeShared(t) /\ ~ TakeExclusive(t)
        BY <1>1, <1>3, <2>1, Zenon DEF Choose, Unlock, TakeShared, TakeExclusive, Goto
      <4>4. ~ Waits(t) /\ ~ QueueUp(t)
        BY <1>1, <1>3, <2>1, Zenon DEF Waits, WaitTest, WaitLock, WaitResumed, QueueUp, Enqueue, Goto
      <4>5. ~ RLock(t) /\ ~ WLock(t)
        BY <1>1, <1>3, <2>1 DEF RLock, WLock, Goto
      <4> QED  BY <1>1, <1>3, <2>1, <4>1, <4>2, <4>3, <4>4, <4>5, Zenon DEF Run, Behind, Goto
    <3>2. npending_writes' > 0 /\ npending_writes' = Cardinality(Pending')
      BY <3>1 DEF Behind, counters, RwInv
    <3> QED  BY <3>2, FS_EmptySet
  <2>2. CASE u # t
    <3>1. at[u] = "queue" /\ sl = u
      BY <1>1, <1>3, <2>2, OthersStay, Zenon DEF Section
    <3>2. PICK w \in Thread : w \in Pending
      BY <3>1 DEF AttendInv, ReadersAttended, Pending
    <3>3. at[t] \notin Section
      BY <1>1, <2>2, <3>1, Zenon
    <3>4. w # t => w \in Pending'
      BY <3>2, OthersStay DEF Pending, Writes
    <3>5. w # t
      <4>1. w = t => Waits(t) /\ at[t] = "resumed"
        BY <3>2, <3>3, OthersStay, Zenon DEF Pending, Section, RLock, WLock, Unlock, Run, Behind,
               QueueUp, Waits, WaitTest, WaitLock, WaitResumed, TakeShared, TakeExclusive, Choose,
               WakeReaders, WakeWriter
      <4>2. w = t => sl = Null
        BY <4>1, Zenon DEF Waits, WaitTest, WaitLock, WaitResumed, SpinLock
      <4> QED  BY <3>1, <4>2, Zenon
    <3> QED  BY <3>4, <3>5, Zenon
  <2> QED  BY <2>1, <2>2
<1>4. ASSUME waiting'[shared] # {}
      PROVE  \E w \in Thread : Around(w)'
  <2>1. CASE QueueUp(t)
    <3>1. PICK w \in Thread : w \in Pending
      BY <2>1, Zenon DEF AttendInv, ReadersAttended, QueueUp, Pending
    <3>2. Reads(t) /\ ~ Writes(t)
      BY <2>1 DEF RwInv, Sides, QueueUp, Reads, Writes
    <3>3. w # t /\ Around(w)
      BY <3>1, <3>2 DEF Pending, Around
    <3> QED  BY <1>2, <3>3, Zenon
  <2>2. CASE Waits(t) /\ ~ Free(t) /\ Reads(t)
    <3>1. nactive < 0
      BY <2>2 DEF RwInv, RwTypeOK, Free
    <3>2. PICK w \in Writing : TRUE
      <4>1. Active \in SUBSET Thread
        BY DEF Active
      <4>2. Cardinality(Active) \in Nat
        BY <4>1, Counting, Zenon
      <4> QED  BY <3>1, <4>2 DEF RwInv, ActiveInv
    <3>3. w \in Thread /\ Around(w) /\ w # t
      BY <2>2, <3>2, Zenon DEF Writing, Around, RwInv, Sides, Waits, WaitTest, WaitLock, WaitResumed
    <3> QED  BY <1>2, <3>3, Zenon
  <2>3. CASE ~ QueueUp(t) /\ ~ (Waits(t) /\ ~ Free(t) /\ Reads(t))
    <3>1. waiting'[shared] \subseteq waiting[shared]
      BY <1>1, <2>3, Zenon DEF RLock, WLock, Unlock, Run, Behind, Waits, WaitTest, WaitLock,
             WaitResumed, Enqueue, TakeShared, TakeExclusive, Choose, WakeReaders,
             WakeWriter, EmptyQueue, Stay, Reads
    <3>2. PICK w \in Thread : Around(w)
      BY <1>4, <3>1 DEF AttendInv, ReadersAttended
    <3>3. CASE w # t
      BY <1>2, <3>2, <3>3, Zenon
    <3>4. CASE w = t
      <4>1. CASE Unlock(t) \/ Waits(t) \/ TakeExclusive(t)
        BY <1>1, <3>2, <3>4, <4>1, Zenon DEF Around, Writes, Unlock, Waits, WaitTest, WaitLock,
               WaitResumed, Enqueue, TakeExclusive, Goto, Stay
      <4>2. CASE Choose(t)
        <5>1. Arriving # {} /\ Arriving \in SUBSET Thread
          BY <1>1, <1>4, <3>1 DEF Arriving, Reads
        <5>2. npending_reads > 0
          <6>1. Cardinality(Arriving) \in Nat /\ Cardinality(Arriving) # 0
            BY <5>1, Counting, Zenon
          <6> QED  BY <6>1 DEF AttendInv
        <5> QED  BY <1>1, <3>2, <3>4, <4>2, <5>2, Zenon DEF Around, Writes, Reads, Choose, Goto, Stay
      <4>3. CASE WakeReaders(t)
        BY <1>1, <1>4, <4>3 DEF WakeReaders, EmptyQueue
      <4> QED  BY <2>3, <3>2, <3>4, <4>1, <4>2, <4>3, Zenon
               DEF Around, Writes, RLock, WLock, Run, Behind, TakeShared, Reads, WakeWriter
    <3> QED  BY <3>3, <3>4, Zenon
  <2> QED  BY <2>1, <2>2, <2>3
<1> QED  BY <1>3, <1>4, Zenon DEF ReadersAttended

(* A step of one thread keeps the sleeping writers attended to: whoever     *)
(* frees the lock looks for them, and whoever is woken instead of them      *)
(* takes the lock and frees it again.                                       *)
LEMMA WritersAttendedInv ==
  ASSUME Spin, RwInv, AttendInv, NEW t \in Thread,
         RLock(t) \/ WLock(t) \/ Unlock(t) \/ Run(t)
  PROVE  WritersAttended'
<1> USE RwLockAssumption
<1> SUFFICES ASSUME nactive' = 0, waiting'[exclusive] # {}
             PROVE  \E u \in Thread : Attends(u)'
  BY Zenon DEF WritersAttended
<1>1. /\ at \in [Thread -> WaitAt \cup Section
                             \cup {"reading", "writing", "wake_one", "wake_all"}]
      /\ on \in [Thread -> Queue]
      /\ waiting = [q \in Queue |-> {u \in Thread : at[u] = "blocked" /\ on[u] = q}]
      /\ nactive \in Int
      /\ \A u \in Thread : sl = u <=> at[u] \in Section
  BY Zenon DEF RwInv, RwTypeOK
<1>2. ASSUME nactive = 0, waiting[exclusive] # {}, ~ Attends(t),
             waiting[shared] \subseteq waiting'[shared]
      PROVE  \E u \in Thread : Attends(u)'
  <2>1. PICK u \in Thread : Attends(u)
    BY <1>2, Zenon DEF AttendInv, WritersAttended
  <2>2. u # t /\ at'[u] = at[u] /\ on'[u] = on[u]
    BY <1>2, <2>1, OthersStay, Zenon DEF Attends
  <2> QED  BY <1>2, <2>1, <2>2, Zenon DEF Attends, Writes
<1>3. CASE RLock(t)
  BY <1>1, <1>2, <1>3, Zenon DEF RLock, Attends
<1>4. CASE WLock(t) \/ Unlock(t)
  BY <1>1, <1>4, Zenon DEF WLock, Unlock, Goto, Attends
<1>5. CASE Behind(t)
  BY <1>1, <1>2, <1>5, Zenon DEF Behind, Stay, counters, Attends
<1>6. CASE QueueUp(t)
  <2>1. on[t] = shared
    BY <1>6, Zenon DEF RwInv, Sides, Reads, QueueUp
  <2>2. waiting'[exclusive] = waiting[exclusive] /\ waiting[shared] \subseteq waiting'[shared]
    BY <1>1, <1>6, <2>1, Zenon DEF QueueUp, Enqueue
  <2> QED  BY <1>2, <1>6, <2>2, Zenon DEF QueueUp, counters, Attends
<1>7. CASE Waits(t)
  <2>1. Free(t)
    BY <1>7, SMTT(60) DEF Waits, counters, Free
  <2> QED  BY <1>1, <1>7, <2>1, Zenon DEF Waits, WaitTest, WaitLock, WaitResumed, Goto, Attends
<1>8. CASE TakeShared(t)
  <2>1. ~ (at[t] = "take")
    BY <1>1, <1>8, SMTT(60) DEF RwInv, FoundFree, Free, TakeShared
  <2>2. t \in Active /\ Active \in SUBSET Thread /\ nactive = 0
    BY <1>8, <2>1, Zenon DEF TakeShared, Active
  <2> QED  BY <2>2, Counting, Zenon DEF RwInv, ActiveInv
<1>9. CASE TakeExclusive(t)
  BY <1>1, <1>9 DEF TakeExclusive, Goto, Stay, Attends, Writes
<1>10. CASE Choose(t)
  <2>1. nactive = 0 /\ waiting' = waiting /\ sl = t /\ on' = on
    BY <1>1, <1>10, Zenon DEF Choose, Stay, counters, Section
  <2>2. npending_writes > 0
    <3>1. Pending # {} /\ Pending \in SUBSET Thread
      BY <1>1, <2>1, Zenon DEF Pending, Writes
    <3>2. Cardinality(Pending) \in Nat /\ Cardinality(Pending) # 0
      BY <3>1, Counting, Zenon
    <3> QED  BY <3>2 DEF RwInv
  <2>3. CASE Reads(t) \/ ~ (npending_reads > 0)
    BY <1>1, <1>10, <2>1, <2>2, <2>3 DEF Choose, Goto, Attends
  <2>4. CASE ~ Reads(t) /\ npending_reads > 0
    <3>1. PICK r \in Thread : r \in Arriving
      BY <2>4, FS_EmptySet, SMTT(60) DEF AttendInv, Arriving
    <3>2. at[r] \in {"blocked", "resumed"} /\ Reads(r) /\ r # t
      BY <1>1, <1>10, <2>1, <2>4, <3>1, Zenon DEF Arriving, Section
    <3>3. CASE at[r] = "blocked"
      BY <1>1, <1>10, <2>1, <2>4, <3>2, <3>3, Zenon DEF Choose, Goto, Attends, Reads
    <3>4. CASE at[r] = "resumed"
      BY <3>2, <3>4, OthersStay, Zenon DEF Attends
    <3> QED  BY <3>2, <3>3, <3>4
  <2> QED  BY <2>3, <2>4, Zenon
<1>11. CASE WakeReaders(t)
  <2>1. CASE waiting[shared] # {}
    <3>1. PICK r \in waiting[shared] : r \in Thread /\ r # t
      BY <1>1, <1>11, <2>1, Zenon DEF WakeReaders
    <3>2. at'[r] = "resumed"
      BY <1>1, <1>11, <3>1, Zenon DEF WakeReaders, Woken
    <3> QED  BY <3>1, <3>2, Zenon DEF Attends
  <2>2. CASE waiting[shared] = {}
    BY <1>1, <1>2, <1>11, <2>2, Zenon DEF WakeReaders, EmptyQueue, counters, Attends
  <2> QED  BY <2>1, <2>2, Zenon
<1>12. CASE WakeWriter(t)
  <2>1. CASE waiting[exclusive] = {}
    BY <1>12, <2>1, Zenon DEF WakeWriter
  <2>2. CASE waiting[exclusive] # {}
    <3>1. PICK w \in waiting[exclusive] : at' = [at EXCEPT ![t] = "idle", ![w] = "resumed"]
      BY <1>12, <2>2, Zenon DEF WakeWriter
    <3>2. w \in Thread /\ at'[w] = "resumed"
      BY <1>1, <3>1
    <3> QED  BY <3>2, Zenon DEF Attends
  <2> QED  BY <2>1, <2>2, Zenon
<1> QED  BY <1>3, <1>4, <1>5, <1>6, <1>7, <1>8, <1>9, <1>10, <1>11, <1>12, Zenon DEF Run

-----------------------------------------------------------------------------
(* Both invariants hold in every state, where rwl->sl excludes.             *)
THEOREM RwLockInvariant == Spin => (Spec => [](RwInv /\ AttendInv))
<1> SUFFICES ASSUME Spin PROVE Spec => [](RwInv /\ AttendInv)
  OBVIOUS
<1>1. Init => RwInv /\ AttendInv
  BY RwInitInv, AttendInit
<1>2. RwInv /\ AttendInv /\ [Next]_vars => (RwInv /\ AttendInv)'
  <2> SUFFICES ASSUME RwInv, AttendInv, [Next]_vars PROVE (RwInv /\ AttendInv)'
    OBVIOUS
  <2>1. ASSUME NEW t \in Thread, RLock(t) \/ WLock(t) \/ Unlock(t) \/ Run(t)
        PROVE  (RwInv /\ AttendInv)'
    <3>1. RwInv'
      BY <2>1, CallsInv, WaitingInv, TakeSharedInv, TakeExclusiveInv, UnlockInv,
         ChooseInv, WakingInv, Zenon DEF Run
    <3>2. AttendInv'
      BY <2>1, <3>1, ArrivingInv, ReadersAttendedInv, WritersAttendedInv, Zenon DEF AttendInv
    <3> QED  BY <3>1, <3>2, Zenon
  <2>2. CASE UNCHANGED vars
    <3> USE <2>2 DEF vars, waitVars, counters, Reads, Writes
    <3>1. RwTypeOK' /\ Sides' /\ FoundFree'
      BY Zenon DEF RwInv, RwTypeOK, Sides, FoundFree, Free
    <3>2. Active' = Active /\ Pending' = Pending /\ Writing' = Writing /\ Arriving' = Arriving
      BY DEF Active, Pending, Writing, Arriving
    <3>3. ActiveInv' /\ npending_writes' = Cardinality(Pending')
      BY <3>2, Zenon DEF RwInv, ActiveInv
    <3>4. \A t \in Thread : (Attends(t)' <=> Attends(t)) /\ (Around(t)' <=> Around(t))
      BY Zenon DEF Attends, Around
    <3>5. AttendInv'
      BY <3>2, <3>4 DEF AttendInv, WritersAttended, ReadersAttended
    <3> QED  BY <3>1, <3>3, <3>5, Zenon DEF RwInv
  <2> QED  BY <2>1, <2>2 DEF Next
<1> QED  BY <1>1, <1>2, PTL DEF Spec

(* For any number of threads, the variables stay in range and rwl->sl is    *)
(* held by the one thread inside a section.                                 *)
THEOREM RwLockTypeCorrect == Spin => (Spec => []RwTypeOK)
<1>1. RwInv => RwTypeOK
  BY Zenon DEF RwInv
<1> QED  BY <1>1, RwLockInvariant, PTL

(* For any number of threads, a writer holds the lock alone (rwlock.h),     *)
(* where rwl->sl excludes: nactive is -1 exactly while one writes, and      *)
(* counts the readers otherwise.                                            *)
THEOREM RwLockExclusion == Spin => (Spec => []Exclusion)
<1>1. RwInv => Exclusion
  BY DEF RwInv, ActiveInv, Active, Writing, Exclusion
<1> QED  BY <1>1, RwLockInvariant, PTL

(* For any number of threads, no assertion of rwlock.c fails.               *)
THEOREM RwLockAssertions == Spin => (Spec => []AssertsHold)
<1>1. RwInv => AssertsHold
  <2> SUFFICES ASSUME RwInv, NEW t \in Thread
               PROVE  /\ at[t] = "take" /\ Writes(t) => npending_writes > 0 /\ nactive = 0
                      /\ at[t] = "reading" => nactive > 0
                      /\ at[t] = "writing" => nactive = -1
    BY Zenon DEF AssertsHold
  <2>1. Active \in SUBSET Thread /\ Pending \in SUBSET Thread
    BY DEF Active, Pending
  <2>2. /\ Cardinality(Active) \in Nat /\ (Cardinality(Active) = 0 <=> Active = {})
        /\ Cardinality(Pending) \in Nat /\ (Cardinality(Pending) = 0 <=> Pending = {})
    BY <2>1, Counting, Zenon
  <2>3. ASSUME at[t] = "take", Writes(t) PROVE npending_writes > 0 /\ nactive = 0
    <3>1. t \in Pending /\ ~ Reads(t)
      BY <2>3, RwLockAssumption DEF Pending, Reads, Writes
    <3> QED  BY <2>2, <2>3, <3>1 DEF RwInv, FoundFree, Free
  <2>4. ASSUME at[t] = "reading" PROVE nactive > 0
    <3>1. t \in Active
      BY <2>4 DEF Active
    <3> QED  BY <2>2, <3>1 DEF RwInv, ActiveInv
  <2>5. ASSUME at[t] = "writing" PROVE nactive = -1
    BY <2>5 DEF RwInv, ActiveInv, Writing
  <2> QED  BY <2>3, <2>4, <2>5
<1> QED  BY <1>1, RwLockInvariant, PTL

(* For any number of threads, no wake-up is lost: while the lock is free    *)
(* and a thread sleeps on it, another one is inside an operation that leads *)
(* to its waking.                                                           *)
THEOREM RwLockNobodyForgotten == Spin => (Spec => []NobodyForgotten)
<1>1. RwInv /\ AttendInv => NobodyForgotten
  <2> SUFFICES ASSUME RwInv, AttendInv, nactive = 0,
                      waiting[shared] # {} \/ waiting[exclusive] # {}
               PROVE  \E t \in Thread : at[t] \notin {"idle", "blocked"}
    BY DEF NobodyForgotten
  <2>1. CASE waiting[exclusive] # {}
    BY <2>1 DEF AttendInv, WritersAttended, Attends
  <2>2. CASE waiting[shared] # {} /\ waiting[exclusive] = {}
    <3>1. PICK w \in Thread : Around(w)
      BY <2>2, Zenon DEF AttendInv, ReadersAttended
    <3>2. at[w] # "blocked"
      BY <2>2, <3>1, RwLockAssumption DEF Around, Writes, RwInv, RwTypeOK
    <3> QED  BY <3>1, <3>2, Zenon DEF Around
  <2> QED  BY <2>1, <2>2, Zenon
<1> QED  BY <1>1, RwLockInvariant, PTL
=============================================================================
