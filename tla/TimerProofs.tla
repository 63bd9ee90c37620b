---------------------------- MODULE TimerProofs ----------------------------
(***************************************************************************)
(* The timer lists of Timer are sound and implement an alarm clock for     *)
(* every set of timers, delays and lateness of the tick interrupt, as long *)
(* as no timeout lies beyond the wrap of the tick counter.                 *)
(***************************************************************************)
EXTENDS Timer, FiniteSetTheorems, TLAPS

(* A set of natural numbers that is not empty has a least one. *)
LEMMA LeastNumber ==
  ASSUME NEW S, S \subseteq Nat, S # {}
  PROVE  \E m \in S : \A k \in S : m <= k
<1>1. \E m \in S : \A k \in S : ~ (<<k, m>> \in OpToRel(<, Nat))
  BY NatLessThanWellFounded, WFMin
<1>2. OpToRel(<, Nat) = {ss \in Nat \X Nat : ss[1] < ss[2]}
  BY Zenon DEF OpToRel
<1>3. \A i, j \in Nat : i < j => <<i, j>> \in {ss \in Nat \X Nat : ss[1] < ss[2]}
  BY SMT
<1>4. \A i, j \in Nat : i < j => <<i, j>> \in OpToRel(<, Nat)
  BY <1>2, <1>3, Zenon
<1>5. \A i, j \in Nat : ~(j < i) => i <= j
  BY SMT
<1> QED  BY <1>1, <1>4, <1>5, Zenon

-----------------------------------------------------------------------------
(***************************************************************************)
(* The linked list: s is the sequence of its n timers, the head comes      *)
(* before the first and after the last.                                    *)
(***************************************************************************)
NodeAt(n, s, i) == IF i \in 1..n THEN s[i] ELSE Head

Links == [Node -> [next : Node, prev : Node]]

(* The links l hold the timers s behind Head and nothing else. *)
Chain(l, n, s) ==
  /\ l \in Links
  /\ s \in [1..n -> Timer]
  /\ \A i, j \in 1..n : s[i] = s[j] => i = j
  /\ \A i \in 0..n : /\ l[NodeAt(n, s, i)].next = NodeAt(n, s, i + 1)
                     /\ l[NodeAt(n, s, i + 1)].prev = NodeAt(n, s, i)
  /\ \A m \in Node \ {Head} : (\A i \in 1..n : m # s[i]) => l[m] = Alone(m)

(* No node but the head comes by twice. *)
LEMMA NodeAtApart ==
  ASSUME NEW n \in Nat, NEW s \in [1..n -> Timer],
         \A i, j \in 1..n : s[i] = s[j] => i = j
  PROVE  /\ \A i \in Int : NodeAt(n, s, i) \in Timer \cup {Head}
         /\ \A i \in 1..n : NodeAt(n, s, i) = s[i] /\ NodeAt(n, s, i) # Head
         /\ NodeAt(n, s, 0) = Head /\ NodeAt(n, s, n + 1) = Head
         /\ \A i, j \in 0..n : NodeAt(n, s, i) = NodeAt(n, s, j) => i = j
         /\ \A i, j \in 1..(n + 1) : NodeAt(n, s, i) = NodeAt(n, s, j) => i = j
BY TimerAssumption DEF NodeAt

(* Division with remainder has one result. *)
LEMMA OneRemainder ==
  ASSUME NEW m \in Nat, NEW v \in Int, NEW w \in Int,
         NEW u \in 0..(m - 1), NEW x \in 0..(m - 1), m * v + u = m * w + x
  PROVE  u = x
<1>1. m * (v - w) = m * v - m * w
  BY SMT
<1> DEFINE d == v - w
<1>2. d \in Int /\ m * d = x - u /\ m > 0
  BY <1>1, SMT
<1> HIDE DEF d
<1>3. d >= 1 => m * d >= m
  BY <1>2, SMT
<1>4. d <= -1 => m * d <= -m
  BY <1>2, SMT
<1>5. d = 0
  BY <1>2, <1>3, <1>4, SMT
<1> QED  BY <1>2, <1>5, SMT

(* A sum of two numbers below the modulus wraps at most once. *)
LEMMA WrapsOnce ==
  ASSUME NEW m \in Nat, m > 0, NEW a \in Nat, a < 2 * m
  PROVE  a % m = IF a < m THEN a ELSE a - m
<1>1. CASE a < m
  BY <1>1, SMT
<1>2. CASE a >= m
  <2>1. a = m * (a \div m) + (a % m) /\ a % m \in 0..(m - 1) /\ a \div m \in Int
    BY SMT
  <2> DEFINE q == a \div m  r == a % m  x == a - m
  <2>2. a = m * q + r /\ r \in 0..(m - 1) /\ q \in Int
    BY <2>1
  <2>3. x \in 0..(m - 1) /\ m * 1 + x = a
    BY <1>2, SMT
  <2>4. m * q + r = m * 1 + x /\ 1 \in Int
    BY <2>2, <2>3
  <2> HIDE DEF q, r, x
  <2>5. r = x
    BY <2>2, <2>3, <2>4, OneRemainder, Zenon
  <2> QED  BY <1>2, <2>5 DEF r, x
<1> QED  BY <1>1, <1>2

(* Once around a list with n timers are n + 1 steps of 0..n. *)
LEMMA StepAround ==
  ASSUME NEW n \in Nat, NEW k \in Nat, k # 0
  PROVE  /\ (k - 1) % (n + 1) \in 0..n
         /\ k % (n + 1) = IF (k - 1) % (n + 1) = n THEN 0 ELSE ((k - 1) % (n + 1)) + 1
<1> DEFINE m == n + 1  j == k - 1
<1>1. m \in Nat /\ m > 0 /\ j \in Nat /\ k = j + 1 /\ n = m - 1
  BY SMT
<1> HIDE DEF m, j
<1>2. /\ j = m * (j \div m) + (j % m) /\ j % m \in 0..(m - 1) /\ j \div m \in Nat
      /\ k = m * (k \div m) + (k % m) /\ k % m \in 0..(m - 1) /\ k \div m \in Nat
  BY <1>1, SMT
<1> DEFINE r == j % m  q == j \div m  u == k % m  v == k \div m
<1>3. /\ j = m * q + r /\ r \in 0..(m - 1) /\ q \in Nat
      /\ k = m * v + u /\ u \in 0..(m - 1) /\ v \in Nat
  BY <1>2
<1> HIDE DEF r, q, u, v
<1>4. CASE r = m - 1
  <2> PICK w \in Int : w = q + 1
    BY <1>3
  <2>1. m * v + u = m * w + 0 /\ 0 \in 0..(m - 1) /\ v \in Int
    BY <1>1, <1>3, <1>4, SMT
  <2>2. u = 0
    BY <2>1, <1>1, <1>3, OneRemainder, Zenon
  <2> QED  BY <1>1, <1>3, <1>4, <2>2 DEF r, u, m, j
<1>5. CASE r # m - 1
  <2>1. m * v + u = m * q + (r + 1) /\ r + 1 \in 0..(m - 1) /\ v \in Int /\ q \in Int
    BY <1>1, <1>3, <1>5, SMT
  <2>2. u = r + 1
    BY <2>1, <1>1, <1>3, OneRemainder, Zenon
  <2> QED  BY <1>1, <1>3, <1>5, <2>2 DEF r, u, m, j
<1> QED  BY <1>4, <1>5

(* The n timers of s are all different. *)
Apart(n, s) == s \in [1..n -> Timer] /\ \A i, j \in 1..n : s[i] = s[j] => i = j

(* There are enough nodes for a loop over a list to come back to its head. *)
LEMMA NodeCount ==
  ASSUME NEW n \in Nat, NEW s, Apart(n, s)
  PROVE  Cardinality(Node) \in Nat /\ n + 1 <= Cardinality(Node)
<1>0. s \in [1..n -> Timer] /\ \A i, j \in 1..n : s[i] = s[j] => i = j
  BY DEF Apart
<1>1. IsFiniteSet(Timer) /\ Cardinality(Timer) \in Nat
  BY TimerAssumption, FS_CardinalityType
<1>2. n <= Cardinality(Timer)
  <2>1. s \in Injection(1..n, Timer)
    BY <1>0 DEF Injection, IsInjective
  <2>2. Cardinality(1..n) <= Cardinality(Timer)
    BY <1>1, <2>1, FS_Injection
  <2>3. Cardinality(1..n) = n
    BY FS_Interval
  <2> QED  BY <2>2, <2>3
<1>3. /\ IsFiniteSet(Timer \cup {Head})
      /\ Cardinality(Timer \cup {Head}) = Cardinality(Timer) + 1
  BY <1>1, TimerAssumption, FS_AddElement
<1>4. Cardinality((Timer \cup {Head}) \cup {Overflow}) = Cardinality(Timer) + 2
  <2> DEFINE H == Timer \cup {Head}
  <2>1. Overflow \notin H
    BY TimerAssumption
  <2>2. IsFiniteSet(H) /\ Cardinality(H) = Cardinality(Timer) + 1
    BY <1>3
  <2> HIDE DEF H
  <2>3. Cardinality(H \cup {Overflow}) = Cardinality(H) + 1
    BY <2>1, <2>2, FS_AddElement
  <2>4. Cardinality(H \cup {Overflow}) = Cardinality(Timer) + 2
    BY <1>1, <2>2, <2>3
  <2> QED  BY <2>4 DEF H
<1>5. Node = (Timer \cup {Head}) \cup {Overflow}
  BY DEF Node
<1> QED  BY <1>1, <1>2, <1>4, <1>5

(* uk_list_for_each_entry comes by the timers of the list in their order    *)
(* and then by the head.                                                    *)
LEMMA WalkChain ==
  ASSUME NEW l, NEW n \in Nat, NEW s, Chain(l, n, s)
  PROVE  \A k \in 0..(n + 1) : Walk(l, Head)[k] = NodeAt(n, s, k)
<1>0. s \in [1..n -> Timer] /\ \A i, j \in 1..n : s[i] = s[j] => i = j
  BY DEF Chain
<1> PICK c \in Nat : c = Cardinality(Node) /\ n + 1 <= c
  <2>1. Apart(n, s)
    BY <1>0, Zenon DEF Apart
  <2> QED  BY <2>1, NodeCount
<1> DEFINE W == Walk(l, Head)
           F == [k \in 0..c |-> NodeAt(n, s, k % (n + 1))]
<1>1. \A k \in 1..c : F[k] = l[F[k - 1]].next
  <2> TAKE k \in 1..c
  <2>1. k - 1 \in 0..c /\ k \in 0..c /\ k \in Nat /\ k # 0
    OBVIOUS
  <2> PICK j, i : j = (k - 1) % (n + 1) /\ i = k % (n + 1)
    OBVIOUS
  <2>2. j \in 0..n /\ i = IF j = n THEN 0 ELSE j + 1
    BY <2>1, StepAround
  <2>3. F[k - 1] = NodeAt(n, s, j) /\ F[k] = NodeAt(n, s, i)
    BY <2>1
  <2>4. l[NodeAt(n, s, j)].next = NodeAt(n, s, j + 1)
    BY <2>2 DEF Chain
  <2>5. NodeAt(n, s, j + 1) = NodeAt(n, s, i)
    BY <2>2 DEF NodeAt
  <2> QED  BY <2>3, <2>4, <2>5
<1>2. F[0] = Head
  <2>1. 0 % (n + 1) = 0
    BY SMT
  <2> QED  BY <2>1 DEF NodeAt
<1>3. F = [k \in 0..c |-> IF k = 0 THEN Head ELSE l[F[k - 1]].next]
  <2>0. \A k \in 0..c : k = 0 \/ k \in 1..c
    OBVIOUS
  <2>1. \A k \in 0..c : F[k] = IF k = 0 THEN Head ELSE l[F[k - 1]].next
    <3> HIDE DEF F
    <3> QED  BY <1>1, <1>2, <2>0
  <2>2. F = [k \in 0..c |-> F[k]]
    OBVIOUS
  <2> HIDE DEF F
  <2> QED  BY <2>1, <2>2
<1>4. W = [k \in 0..c |-> IF k = 0 THEN Head ELSE l[W[k - 1]].next]
  <2>1. W = CHOOSE g : g = [k \in 0..c |-> IF k = 0 THEN Head ELSE l[g[k - 1]].next]
    BY DEF Walk
  <2> HIDE DEF W, F
  <2> QED  BY <1>3, <2>1
<1>5. W[0] = Head /\ \A k \in 1..c : W[k] = l[W[k - 1]].next
  <2> HIDE DEF W
  <2> QED  BY <1>4
<1>6. \A k \in 0..(n + 1) : W[k] = NodeAt(n, s, k)
  <2> DEFINE T == {k \in 0..(n + 1) : W[k] # NodeAt(n, s, k)}
  <2> SUFFICES ASSUME T # {} PROVE FALSE
    OBVIOUS
  <2>1. T \subseteq Nat
    OBVIOUS
  <2> PICK m \in T : \A k \in T : m <= k
    <3> HIDE DEF T
    <3> QED  BY <2>1, LeastNumber
  <2>2. m # 0
    BY <1>5 DEF NodeAt
  <2>3. m - 1 \in 0..n /\ m \in 1..c /\ m - 1 \in 0..(n + 1)
    BY <2>2
  <2>4. W[m - 1] = NodeAt(n, s, m - 1)
    BY <2>3
  <2>5. l[NodeAt(n, s, m - 1)].next = NodeAt(n, s, (m - 1) + 1)
    BY <2>3 DEF Chain
  <2>6. (m - 1) + 1 = m
    BY <2>3
  <2>7. W[m] = l[W[m - 1]].next
    BY <1>5, <2>3
  <2> QED  BY <2>4, <2>5, <2>6, <2>7
<1> QED  BY <1>6

(* The loop of tn_timer_add stops at the first timer due after `when', or   *)
(* at the head if there is none.                                            *)
LEMMA StopPlace ==
  ASSUME NEW n \in Nat, NEW s, Chain(link, n, s), NEW when \in Int,
         timeout \in [Timer -> Tick]
  PROVE  \E k \in 1..(n + 1) :
           /\ StopAt(Head, when) = NodeAt(n, s, k)
           /\ \A i \in 1..(k - 1) : timeout[s[i]] <= when
           /\ k <= n => timeout[s[k]] > when
<1>0. s \in [1..n -> Timer] /\ \A i, j \in 1..n : s[i] = s[j] => i = j
  BY DEF Chain
<1> PICK c \in Nat : c = Cardinality(Node) /\ n + 1 <= c
  <2>1. Apart(n, s)
    BY <1>0, Zenon DEF Apart
  <2> QED  BY <2>1, NodeCount
<1> DEFINE W == Walk(link, Head)
           T == {k \in 1..c : W[k] \notin Timer \/ timeout[W[k]] > when}
<1>1. \A k \in 0..(n + 1) : W[k] = NodeAt(n, s, k)
  BY WalkChain
<1> HIDE DEF W
<1>2. n + 1 \in T
  BY <1>1, TimerAssumption DEF NodeAt
<1>3. T \subseteq Nat /\ T # {}
  BY <1>2
<1>4. StopAt(Head, when) = W[CHOOSE k \in T : \A j \in T : k <= j]
  <2>1. ~(T = {})
    BY <1>3
  <2> QED  BY <2>1 DEF StopAt, W
<1> HIDE DEF T
<1>5. \E k \in T : \A j \in T : k <= j
  BY <1>3, LeastNumber
<1> PICK k : k = CHOOSE i \in T : \A j \in T : i <= j
  OBVIOUS
<1>6. k \in T /\ \A j \in T : k <= j
  BY <1>5
<1>7. k \in 1..(n + 1)
  BY <1>2, <1>6 DEF T
<1>8. \A i \in 1..(k - 1) : timeout[s[i]] <= when
  <2> TAKE i \in 1..(k - 1)
  <2>1. i \in 1..c /\ i \in 1..n /\ i \in 0..(n + 1) /\ i < k /\ k \in Int
    BY <1>7
  <2>2. i \notin T
    BY <1>6, <2>1
  <2>3. W[i] = s[i] /\ s[i] \in Timer /\ timeout[s[i]] \in Tick
    BY <1>0, <1>1, <2>1 DEF NodeAt
  <2>4. ~(timeout[s[i]] > when)
    BY <2>1, <2>2, <2>3 DEF T
  <2> QED  BY <2>3, <2>4, TimerAssumption DEF Tick
<1>9. k <= n => timeout[s[k]] > when
  <2> HAVE k <= n
  <2>1. k \in 1..n /\ k \in 0..(n + 1)
    BY <1>7
  <2>2. W[k] = s[k] /\ s[k] \in Timer
    BY <1>0, <1>1, <2>1 DEF NodeAt
  <2> QED  BY <1>6, <2>2 DEF T
<1>10. StopAt(Head, when) = NodeAt(n, s, k)
  <2>1. k \in 0..(n + 1)
    BY <1>7
  <2> QED  BY <1>1, <1>4, <2>1
<1> QED  BY <1>7, <1>8, <1>9, <1>10

-----------------------------------------------------------------------------
(***************************************************************************)
(* The list functions of uk/list.h on a chain.                             *)
(***************************************************************************)
(* __uk_list_add changes four links, *)
Linked(b, l, t, p, x) ==
  /\ b \in Links
  /\ \A m \in Node :
       /\ b[m].next = IF m = t THEN x ELSE IF m = p THEN t ELSE l[m].next
       /\ b[m].prev = IF m = t THEN p ELSE IF m = x THEN t ELSE l[m].prev

LEMMA ListAddLinks ==
  ASSUME NEW l \in Links, NEW t \in Node, NEW p \in Node, NEW x \in Node, t # p, t # x
  PROVE  Linked(ListAdd(l, t, p, x), l, t, p, x)
BY DEF Linked, ListAdd, Links

(* uk_list_del_init of a linked entry too, *)
Unlinked(b, l, t, p, x) ==
  /\ b \in Links
  /\ \A m \in Node :
       /\ b[m].next = IF m = t THEN t ELSE IF m = p THEN x ELSE l[m].next
       /\ b[m].prev = IF m = t THEN t ELSE IF m = x THEN p ELSE l[m].prev

LEMMA ListDelLinks ==
  ASSUME NEW l \in Links, NEW t \in Node, l[t].next # t, l[t].prev # t
  PROVE  Unlinked(ListDelInit(l, t), l, t, l[t].prev, l[t].next)
BY DEF Unlinked, ListDelInit, ListDel, Alone, Links

(* and of one that is alone none. *)
LEMMA ListDelAlone ==
  ASSUME NEW l \in Links, NEW t \in Node, l[t] = Alone(t)
  PROVE  ListDelInit(l, t) = l
<1>1. l[t].next = t /\ l[t].prev = t
  BY DEF Alone
<1>2. \A m \in Node : ListDelInit(l, t)[m] = l[m]
  BY <1>1 DEF ListDelInit, ListDel, Alone, Links
<1>3. ListDelInit(l, t) = [m \in Node |-> ListDelInit(l, t)[m]]
  BY DEF ListDelInit, ListDel, Links
<1>4. l = [m \in Node |-> l[m]]
  BY DEF Links
<1> QED  BY <1>2, <1>3, <1>4, Zenon

(* The sequence s with t at the place k, and without the k-th. *)
Ins(n, s, k, t) ==
  [i \in 1..(n + 1) |-> IF i < k THEN s[i] ELSE IF i = k THEN t ELSE s[i - 1]]
Del(n, s, k) == [i \in 1..(n - 1) |-> IF i < k THEN s[i] ELSE s[i + 1]]

LEMMA NodeAtIns ==
  ASSUME NEW n \in Nat, NEW s, NEW t, NEW k \in 1..(n + 1)
  PROVE  \A i \in 0..(n + 2) : NodeAt(n + 1, Ins(n, s, k, t), i) =
           IF i < k THEN NodeAt(n, s, i) ELSE IF i = k THEN t ELSE NodeAt(n, s, i - 1)
BY DEF NodeAt, Ins

LEMMA NodeAtDel ==
  ASSUME NEW n \in Nat, NEW s, NEW k \in 1..n
  PROVE  \A i \in 0..n : NodeAt(n - 1, Del(n, s, k), i) =
           IF i < k THEN NodeAt(n, s, i) ELSE NodeAt(n, s, i + 1)
BY DEF NodeAt, Del

(* A new timer between two neighbours of the chain makes a chain. *)
LEMMA ChainAdd ==
  ASSUME NEW l, NEW n \in Nat, NEW s, Chain(l, n, s), NEW k \in 1..(n + 1),
         NEW t \in Timer, \A i \in 1..n : t # s[i]
  PROVE  Chain(ListAdd(l, t, NodeAt(n, s, k - 1), NodeAt(n, s, k)),
               n + 1, Ins(n, s, k, t))
<1> PICK p, x, b, u : /\ p = NodeAt(n, s, k - 1) /\ x = NodeAt(n, s, k)
                      /\ b = ListAdd(l, t, p, x) /\ u = Ins(n, s, k, t)
  OBVIOUS
<1>0. /\ l \in Links /\ s \in [1..n -> Timer] /\ \A i, j \in 1..n : s[i] = s[j] => i = j
      /\ \A i \in 0..n : /\ l[NodeAt(n, s, i)].next = NodeAt(n, s, i + 1)
                         /\ l[NodeAt(n, s, i + 1)].prev = NodeAt(n, s, i)
      /\ \A m \in Node \ {Head} : (\A i \in 1..n : m # s[i]) => l[m] = Alone(m)
  BY DEF Chain
<1>1. /\ \A i \in Int : NodeAt(n, s, i) \in Node /\ NodeAt(n, s, i) # t
      /\ \A i, j \in 0..n : NodeAt(n, s, i) = NodeAt(n, s, j) => i = j
      /\ \A i, j \in 1..(n + 1) : NodeAt(n, s, i) = NodeAt(n, s, j) => i = j
  <2>1. \A i \in Int : NodeAt(n, s, i) \in Node /\ NodeAt(n, s, i) # t
    BY <1>0, TimerAssumption DEF NodeAt, Node
  <2> QED  BY <1>0, <2>1, NodeAtApart
<1>2. t \in Node /\ p \in Node /\ x \in Node /\ t # p /\ t # x
  BY <1>1 DEF Node
<1>3. /\ b \in Links
      /\ \A m \in Node :
           /\ b[m].next = IF m = t THEN x ELSE IF m = p THEN t ELSE l[m].next
           /\ b[m].prev = IF m = t THEN p ELSE IF m = x THEN t ELSE l[m].prev
  <2>1. Linked(b, l, t, p, x)
    BY <1>0, <1>2, ListAddLinks, Zenon
  <2> QED  BY <2>1 DEF Linked
<1>4. u \in [1..(n + 1) -> Timer] /\ \A i, j \in 1..(n + 1) : u[i] = u[j] => i = j
  BY <1>0 DEF Ins
<1>5. \A i \in 0..(n + 2) : NodeAt(n + 1, u, i) =
        IF i < k THEN NodeAt(n, s, i) ELSE IF i = k THEN t ELSE NodeAt(n, s, i - 1)
  BY NodeAtIns
<1>6. \A i \in 0..(n + 1) : /\ b[NodeAt(n + 1, u, i)].next = NodeAt(n + 1, u, i + 1)
                            /\ b[NodeAt(n + 1, u, i + 1)].prev = NodeAt(n + 1, u, i)
  <2> TAKE i \in 0..(n + 1)
  <2>0. i \in 0..(n + 2) /\ i + 1 \in 0..(n + 2) /\ i \in Int /\ i - 1 \in Int /\ i + 1 \in Int
    OBVIOUS
  <2>1. CASE i < k - 1
    <3>1. i \in 0..n /\ i # k - 1 /\ i + 1 # k /\ k - 1 \in 0..n /\ i + 1 \in 1..(n + 1)
      BY <2>1
    <3>2. NodeAt(n + 1, u, i) = NodeAt(n, s, i) /\ NodeAt(n + 1, u, i + 1) = NodeAt(n, s, i + 1)
      BY <1>5, <2>0, <2>1
    <3>3. NodeAt(n, s, i) # p /\ NodeAt(n, s, i + 1) # x
      BY <1>1, <3>1
    <3>4. /\ l[NodeAt(n, s, i)].next = NodeAt(n, s, i + 1)
          /\ l[NodeAt(n, s, i + 1)].prev = NodeAt(n, s, i)
          /\ NodeAt(n, s, i) \in Node \ {t} /\ NodeAt(n, s, i + 1) \in Node \ {t}
      BY <1>0, <1>1, <2>0, <3>1
    <3> QED  BY <1>3, <3>2, <3>3, <3>4
  <2>2. CASE i = k - 1
    <3>1. NodeAt(n + 1, u, i) = p /\ NodeAt(n + 1, u, i + 1) = t
      BY <1>5, <2>0, <2>2
    <3> QED  BY <1>2, <1>3, <3>1
  <2>3. CASE i = k
    <3>1. NodeAt(n + 1, u, i) = t /\ NodeAt(n + 1, u, i + 1) = x
      BY <1>5, <2>0, <2>3
    <3> QED  BY <1>2, <1>3, <3>1
  <2>4. CASE i > k
    <3> PICK j \in 0..n : j = i - 1 /\ j >= k
      BY <2>4
    <3>1. j # k - 1 /\ j + 1 # k /\ k - 1 \in 0..n /\ j + 1 \in 1..(n + 1) /\ j + 1 = i
      BY <2>4
    <3>2. NodeAt(n + 1, u, i) = NodeAt(n, s, j) /\ NodeAt(n + 1, u, i + 1) = NodeAt(n, s, j + 1)
      BY <1>5, <2>0, <2>4, <3>1
    <3>3. NodeAt(n, s, j) # p /\ NodeAt(n, s, j + 1) # x
      BY <1>1, <3>1
    <3>4. /\ l[NodeAt(n, s, j)].next = NodeAt(n, s, j + 1)
          /\ l[NodeAt(n, s, j + 1)].prev = NodeAt(n, s, j)
          /\ NodeAt(n, s, j) \in Node \ {t} /\ NodeAt(n, s, j + 1) \in Node \ {t}
      BY <1>0, <1>1
    <3> QED  BY <1>3, <3>2, <3>3, <3>4
  <2> QED  BY <2>1, <2>2, <2>3, <2>4
<1>7. \A m \in Node \ {Head} : (\A i \in 1..(n + 1) : m # u[i]) => b[m] = Alone(m)
  <2> SUFFICES ASSUME NEW m \in Node \ {Head}, \A i \in 1..(n + 1) : m # u[i]
               PROVE  b[m] = Alone(m)
    OBVIOUS
  <2>1. u[k] = t /\ \A i \in 1..n : \E j \in 1..(n + 1) : u[j] = s[i]
    <3>1. \A i \in 1..n : IF i < k THEN u[i] = s[i] ELSE u[i + 1] = s[i]
      BY DEF Ins
    <3>2. u[k] = t
      BY DEF Ins
    <3> QED  BY <3>1, <3>2
  <2>2. m # t /\ \A i \in 1..n : m # s[i]
    BY <2>1
  <2>3. l[m] = Alone(m) /\ m # p /\ m # x
    BY <1>0, <2>2 DEF NodeAt
  <2>4. b[m].next = l[m].next /\ b[m].prev = l[m].prev
    BY <1>3, <2>2, <2>3
  <2> QED  BY <1>0, <1>3, <2>3, <2>4 DEF Links, Alone
<1>8. Chain(b, n + 1, u)
  BY <1>3, <1>4, <1>6, <1>7 DEF Chain
<1> QED  BY <1>8

LEMMA DelApart ==
  ASSUME NEW n \in Nat, NEW k \in 1..n, NEW s, Apart(n, s)
  PROVE  Apart(n - 1, Del(n, s, k))
BY DEF Del, Apart

(* Without its k-th timer the chain is a chain. *)
LEMMA ChainDel ==
  ASSUME NEW l, NEW n \in Nat, NEW s, Chain(l, n, s), NEW k \in 1..n
  PROVE  Chain(ListDelInit(l, s[k]), n - 1, Del(n, s, k))
<1> PICK t, p, x, b, u : /\ t = s[k] /\ p = l[t].prev /\ x = l[t].next
                         /\ b = ListDelInit(l, t) /\ u = Del(n, s, k)
  OBVIOUS
<1>0. /\ l \in Links /\ s \in [1..n -> Timer] /\ \A i, j \in 1..n : s[i] = s[j] => i = j
      /\ \A i \in 0..n : /\ l[NodeAt(n, s, i)].next = NodeAt(n, s, i + 1)
                         /\ l[NodeAt(n, s, i + 1)].prev = NodeAt(n, s, i)
      /\ \A m \in Node \ {Head} : (\A i \in 1..n : m # s[i]) => l[m] = Alone(m)
  BY DEF Chain
<1>1. /\ \A i \in Int : NodeAt(n, s, i) \in Node
      /\ \A i, j \in 0..n : NodeAt(n, s, i) = NodeAt(n, s, j) => i = j
      /\ \A i, j \in 1..(n + 1) : NodeAt(n, s, i) = NodeAt(n, s, j) => i = j
      /\ NodeAt(n, s, k) = t
  <2>1. \A i \in Int : NodeAt(n, s, i) \in Node
    BY <1>0 DEF NodeAt, Node
  <2>2. NodeAt(n, s, k) = t
    BY DEF NodeAt
  <2> QED  BY <1>0, <2>1, <2>2, NodeAtApart
<1>2. /\ t \in Node /\ p = NodeAt(n, s, k - 1) /\ x = NodeAt(n, s, k + 1)
      /\ x # t /\ p # t
  <2>1. /\ k \in 0..n /\ k - 1 \in 0..n /\ (k - 1) + 1 = k /\ k \in Int /\ k # k - 1
        /\ k \in 1..(n + 1) /\ k + 1 \in 1..(n + 1) /\ k # k + 1
    OBVIOUS
  <2>2. p = NodeAt(n, s, k - 1) /\ x = NodeAt(n, s, k + 1)
    BY <1>0, <1>1, <2>1
  <2> QED  BY <1>1, <2>1, <2>2
<1>3. /\ b \in Links
      /\ \A m \in Node :
           /\ b[m].next = IF m = t THEN t ELSE IF m = p THEN x ELSE l[m].next
           /\ b[m].prev = IF m = t THEN t ELSE IF m = x THEN p ELSE l[m].prev
  <2>1. Unlinked(b, l, t, p, x)
    BY <1>0, <1>2, ListDelLinks, Zenon
  <2> QED  BY <2>1 DEF Unlinked
<1>4. u \in [1..(n - 1) -> Timer] /\ \A i, j \in 1..(n - 1) : u[i] = u[j] => i = j
  <2>1. Apart(n, s)
    BY <1>0, Zenon DEF Apart
  <2>2. Apart(n - 1, Del(n, s, k))
    BY <2>1, DelApart, Zenon
  <2> QED  BY <2>2, Zenon DEF Apart
<1>5. \A i \in 0..n : NodeAt(n - 1, u, i) =
        IF i < k THEN NodeAt(n, s, i) ELSE NodeAt(n, s, i + 1)
  BY NodeAtDel
<1>6. \A i \in 0..(n - 1) : /\ b[NodeAt(n - 1, u, i)].next = NodeAt(n - 1, u, i + 1)
                            /\ b[NodeAt(n - 1, u, i + 1)].prev = NodeAt(n - 1, u, i)
  <2> TAKE i \in 0..(n - 1)
  <2>0. /\ i \in 0..n /\ i + 1 \in 0..n /\ i \in Int /\ i + 1 \in Int /\ i + 2 \in Int
        /\ (i + 1) + 1 = i + 2 /\ k \in Int /\ k - 1 \in 0..n /\ k \in 0..n
        /\ k \in 1..(n + 1) /\ k + 1 \in 1..(n + 1)
        /\ i + 1 \in 1..(n + 1) /\ i + 2 \in 1..(n + 1)
    OBVIOUS
  <2>1. CASE i < k - 1
    <3>1. i # k - 1 /\ i # k /\ i + 1 # k /\ i + 1 # k + 1
      BY <2>1
    <3>2. NodeAt(n - 1, u, i) = NodeAt(n, s, i) /\ NodeAt(n - 1, u, i + 1) = NodeAt(n, s, i + 1)
      BY <1>5, <2>0, <2>1
    <3>3. /\ NodeAt(n, s, i) # p /\ NodeAt(n, s, i) # t
          /\ NodeAt(n, s, i + 1) # x /\ NodeAt(n, s, i + 1) # t
      BY <1>1, <1>2, <2>0, <3>1
    <3>4. /\ l[NodeAt(n, s, i)].next = NodeAt(n, s, i + 1)
          /\ l[NodeAt(n, s, i + 1)].prev = NodeAt(n, s, i)
          /\ NodeAt(n, s, i) \in Node /\ NodeAt(n, s, i + 1) \in Node
      BY <1>0, <1>1, <2>0
    <3> QED  BY <1>3, <3>2, <3>3, <3>4
  <2>2. CASE i = k - 1
    <3>1. NodeAt(n - 1, u, i) = p
      BY <1>2, <1>5, <2>0, <2>2
    <3>2. NodeAt(n - 1, u, i + 1) = x
      <4>1. i + 1 = k
        BY <2>2
      <4> QED  BY <1>2, <1>5, <2>0, <4>1
    <3>3. p \in Node /\ x \in Node
      BY <1>1, <1>2
    <3> QED  BY <1>2, <1>3, <3>1, <3>2, <3>3
  <2>3. CASE i >= k
    <3>1. i + 1 # k - 1 /\ i + 1 # k /\ i + 2 # k /\ i + 2 # k + 1
      BY <2>3
    <3>2. NodeAt(n - 1, u, i) = NodeAt(n, s, i + 1)
          /\ NodeAt(n - 1, u, i + 1) = NodeAt(n, s, i + 2)
      BY <1>5, <2>0, <2>3
    <3>3. /\ NodeAt(n, s, i + 1) # p /\ NodeAt(n, s, i + 1) # t
          /\ NodeAt(n, s, i + 2) # x /\ NodeAt(n, s, i + 2) # t
      BY <1>1, <1>2, <2>0, <3>1
    <3>4. /\ l[NodeAt(n, s, i + 1)].next = NodeAt(n, s, i + 2)
          /\ l[NodeAt(n, s, i + 2)].prev = NodeAt(n, s, i + 1)
          /\ NodeAt(n, s, i + 1) \in Node /\ NodeAt(n, s, i + 2) \in Node
      BY <1>0, <1>1, <2>0
    <3> QED  BY <1>3, <3>2, <3>3, <3>4
  <2>4. i < k - 1 \/ i = k - 1 \/ i >= k
    OBVIOUS
  <2> QED  BY <2>1, <2>2, <2>3, <2>4
<1>7. \A m \in Node \ {Head} : (\A i \in 1..(n - 1) : m # u[i]) => b[m] = Alone(m)
  <2> SUFFICES ASSUME NEW m \in Node \ {Head}, \A i \in 1..(n - 1) : m # u[i]
               PROVE  b[m] = Alone(m)
    OBVIOUS
  <2>1. CASE m = t
    <3>1. b[m].next = m /\ b[m].prev = m
      BY <1>3, <2>1
    <3> QED  BY <1>3, <3>1 DEF Links, Alone
  <2>2. CASE m # t
    <3>1. \A i \in 1..n : i # k => \E j \in 1..(n - 1) : u[j] = s[i]
      <4>1. \A i \in 1..n : (i < k => u[i] = s[i]) /\ (i > k => u[i - 1] = s[i])
        BY DEF Del
      <4> QED  BY <4>1
    <3>2. \A i \in 1..n : m # s[i]
      BY <2>2, <3>1
    <3>3. l[m] = Alone(m) /\ m # p /\ m # x
      BY <1>0, <1>2, <3>2 DEF NodeAt
    <3>4. b[m].next = l[m].next /\ b[m].prev = l[m].prev
      BY <1>3, <2>2, <3>3
    <3> QED  BY <1>0, <1>3, <3>3, <3>4 DEF Links, Alone
  <2> QED  BY <2>1, <2>2
<1>8. Chain(b, n - 1, u)
  BY <1>3, <1>4, <1>6, <1>7 DEF Chain
<1> QED  BY <1>8

-----------------------------------------------------------------------------
(***************************************************************************)
(* Lists in order of timeout_tick.                                         *)
(***************************************************************************)
Sorted(n, s, w) == \A i, j \in 1..n : i <= j => w[s[i]] <= w[s[j]]

(* The links l hold timers behind Head in the order of their times w. *)
ListOK(l, w) == \E n \in Nat : \E s : Chain(l, n, s) /\ Sorted(n, s, w)

(* The armed timers are those of the list. *)
ArmedAre(l, n, s) == \A t \in Timer : l[t].next # t <=> \E i \in 1..n : t = s[i]

LEMMA ArmedInChain ==
  ASSUME NEW l, NEW n \in Nat, NEW s, Chain(l, n, s)
  PROVE  ArmedAre(l, n, s)
<1> SUFFICES ASSUME NEW t \in Timer
             PROVE  l[t].next # t <=> \E i \in 1..n : t = s[i]
  BY DEF ArmedAre
<1>0. /\ s \in [1..n -> Timer] /\ \A i, j \in 1..n : s[i] = s[j] => i = j
      /\ \A i \in 0..n : l[NodeAt(n, s, i)].next = NodeAt(n, s, i + 1)
      /\ \A m \in Node \ {Head} : (\A i \in 1..n : m # s[i]) => l[m] = Alone(m)
  BY DEF Chain
<1>1. ASSUME NEW i \in 1..n, t = s[i] PROVE l[t].next # t
  <2>1. i \in 0..n /\ i \in 1..(n + 1) /\ i + 1 \in 1..(n + 1) /\ i # i + 1
    OBVIOUS
  <2>2. NodeAt(n, s, i) = t
    BY <1>1 DEF NodeAt
  <2>3. NodeAt(n, s, i) # NodeAt(n, s, i + 1)
    BY <1>0, <2>1, NodeAtApart
  <2> QED  BY <1>0, <2>1, <2>2, <2>3
<1>2. (\A i \in 1..n : t # s[i]) => l[t].next = t
  <2>1. t \in Node \ {Head}
    BY TimerAssumption DEF Node
  <2>2. (\A i \in 1..n : t # s[i]) => l[t] = Alone(t)
    BY <1>0, <2>1
  <2>3. Alone(t).next = t
    BY DEF Alone
  <2> QED  BY <2>2, <2>3
<1> QED  BY <1>1, <1>2

(* The first entry of a list that is not empty is a timer that is due no    *)
(* later than any other.                                                    *)
LEMMA FirstIsEarliest ==
  ASSUME ListOK(link, timeout), timeout \in [Timer -> Tick]
  PROVE  /\ IsEmpty(link, Head) => \A t \in Timer : ~Armed(t)
         /\ ~IsEmpty(link, Head) =>
              /\ First \in Timer /\ Armed(First)
              /\ \A t \in Timer : Armed(t) => timeout[First] <= timeout[t]
<1> PICK n \in Nat : \E s : Chain(link, n, s) /\ Sorted(n, s, timeout)
  BY DEF ListOK
<1> PICK s : Chain(link, n, s) /\ Sorted(n, s, timeout)
  OBVIOUS
<1>0. /\ s \in [1..n -> Timer]
      /\ \A i \in 0..n : link[NodeAt(n, s, i)].next = NodeAt(n, s, i + 1)
  BY DEF Chain
<1>1. First = NodeAt(n, s, 1)
  <2>1. NodeAt(n, s, 0) = Head /\ 0 \in 0..n /\ 0 + 1 = 1
    BY DEF NodeAt
  <2> QED  BY <1>0, <2>1 DEF First
<1>2. \A t \in Timer : Armed(t) <=> \E i \in 1..n : t = s[i]
  <2>1. ArmedAre(link, n, s)
    BY ArmedInChain, Zenon
  <2> QED  BY <2>1, Zenon DEF ArmedAre, Armed
<1>3. CASE n = 0
  <2>1. IsEmpty(link, Head)
    BY <1>1, <1>3 DEF NodeAt, First, IsEmpty
  <2>2. \A t \in Timer : ~Armed(t)
    BY <1>2, <1>3
  <2> QED  BY <2>1, <2>2
<1>4. CASE n # 0
  <2>1. 1 \in 1..n /\ First = s[1] /\ s[1] \in Timer
    BY <1>0, <1>1, <1>4 DEF NodeAt
  <2>2. ~IsEmpty(link, Head)
    BY <2>1, TimerAssumption DEF First, IsEmpty
  <2>3. Armed(First)
    BY <1>2, <2>1
  <2>4. ASSUME NEW t \in Timer, Armed(t) PROVE timeout[First] <= timeout[t]
    <3> PICK i \in 1..n : t = s[i]
      BY <1>2, <2>4
    <3>1. 1 <= i
      OBVIOUS
    <3> QED  BY <2>1, <3>1 DEF Sorted
  <2> QED  BY <2>1, <2>2, <2>3, <2>4
<1> QED  BY <1>3, <1>4

Rises(n, a) ==
  /\ \A i \in 1..n : a[i] \in Int
  /\ \A i, j \in 1..n : i <= j => a[i] <= a[j]

Inserted(n, k, c, a, b) ==
  /\ \A i \in 1..n : (i < k => a[i] <= c) /\ (i >= k => c <= a[i])
  /\ \A i \in 1..(n + 1) :
       b[i] = IF i < k THEN a[i] ELSE IF i = k THEN c ELSE a[i - 1]

(* A number put behind the smaller and in front of the larger numbers of a  *)
(* sorted sequence leaves it sorted.                                        *)
LEMMA InsertSorted ==
  ASSUME NEW n \in Nat, NEW k \in 1..(n + 1), NEW c \in Int, NEW a, NEW b,
         Rises(n, a), Inserted(n, k, c, a, b)
  PROVE  Rises(n + 1, b)
<1>0. /\ \A i \in 1..n : a[i] \in Int
      /\ \A i, j \in 1..n : i <= j => a[i] <= a[j]
      /\ \A i \in 1..n : (i < k => a[i] <= c) /\ (i >= k => c <= a[i])
      /\ \A i \in 1..(n + 1) :
           b[i] = IF i < k THEN a[i] ELSE IF i = k THEN c ELSE a[i - 1]
  BY DEF Rises, Inserted
<1>a. \A i \in 1..(n + 1) : b[i] \in Int
  BY <1>0
<1> SUFFICES ASSUME NEW i \in 1..(n + 1), NEW j \in 1..(n + 1), i <= j
             PROVE  b[i] <= b[j]
  BY <1>a, Zenon DEF Rises
<1>1. CASE j < k
  BY <1>0, <1>1
<1>2. CASE i < k /\ j >= k
  BY <1>0, <1>2
<1>3. CASE i = k
  BY <1>0, <1>3
<1>4. CASE i > k
  <2>1. i - 1 \in 1..n /\ j - 1 \in 1..n /\ i - 1 <= j - 1
    BY <1>4
  <2> QED  BY <1>0, <1>4, <2>1
<1> QED  BY <1>1, <1>2, <1>3, <1>4

(* tn_timer_add of a timer that is not in the list puts it behind those due *)
(* no later and in front of those due later.                                *)
LEMMA AddKeepsOrder ==
  ASSUME ListOK(link, timeout), timeout \in [Timer -> Tick], NEW when \in Tick,
         NEW t \in Timer, ~Armed(t), TimerAdd(t, Head, StopAt(Head, when))
  PROVE  /\ ListOK(link', [timeout EXCEPT ![t] = when])
         /\ \A u \in Timer : link'[u].next # u <=> Armed(u) \/ u = t
         /\ crash' = crash
<1> PICK n \in Nat : \E s : Chain(link, n, s) /\ Sorted(n, s, timeout)
  BY DEF ListOK
<1> PICK s : Chain(link, n, s) /\ Sorted(n, s, timeout)
  OBVIOUS
<1>w. when \in Int /\ timeout \in [Timer -> Int]
  BY TimerAssumption DEF Tick
<1> PICK k \in 1..(n + 1) : /\ StopAt(Head, when) = NodeAt(n, s, k)
                            /\ \A i \in 1..(k - 1) : timeout[s[i]] <= when
                            /\ k <= n => timeout[s[k]] > when
  BY <1>w, StopPlace
<1>0. /\ s \in [1..n -> Timer] /\ \A i, j \in 1..n : s[i] = s[j] => i = j
      /\ \A i \in 0..n : /\ link[NodeAt(n, s, i)].next = NodeAt(n, s, i + 1)
                         /\ link[NodeAt(n, s, i + 1)].prev = NodeAt(n, s, i)
  BY DEF Chain
<1>1. \A u \in Timer : Armed(u) <=> \E i \in 1..n : u = s[i]
  <2>1. ArmedAre(link, n, s)
    BY ArmedInChain, Zenon
  <2> QED  BY <2>1, Zenon DEF ArmedAre, Armed
<1>2. /\ link' = ListAdd(link, t, NodeAt(n, s, k - 1), NodeAt(n, s, k))
      /\ crash' = crash
  <2> PICK x, p : x = NodeAt(n, s, k) /\ p = link[x].prev
    OBVIOUS
  <2>0. k - 1 \in 0..n /\ (k - 1) + 1 = k
    OBVIOUS
  <2>1. p = NodeAt(n, s, k - 1) /\ link[p].next = x
    BY <1>0, <2>0
  <2>2. x \in Timer \cup {Head}
    BY <1>0 DEF NodeAt
  <2>3. /\ link' = ListAdd(link, t, p, IF x = Head THEN Head ELSE link[p].next)
        /\ crash' = crash
    BY <2>2 DEF TimerAdd
  <2>4. (IF x = Head THEN Head ELSE link[p].next) = x
    BY <2>1
  <2> QED  BY <2>1, <2>3, <2>4
<1> PICK u : u = Ins(n, s, k, t)
  OBVIOUS
<1>3. Chain(link', n + 1, u) /\ n + 1 \in Nat
  <2>1. \A i \in 1..n : t # s[i]
    BY <1>1
  <2> QED  BY <1>2, <2>1, ChainAdd
<1>4. \A v \in Timer : link'[v].next # v <=> Armed(v) \/ v = t
  <2> TAKE v \in Timer
  <2>1. link'[v].next # v <=> \E i \in 1..(n + 1) : v = u[i]
    <3>1. ArmedAre(link', n + 1, u)
      BY <1>3, ArmedInChain, Zenon
    <3> QED  BY <3>1, Zenon DEF ArmedAre
  <2>2. u[k] = t /\ \A i \in 1..n : IF i < k THEN u[i] = s[i] ELSE u[i + 1] = s[i]
    BY DEF Ins
  <2>3. \A i \in 1..(n + 1) : u[i] = t \/ \E j \in 1..n : u[i] = s[j]
    BY DEF Ins
  <2>4. (\E i \in 1..n : v = s[i]) => \E i \in 1..(n + 1) : v = u[i]
    <3> SUFFICES ASSUME NEW i \in 1..n, v = s[i] PROVE \E j \in 1..(n + 1) : v = u[j]
      BY Zenon
    <3>1. i \in 1..(n + 1) /\ i + 1 \in 1..(n + 1)
      OBVIOUS
    <3>2. v = u[i] \/ v = u[i + 1]
      BY <2>2
    <3> QED  BY <3>1, <3>2, Zenon
  <2> QED  BY <1>1, <2>1, <2>2, <2>3, <2>4
<1>5. Sorted(n + 1, u, [timeout EXCEPT ![t] = when])
  <2> DEFINE w == [timeout EXCEPT ![t] = when]
  <2>0. w[t] = when /\ \A i \in 1..n : w[s[i]] = timeout[s[i]] /\ timeout[s[i]] \in Int
    BY <1>0, <1>1, <1>w
  <2>1. \A i \in 1..n : (i < k => timeout[s[i]] <= when) /\ (i >= k => when <= timeout[s[i]])
    <3> TAKE i \in 1..n
    <3>1. i < k => timeout[s[i]] <= when
      OBVIOUS
    <3>2. CASE i >= k
      <4>1. k \in 1..n /\ timeout[s[k]] > when /\ timeout[s[k]] <= timeout[s[i]]
        BY <3>2 DEF Sorted
      <4>2. timeout[s[k]] \in Int /\ timeout[s[i]] \in Int
        BY <2>0, <4>1
      <4> QED  BY <1>w, <3>2, <4>1, <4>2
    <3> QED  BY <3>1, <3>2
  <2>2. \A i \in 1..(n + 1) : /\ i < k => i \in 1..n /\ u[i] = s[i]
                              /\ i = k => u[i] = t
                              /\ i > k => i - 1 \in 1..n /\ u[i] = s[i - 1]
    BY DEF Ins
  <2> PICK a, b : /\ a = [i \in 1..n |-> timeout[s[i]]]
                  /\ b = [i \in 1..(n + 1) |-> w[u[i]]]
    OBVIOUS
  <2>3. \A i \in 1..(n + 1) :
          b[i] = IF i < k THEN a[i] ELSE IF i = k THEN when ELSE a[i - 1]
    <3> TAKE i \in 1..(n + 1)
    <3>1. b[i] = w[u[i]] /\ \A j \in 1..n : a[j] = timeout[s[j]]
      OBVIOUS
    <3>2. CASE i < k
      BY <2>0, <2>2, <3>1, <3>2
    <3>3. CASE i = k
      BY <2>0, <2>2, <3>1, <3>3
    <3>4. CASE i > k
      BY <2>0, <2>2, <3>1, <3>4
    <3> QED  BY <3>2, <3>3, <3>4
  <2>4. /\ \A i \in 1..n : a[i] \in Int
        /\ \A i \in 1..n : (i < k => a[i] <= when) /\ (i >= k => when <= a[i])
    BY <2>0, <2>1
  <2>5. \A i, j \in 1..n : i <= j => a[i] <= a[j]
    BY DEF Sorted
  <2>6. Rises(n, a) /\ Inserted(n, k, when, a, b)
    BY <2>3, <2>4, <2>5, Zenon DEF Rises, Inserted
  <2>7. Rises(n + 1, b)
    BY <1>w, <2>6, InsertSorted, Zenon
  <2> QED  BY <2>7 DEF Rises, Sorted
<1> QED  BY <1>2, <1>3, <1>4, <1>5 DEF ListOK

(* uk_list_del_init takes a timer, armed or not, out of the list. *)
LEMMA DelKeepsOrder ==
  ASSUME NEW l, NEW w, ListOK(l, w), NEW t \in Timer
  PROVE  /\ ListOK(ListDelInit(l, t), w)
         /\ \A u \in Timer : ListDelInit(l, t)[u].next # u <=> l[u].next # u /\ u # t
<1> PICK n \in Nat : \E s : Chain(l, n, s) /\ Sorted(n, s, w)
  BY DEF ListOK
<1> PICK s : Chain(l, n, s) /\ Sorted(n, s, w)
  OBVIOUS
<1>0. /\ l \in Links /\ s \in [1..n -> Timer] /\ \A i, j \in 1..n : s[i] = s[j] => i = j
      /\ \A m \in Node \ {Head} : (\A i \in 1..n : m # s[i]) => l[m] = Alone(m)
  BY DEF Chain
<1>1. \A u \in Timer : l[u].next # u <=> \E i \in 1..n : u = s[i]
  <2>1. ArmedAre(l, n, s)
    BY ArmedInChain, Zenon
  <2> QED  BY <2>1, Zenon DEF ArmedAre
<1>2. CASE \A i \in 1..n : t # s[i]
  <2>1. t \in Node \ {Head} /\ t \in Node
    BY TimerAssumption DEF Node
  <2>2. ListDelInit(l, t) = l
    BY <1>0, <1>2, <2>1, ListDelAlone
  <2> QED  BY <1>1, <1>2, <2>2
<1>3. CASE \E i \in 1..n : t = s[i]
  <2> PICK k \in 1..n : t = s[k]
    BY <1>3
  <2> PICK u, b : u = Del(n, s, k) /\ b = ListDelInit(l, t)
    OBVIOUS
  <2>1. Chain(b, n - 1, u) /\ n - 1 \in Nat
    BY ChainDel
  <2>2. \A i \in 1..(n - 1) : u[i] = IF i < k THEN s[i] ELSE s[i + 1]
    BY DEF Del
  <2>3. Sorted(n - 1, u, w)
    BY <2>2 DEF Sorted
  <2>4. \A v \in Timer : b[v].next # v <=> \E i \in 1..(n - 1) : v = u[i]
    <3>1. ArmedAre(b, n - 1, u)
      BY <2>1, ArmedInChain, Zenon
    <3> QED  BY <3>1, Zenon DEF ArmedAre
  <2>5. \A v \in Timer : (\E i \in 1..(n - 1) : v = u[i]) <=> (\E i \in 1..n : v = s[i]) /\ v # t
    <3>1. \A i \in 1..(n - 1) : u[i] # t /\ \E j \in 1..n : u[i] = s[j]
      BY <1>0, <2>2
    <3>2. \A i \in 1..n : s[i] # t => \E j \in 1..(n - 1) : u[j] = s[i]
      <4>1. \A i \in 1..n : (i < k => u[i] = s[i]) /\ (i > k => u[i - 1] = s[i])
        BY <2>2
      <4> QED  BY <4>1
    <3> QED  BY <3>1, <3>2
  <2> QED  BY <1>1, <2>1, <2>3, <2>4, <2>5 DEF ListOK
<1> QED  BY <1>2, <1>3

-----------------------------------------------------------------------------
(***************************************************************************)
(* The invariant of starts, deletes and tick interrupts.                   *)
(***************************************************************************)
(* No timer is started beyond the wrap of the tick counter: not by clients, *)
(* and not by a periodic timer that restarts.                               *)
BeforeTheWrap ==
  /\ ~Far /\ Uptime < TickMax
  /\ \A d \in Delay : Uptime + d <= TickMax

ClockTypes ==
  /\ timeout \in [Timer -> Tick] /\ init \in [Timer -> Tick]
  /\ cur \in Tick /\ last \in Tick
  /\ overflowed = FALSE /\ crash = "none"
  /\ phase \in {"idle", "flush", "flush_func", "due", "due_func"}

(* The timer whose callback runs has been taken off the list. *)
FiringInv ==
  /\ phase \in {"idle", "flush", "due"} => firing = Off
  /\ phase \in {"flush_func", "due_func"} => firing \in Timer /\ ~Armed(firing)

(* Outside the tick interrupt all armed timers lie ahead; a wrap finds no   *)
(* periodic timer, and where one may restart the counter is not near it.    *)
RoundInv ==
  /\ phase = "idle" => last = cur /\ \A t \in Timer : Armed(t) => timeout[t] > cur
  /\ phase \in {"flush", "flush_func"} =>
       firing \notin Periodic /\ \A t \in Periodic : ~Armed(t)
  /\ phase # "idle" => \A t \in Periodic : Armed(t) \/ t = firing => cur <= Uptime
  /\ \A t \in Timer : Armed(t) \/ t = firing => init[t] \in Delay

TimerInv == ListOK(link, timeout) /\ ClockTypes /\ FiringInv /\ RoundInv

(* What tn_timer_start does when its timeout lies before the wrap. *)
Starts(t, d) ==
  /\ ListOK(link', timeout')
  /\ timeout' = [timeout EXCEPT ![t] = cur + (IF d < 1 THEN 1 ELSE d)]
  /\ timeout' \in [Timer -> Tick]
  /\ \A u \in Timer : Armed(u)' <=> Armed(u) \/ u = t
  /\ overflowed' = FALSE /\ crash' = crash /\ last' = cur

LEMMA StartBeforeWrap ==
  ASSUME ListOK(link, timeout), ClockTypes, NEW t \in Timer, ~Armed(t), NEW d \in Nat,
         cur < TickMax, cur + d <= TickMax, TimerStart(t, d)
  PROVE  Starts(t, d)
<1> PICK e : e = IF d < 1 THEN 1 ELSE d
  OBVIOUS
<1>0. TickMax \in Nat /\ cur \in Nat /\ timeout \in [Timer -> Tick] /\ overflowed = FALSE
  BY TimerAssumption DEF ClockTypes, Tick
<1>1. e \in Nat /\ e >= 1 /\ e >= d /\ cur + e \in Nat /\ cur + e <= TickMax
  BY <1>0
<1>2. (cur + e) % (TickMax + 1) = cur + e
  <2> PICK a, m : a = cur + e /\ m = TickMax + 1
    OBVIOUS
  <2>1. a \in Nat /\ m \in Nat /\ m > 0 /\ a < m /\ a < 2 * m
    BY <1>0, <1>1
  <2>2. a % m = a
    BY <2>1, WrapsOnce
  <2> QED  BY <2>2
<1>3. ~(cur + e < cur \/ cur + e < d)
  BY <1>0, <1>1
<1>4. /\ timeout' = [timeout EXCEPT ![t] = cur + e]
      /\ TimerAdd(t, Head, StopAt(Head, cur + e))
      /\ overflowed' = FALSE
      /\ last' = cur
  BY <1>0, <1>2, <1>3 DEF TimerStart
<1>5. cur + e \in Tick
  BY <1>0, <1>1 DEF Tick
<1>6. /\ ListOK(link', [timeout EXCEPT ![t] = cur + e])
      /\ \A u \in Timer : link'[u].next # u <=> Armed(u) \/ u = t
      /\ crash' = crash
  BY <1>0, <1>4, <1>5, AddKeepsOrder
<1>7. timeout' \in [Timer -> Tick]
  BY <1>0, <1>4, <1>5
<1> QED  BY <1>4, <1>6, <1>7 DEF Starts, Armed

(* tn_timer_delete takes the timer out and leaves the rest of the list. *)
LEMMA DeleteFromList ==
  ASSUME ListOK(link, timeout), NEW t \in Timer,
         link' = ListDelInit(link, t), timeout' = timeout
  PROVE  /\ ListOK(link', timeout')
         /\ \A u \in Timer : Armed(u)' <=> Armed(u) /\ u # t
BY DelKeepsOrder DEF Armed

LEMMA TimerInit == Init => TimerInv
<1> SUFFICES ASSUME Init PROVE TimerInv
  OBVIOUS
<1>1. \A t \in Timer : ~Armed(t)
  BY DEF Init, Armed, Alone, Node
<1>2. ListOK(link, timeout)
  <2> PICK s : s = [i \in 1..0 |-> Head]
    OBVIOUS
  <2>1. link \in Links /\ \A m \in Node : link[m] = Alone(m)
    BY DEF Init, Links, Alone
  <2>2. Head \in Node /\ Alone(Head).next = Head /\ Alone(Head).prev = Head
    BY DEF Alone, Node
  <2>3. NodeAt(0, s, 0) = Head /\ NodeAt(0, s, 0 + 1) = Head /\ 0..0 = {0} /\ 1..0 = {}
    BY DEF NodeAt
  <2>4. s \in [1..0 -> Timer]
    BY <2>3
  <2>5. Chain(link, 0, s)
    BY <2>1, <2>2, <2>3, <2>4 DEF Chain
  <2>6. Sorted(0, s, timeout)
    BY <2>3 DEF Sorted
  <2> QED  BY <2>5, <2>6 DEF ListOK
<1>3. ClockTypes
  BY TimerAssumption DEF Init, ClockTypes, Tick
<1>4. FiringInv
  BY DEF Init, FiringInv
<1>5. RoundInv
  BY <1>1, TimerAssumption DEF Init, RoundInv
<1> QED  BY <1>2, <1>3, <1>4, <1>5 DEF TimerInv

(* Sizes and names the steps rely on. *)
LEMMA TimerFacts ==
  /\ TickMax \in Nat /\ Uptime \in Nat /\ MaxLate \in Nat /\ MaxLate <= TickMax
  /\ Delay \subseteq Tick /\ Tick \subseteq Nat /\ \A k \in Tick : k <= TickMax
  /\ Periodic \subseteq Timer /\ Off \notin Timer /\ Off \notin Int /\ Off \notin Periodic
BY TimerAssumption DEF Tick

LEMMA StartInv ==
  ASSUME BeforeTheWrap, TimerInv, NEW t \in Timer, NEW d \in Delay, Start(t, d)
  PROVE  TimerInv' /\ Starts(t, d)
<1>0. ListOK(link, timeout) /\ ClockTypes /\ FiringInv /\ RoundInv
  BY DEF TimerInv
<1>1. /\ phase = "idle" /\ ~Armed(t) /\ cur < TickMax /\ cur + d <= TickMax
      /\ init' = [init EXCEPT ![t] = d] /\ TimerStart(t, d)
      /\ cur' = cur /\ phase' = phase /\ firing' = firing
  BY DEF Start, BeforeTheWrap, callVars
<1>2. d \in Nat /\ d \in Tick /\ cur \in Nat /\ timeout \in [Timer -> Tick]
  BY <1>0, TimerFacts DEF ClockTypes
<1>3. Starts(t, d)
  BY <1>0, <1>1, <1>2, StartBeforeWrap
<1>4. firing = Off /\ last = cur /\ \A u \in Timer : Armed(u) => timeout[u] > cur
  BY <1>0, <1>1 DEF FiringInv, RoundInv
<1>5. ClockTypes'
  BY <1>0, <1>1, <1>2, <1>3 DEF ClockTypes, Starts
<1>6. FiringInv'
  BY <1>1, <1>4 DEF FiringInv
<1>7. RoundInv'
  <2>1. \A u \in Timer : Armed(u)' => timeout'[u] > cur
    <3> TAKE u \in Timer
    <3>1. CASE u = t
      BY <1>2, <1>3, <3>1 DEF Starts
    <3>2. CASE u # t
      BY <1>2, <1>3, <1>4, <3>2 DEF Starts
    <3> QED  BY <3>1, <3>2
  <2>2. \A u \in Timer : Armed(u)' \/ u = firing' => init'[u] \in Delay
    <3> TAKE u \in Timer
    <3>1. CASE u = t
      BY <1>0, <1>1, <3>1 DEF ClockTypes
    <3>2. CASE u # t
      BY <1>0, <1>1, <1>3, <3>2 DEF Starts, RoundInv, ClockTypes
    <3> QED  BY <3>1, <3>2
  <2> QED  BY <1>1, <1>3, <1>4, <2>1, <2>2 DEF RoundInv, Starts
<1> QED  BY <1>3, <1>5, <1>6, <1>7 DEF TimerInv, Starts

(* Where a step takes a timer off the list and leaves the clock alone, the  *)
(* invariant holds after it but for the timer that fires.                   *)
LEMMA DeleteInv ==
  ASSUME TimerInv, NEW t \in Timer, Delete(t)
  PROVE  /\ TimerInv'
         /\ \A u \in Timer : Armed(u)' <=> Armed(u) /\ u # t
<1>0. ListOK(link, timeout) /\ ClockTypes /\ FiringInv /\ RoundInv
  BY DEF TimerInv
<1>1. /\ link' = ListDelInit(link, t) /\ overflowed' = overflowed /\ crash' = crash
      /\ timeout' = timeout /\ init' = init /\ cur' = cur /\ last' = last
      /\ phase' = phase /\ firing' = firing
  BY <1>0 DEF Delete, TimerDelete, ClockTypes, clockVars, callVars
<1>2. ListOK(link', timeout') /\ \A u \in Timer : Armed(u)' <=> Armed(u) /\ u # t
  BY <1>0, <1>1, DeleteFromList
<1>3. ClockTypes'
  BY <1>0, <1>1 DEF ClockTypes
<1>4. FiringInv'
  BY <1>0, <1>1, <1>2 DEF FiringInv
<1>5. RoundInv'
  BY <1>0, <1>1, <1>2, TimerFacts DEF RoundInv
<1> QED  BY <1>2, <1>3, <1>4, <1>5 DEF TimerInv

LEMMA AnnounceInv ==
  ASSUME BeforeTheWrap, TimerInv, NEW n \in 0..MaxLate, Announce(n)
  PROVE  /\ TimerInv'
         /\ IF phase' = "flush" THEN cur' = cur + n - (TickMax + 1) ELSE cur' = cur + n
         /\ phase = "idle" /\ phase' \in {"flush", "due"}
<1>0. ListOK(link, timeout) /\ ClockTypes /\ FiringInv /\ RoundInv
  BY DEF TimerInv
<1>1. /\ phase = "idle"
      /\ (\E t \in Periodic : Armed(t)) => cur + n <= Uptime
      /\ cur' = (cur + n) % (TickMax + 1)
      /\ phase' = IF cur' < last THEN "flush" ELSE "due"
      /\ link' = link /\ overflowed' = overflowed /\ crash' = crash
      /\ timeout' = timeout /\ init' = init /\ last' = last /\ firing' = firing
  BY DEF Announce, listVars
<1>2. firing = Off /\ last = cur
  BY <1>0, <1>1 DEF FiringInv, RoundInv
<1>3. n \in Nat /\ n <= TickMax /\ cur \in Nat /\ cur <= TickMax /\ TickMax \in Nat
  BY <1>0, TimerFacts DEF ClockTypes
<1>4. cur' \in Nat /\ cur' <= TickMax
      /\ cur' = IF cur + n <= TickMax THEN cur + n ELSE cur + n - (TickMax + 1)
  <2> PICK a, m : a = cur + n /\ m = TickMax + 1
    OBVIOUS
  <2>1. a \in Nat /\ m \in Nat /\ m > 0 /\ a < 2 * m
    BY <1>3
  <2>2. a % m = IF a < m THEN a ELSE a - m
    BY <2>1, WrapsOnce
  <2> QED  BY <1>1, <1>3, <2>1, <2>2
<1>5. cur' \in Tick
  BY <1>3, <1>4 DEF Tick
<1>6. phase' = IF cur + n <= TickMax THEN "due" ELSE "flush"
  BY <1>1, <1>2, <1>3, <1>4
<1>7. ClockTypes'
  BY <1>0, <1>1, <1>5, <1>6 DEF ClockTypes
<1>8. FiringInv'
  BY <1>1, <1>2, <1>6 DEF FiringInv
<1>9. \A t \in Timer : Armed(t)' <=> Armed(t)
  BY <1>1 DEF Armed
<1>10. RoundInv'
  <2>1. phase' = "flush" => \A t \in Periodic : ~Armed(t)
    <3>1. Uptime < TickMax /\ Uptime \in Nat
      BY TimerFacts DEF BeforeTheWrap
    <3> QED  BY <1>1, <1>3, <1>6, <3>1
  <2>2. \A t \in Periodic : Armed(t) => cur' <= Uptime
    <3> SUFFICES ASSUME NEW t \in Periodic, Armed(t) PROVE cur' <= Uptime
      OBVIOUS
    <3>1. cur + n <= Uptime /\ Uptime < TickMax /\ Uptime \in Nat
      BY <1>1, TimerFacts DEF BeforeTheWrap
    <3> QED  BY <1>3, <1>4, <3>1
  <2>3. firing' = Off /\ Off \notin Periodic /\ Periodic \subseteq Timer
    BY <1>1, <1>2, TimerFacts
  <2>4. \A t \in Timer : Armed(t)' \/ t = firing' => init'[t] \in Delay
    BY <1>0, <1>1, <1>9 DEF RoundInv
  <2>5. phase' # "idle" /\ (phase' = "flush" \/ phase' = "due")
    BY <1>6
  <2>6. phase' \in {"flush", "flush_func"} =>
          firing' \notin Periodic /\ \A t \in Periodic : ~Armed(t)'
    BY <1>9, <2>1, <2>3, <2>5
  <2>7. \A t \in Periodic : Armed(t)' \/ t = firing' => cur' <= Uptime
    BY <1>9, <2>2, <2>3
  <2> QED  BY <2>4, <2>5, <2>6, <2>7 DEF RoundInv
<1>11. ListOK(link', timeout')
  BY <1>0, <1>1
<1> QED  BY <1>1, <1>4, <1>6, <1>7, <1>8, <1>10, <1>11 DEF TimerInv

(* The timer that a loop of tn_timer_announce takes off is the earliest. *)
LEMMA FireInv ==
  ASSUME TimerInv, Fire
  PROVE  /\ TimerInv'
         /\ First \in Timer /\ Armed(First) /\ firing = Off /\ firing' = First
         /\ \A u \in Timer : Armed(u)' <=> Armed(u) /\ u # First
         /\ \A u \in Timer : Armed(u) => timeout[First] <= timeout[u]
         /\ \/ phase = "flush" /\ phase' = "flush_func"
            \/ phase = "due" /\ phase' = "due_func" /\ timeout[First] <= cur
         /\ timeout' = timeout /\ cur' = cur
<1>0. ListOK(link, timeout) /\ ClockTypes /\ FiringInv /\ RoundInv
  BY DEF TimerInv
<1>1. /\ First \in Timer /\ Armed(First)
      /\ \A t \in Timer : Armed(t) => timeout[First] <= timeout[t]
  BY <1>0, FirstIsEarliest DEF Fire, ClockTypes
<1>2. /\ \/ phase = "flush" /\ phase' = "flush_func"
         \/ phase = "due" /\ phase' = "due_func" /\ timeout[First] <= cur
      /\ link' = ListDelInit(link, First) /\ firing' = First /\ crash' = crash
      /\ overflowed' = overflowed /\ timeout' = timeout /\ init' = init
      /\ cur' = cur /\ last' = last
  BY <1>1 DEF Fire, clockVars
<1>3. ListOK(link', timeout') /\ \A u \in Timer : Armed(u)' <=> Armed(u) /\ u # First
  BY <1>0, <1>1, <1>2, DeleteFromList
<1>4. firing = Off
  BY <1>0, <1>2 DEF FiringInv
<1>5. ClockTypes'
  BY <1>0, <1>2 DEF ClockTypes
<1>6. FiringInv'
  <2>1. ~Armed(firing)'
    BY <1>1, <1>2, <1>3 DEF Armed
  <2> QED  BY <1>1, <1>2, <2>1 DEF FiringInv
<1>7. RoundInv'
  <2>1. \A t \in Timer : Armed(t)' \/ t = firing' => Armed(t)
    BY <1>1, <1>2, <1>3
  <2>2. \A t \in Periodic : Armed(t)' \/ t = firing' => Armed(t)
    BY <2>1, TimerFacts
  <2>3. \A t \in Timer : Armed(t)' \/ t = firing' => init'[t] \in Delay
    BY <1>0, <1>2, <2>1 DEF RoundInv
  <2>4. phase' # "idle" /\ phase # "idle"
    BY <1>2
  <2>5. \A t \in Periodic : Armed(t)' \/ t = firing' => cur' <= Uptime
    BY <1>0, <1>2, <2>2, <2>4 DEF RoundInv
  <2>6. phase' = "flush_func" => firing' \notin Periodic /\ \A t \in Periodic : ~Armed(t)'
    BY <1>0, <1>1, <1>2, <2>2 DEF RoundInv
  <2>7. phase' \in {"flush", "flush_func"} => phase' = "flush_func"
    BY <1>2
  <2> QED  BY <2>3, <2>4, <2>5, <2>6, <2>7 DEF RoundInv
<1> QED  BY <1>1, <1>2, <1>3, <1>4, <1>5, <1>6, <1>7 DEF TimerInv

(* When a callback returns a periodic timer restarts, and its timeout does  *)
(* not reach the wrap.                                                      *)
LEMMA FiredInv ==
  ASSUME BeforeTheWrap, TimerInv, Fired
  PROVE  /\ TimerInv'
         /\ firing \in Timer /\ ~Armed(firing) /\ firing' = Off /\ cur' = cur
         /\ \/ phase = "flush_func" /\ phase' = "flush" /\ firing \notin Periodic
            \/ phase = "due_func" /\ phase' = "due"
         /\ IF firing \in Periodic
            THEN init[firing] \in Delay /\ Starts(firing, init[firing])
            ELSE link' = link /\ timeout' = timeout
<1>0. ListOK(link, timeout) /\ ClockTypes /\ FiringInv /\ RoundInv
  BY DEF TimerInv
<1>1. /\ \/ phase = "flush_func" /\ phase' = "flush"
         \/ phase = "due_func" /\ phase' = "due"
      /\ firing' = Off /\ init' = init /\ cur' = cur
  BY DEF Fired
<1>2. firing \in Timer /\ ~Armed(firing) /\ init[firing] \in Delay
  BY <1>0, <1>1 DEF FiringInv, RoundInv
<1>3. phase = "flush_func" => firing \notin Periodic
  BY <1>0 DEF RoundInv
<1>4. phase' # "idle" /\ phase # "idle" /\ phase' \in {"flush", "due"}
      /\ (phase' = "flush" => phase = "flush_func")
  BY <1>1
<1>5. FiringInv'
  BY <1>1, <1>4 DEF FiringInv
<1>6. CASE firing \in Periodic
  <2>1. TimerStart(firing, init[firing])
    BY <1>6 DEF Fired
  <2>2. /\ init[firing] \in Nat /\ cur \in Nat /\ TickMax \in Nat /\ Uptime \in Nat
        /\ cur <= Uptime /\ Uptime < TickMax /\ Uptime + init[firing] <= TickMax
    <3>1. init[firing] \in Nat /\ cur \in Nat /\ TickMax \in Nat /\ Uptime \in Nat
      BY <1>0, <1>2, TimerFacts DEF ClockTypes
    <3>2. cur <= Uptime
      BY <1>0, <1>4, <1>6 DEF RoundInv
    <3> QED  BY <1>2, <3>1, <3>2 DEF BeforeTheWrap
  <2>3. cur < TickMax /\ cur + init[firing] <= TickMax
    BY <2>2
  <2>4. Starts(firing, init[firing])
    BY <1>0, <1>2, <2>1, <2>2, <2>3, StartBeforeWrap
  <2>5. ClockTypes'
    BY <1>0, <1>1, <1>4, <2>4 DEF ClockTypes, Starts
  <2>6. RoundInv'
    <3>1. \A t \in Timer : Armed(t)' \/ t = firing' => Armed(t) \/ t = firing
      BY <1>1, <2>4, TimerFacts DEF Starts
    <3>2. \A t \in Timer : Armed(t)' \/ t = firing' => init'[t] \in Delay
      BY <1>0, <1>1, <3>1 DEF RoundInv
    <3>3. phase' = "due"
      BY <1>1, <1>3, <1>6
    <3> QED  BY <1>1, <2>2, <3>2, <3>3 DEF RoundInv
  <2> QED  BY <1>1, <1>2, <1>3, <1>5, <1>6, <2>4, <2>5, <2>6 DEF TimerInv, Starts
<1>7. CASE firing \notin Periodic
  <2>1. link' = link /\ overflowed' = overflowed /\ crash' = crash
        /\ timeout' = timeout /\ last' = last
    BY <1>7 DEF Fired, listVars
  <2>2. \A t \in Timer : Armed(t)' <=> Armed(t)
    BY <2>1 DEF Armed
  <2>3. ClockTypes'
    BY <1>0, <1>1, <1>4, <2>1 DEF ClockTypes
  <2>4. RoundInv'
    <3>1. \A t \in Timer : Armed(t)' \/ t = firing' => init'[t] \in Delay
      BY <1>0, <1>1, <2>2, TimerFacts DEF RoundInv
    <3>2. \A t \in Periodic : Armed(t)' \/ t = firing' => cur' <= Uptime
      BY <1>0, <1>1, <1>4, <2>2, TimerFacts DEF RoundInv
    <3>3. phase' = "flush" => firing' \notin Periodic /\ \A t \in Periodic : ~Armed(t)'
      BY <1>0, <1>1, <1>4, <2>2, TimerFacts DEF RoundInv
    <3> QED  BY <1>4, <3>1, <3>2, <3>3 DEF RoundInv
  <2> QED  BY <1>0, <1>1, <1>2, <1>5, <1>7, <2>1, <2>3, <2>4 DEF TimerInv
<1> QED  BY <1>6, <1>7

LEMMA FlushedInv ==
  ASSUME TimerInv, Flushed
  PROVE  /\ TimerInv'
         /\ \A t \in Timer : ~Armed(t) /\ ~Armed(t)'
         /\ phase = "flush" /\ phase' = "due" /\ firing' = firing /\ firing = Off
<1>0. ListOK(link, timeout) /\ ClockTypes /\ FiringInv /\ RoundInv
  BY DEF TimerInv
<1>1. /\ phase = "flush" /\ phase' = "due" /\ IsEmpty(link, Head)
      /\ link' = link /\ overflowed' = overflowed /\ crash' = crash
      /\ timeout' = timeout /\ init' = init /\ cur' = cur /\ last' = last
      /\ firing' = firing
  BY <1>0 DEF Flushed, ClockTypes, listVars, clockVars
<1>2. firing = Off /\ \A t \in Timer : ~Armed(t)
  BY <1>0, <1>1, FirstIsEarliest DEF FiringInv, ClockTypes
<1>3. \A t \in Timer : ~Armed(t)'
  BY <1>1, <1>2 DEF Armed
<1>4. ClockTypes' /\ FiringInv'
  BY <1>0, <1>1, <1>2 DEF ClockTypes, FiringInv
<1>5. RoundInv'
  BY <1>1, <1>2, <1>3, TimerFacts DEF RoundInv
<1> QED  BY <1>0, <1>1, <1>2, <1>3, <1>4, <1>5 DEF TimerInv

(* The interrupt returns when no armed timer is due. *)
LEMMA AnnouncedInv ==
  ASSUME TimerInv, Announced
  PROVE  /\ TimerInv'
         /\ \A t \in Timer : Armed(t) => timeout[t] > cur
         /\ phase = "due" /\ phase' = "idle" /\ firing = Off /\ firing' = Off
         /\ link' = link /\ timeout' = timeout /\ cur' = cur
<1>0. ListOK(link, timeout) /\ ClockTypes /\ FiringInv /\ RoundInv
  BY DEF TimerInv
<1>1. /\ phase = "due" /\ phase' = "idle" /\ last' = cur
      /\ First = Head \/ (First \in Timer /\ timeout[First] > cur)
      /\ link' = link /\ overflowed' = overflowed /\ crash' = crash
      /\ timeout' = timeout /\ init' = init /\ cur' = cur /\ firing' = firing
  BY DEF Announced, listVars
<1>2. firing = Off
  BY <1>0, <1>1 DEF FiringInv
<1>3. \A t \in Timer : Armed(t) => timeout[t] > cur
  <2> SUFFICES ASSUME NEW t \in Timer, Armed(t) PROVE timeout[t] > cur
    OBVIOUS
  <2>1. timeout[First] <= timeout[t] /\ First \in Timer /\ ~IsEmpty(link, Head)
    BY <1>0, FirstIsEarliest DEF ClockTypes
  <2>2. timeout[First] > cur
    BY <1>1, <2>1 DEF First, IsEmpty
  <2>3. timeout[t] \in Nat /\ timeout[First] \in Nat /\ cur \in Nat
    BY <1>0, <2>1, TimerFacts DEF ClockTypes
  <2> QED  BY <2>1, <2>2, <2>3
<1>4. ClockTypes' /\ FiringInv'
  BY <1>0, <1>1, <1>2 DEF ClockTypes, FiringInv
<1>5. \A t \in Timer : Armed(t)' <=> Armed(t)
  BY <1>1 DEF Armed
<1>6. RoundInv'
  BY <1>0, <1>1, <1>3, <1>5 DEF RoundInv
<1> QED  BY <1>0, <1>1, <1>2, <1>3, <1>4, <1>6 DEF TimerInv

LEMMA TimerStep == BeforeTheWrap /\ TimerInv /\ [Next]_vars => TimerInv'
<1> SUFFICES ASSUME BeforeTheWrap, TimerInv, [Next]_vars PROVE TimerInv'
  OBVIOUS
<1>1. CASE \E t \in Timer, d \in Delay : Start(t, d)
  BY <1>1, StartInv
<1>2. CASE \E t \in Timer : Delete(t)
  BY <1>2, DeleteInv
<1>3. CASE \E n \in 0..MaxLate : Announce(n)
  BY <1>3, AnnounceInv
<1>4. CASE Fire
  BY <1>4, FireInv
<1>5. CASE Fired
  BY <1>5, FiredInv
<1>6. CASE Flushed
  BY <1>6, FlushedInv
<1>7. CASE Announced
  BY <1>7, AnnouncedInv
<1>8. CASE UNCHANGED vars
  BY <1>8 DEF vars, listVars, clockVars, callVars, TimerInv, ClockTypes, FiringInv,
              RoundInv, Armed
<1> QED  BY <1>1, <1>2, <1>3, <1>4, <1>5, <1>6, <1>7, <1>8 DEF Next

-----------------------------------------------------------------------------
(***************************************************************************)
(* The theorems about the soft timers.                                     *)
(***************************************************************************)
LEMMA ListsAreSound == TimerInv => ListsSound
<1> SUFFICES ASSUME TimerInv PROVE ListsSound
  OBVIOUS
<1>0. timeout \in [Timer -> Tick]
  BY DEF TimerInv, ClockTypes
<1> PICK n \in Nat : \E s : Chain(link, n, s) /\ Sorted(n, s, timeout)
  BY DEF TimerInv, ListOK
<1> PICK s : Chain(link, n, s) /\ Sorted(n, s, timeout)
  OBVIOUS
<1>1. /\ s \in [1..n -> Timer] /\ \A i, j \in 1..n : s[i] = s[j] => i = j
      /\ \A i \in 0..n : /\ link[NodeAt(n, s, i)].next = NodeAt(n, s, i + 1)
                         /\ link[NodeAt(n, s, i + 1)].prev = NodeAt(n, s, i)
      /\ \A m \in Node \ {Head} : (\A i \in 1..n : m # s[i]) => link[m] = Alone(m)
  BY DEF Chain
<1>2. \A t \in Timer : Armed(t) <=> \E i \in 1..n : t = s[i]
  <2>1. ArmedAre(link, n, s)
    BY ArmedInChain, Zenon
  <2> QED  BY <2>1, Zenon DEF ArmedAre, Armed
<1>3. \A m \in Node : link[link[m].next].prev = m
  <2> TAKE m \in Node
  <2>1. CASE m = Head
    <3>1. NodeAt(n, s, 0) = m /\ 0 \in 0..n
      BY <2>1 DEF NodeAt
    <3> QED  BY <1>1, <3>1
  <2>2. CASE \E i \in 1..n : m = s[i]
    <3> PICK i \in 1..n : m = s[i]
      BY <2>2
    <3>1. NodeAt(n, s, i) = m /\ i \in 0..n
      BY DEF NodeAt
    <3> QED  BY <1>1, <3>1
  <2>3. CASE m # Head /\ \A i \in 1..n : m # s[i]
    <3>1. link[m] = Alone(m)
      BY <1>1, <2>3
    <3>2. Alone(m).next = m /\ Alone(m).prev = m
      BY DEF Alone
    <3> QED  BY <3>1, <3>2
  <2> QED  BY <2>1, <2>2, <2>3
<1>4. \A t \in Timer : Armed(t) =>
        \E h \in {Head, Overflow}, k \in 1..Cardinality(Node) : Walk(link, h)[k] = t
  <2> SUFFICES ASSUME NEW t \in Timer, Armed(t)
               PROVE  \E k \in 1..Cardinality(Node) : Walk(link, Head)[k] = t
    OBVIOUS
  <2> PICK i \in 1..n : t = s[i]
    BY <1>2
  <2>0. Cardinality(Node) \in Nat /\ n + 1 <= Cardinality(Node)
    <3>1. Apart(n, s)
      BY <1>1, Zenon DEF Apart
    <3> QED  BY <3>1, NodeCount, Zenon
  <2>1. i \in 1..Cardinality(Node)
    BY <2>0
  <2>2. Walk(link, Head)[i] = NodeAt(n, s, i)
    BY WalkChain
  <2>3. NodeAt(n, s, i) = t
    BY DEF NodeAt
  <2> QED  BY <2>1, <2>2, <2>3, Zenon
<1>5. \A t \in Timer : Armed(t) /\ link[t].next \in Timer =>
        timeout[t] <= timeout[link[t].next]
  <2> SUFFICES ASSUME NEW t \in Timer, Armed(t), link[t].next \in Timer
               PROVE  timeout[t] <= timeout[link[t].next]
    OBVIOUS
  <2> PICK i \in 1..n : t = s[i]
    BY <1>2
  <2>1. link[t].next = NodeAt(n, s, i + 1)
    <3>1. NodeAt(n, s, i) = t /\ i \in 0..n
      BY DEF NodeAt
    <3> QED  BY <1>1, <3>1
  <2>2. i + 1 \in 1..n /\ link[t].next = s[i + 1]
    BY <2>1, TimerAssumption DEF NodeAt
  <2> QED  BY <2>2 DEF Sorted
<1> QED  BY <1>3, <1>4, <1>5 DEF ListsSound

LEMMA NextTickIsExact == TimerInv => NextTickExact
<1> SUFFICES ASSUME TimerInv, phase = "idle" PROVE NextTickExact
  BY DEF NextTickExact
<1> DEFINE ticks == {timeout[t] - cur : t \in {u \in Timer : Armed(u)}}
<1>0. /\ timeout \in [Timer -> Tick] /\ cur \in Nat /\ TickMax \in Nat
      /\ overflowed = FALSE /\ ListOK(link, timeout)
      /\ \A t \in Timer : Armed(t) => timeout[t] > cur
  BY TimerFacts DEF TimerInv, ClockTypes, RoundInv
<1>1. \A t \in Timer : timeout[t] \in Nat /\ timeout[t] <= TickMax
  BY <1>0, TimerFacts
<1>2. CASE IsEmpty(link, Head)
  <2>1. ticks = {}
    BY <1>0, <1>2, FirstIsEarliest
  <2>2. NextTick = TickMax
    BY <1>0, <1>2 DEF NextTick, IsEmpty
  <2> QED  BY <2>1, <2>2 DEF NextTickExact
<1>3. CASE ~IsEmpty(link, Head)
  <2> PICK t : t = First
    OBVIOUS
  <2>1. /\ t \in Timer /\ Armed(t) /\ t # Head
        /\ \A u \in Timer : Armed(u) => timeout[t] <= timeout[u]
    BY <1>0, <1>3, FirstIsEarliest, TimerAssumption
  <2>2. timeout[t] > cur /\ timeout[t] \in Nat /\ timeout[t] <= TickMax
    BY <1>0, <1>1, <2>1
  <2>3. (timeout[t] - cur) % (TickMax + 1) = timeout[t] - cur
    <3> PICK a, m : a = timeout[t] - cur /\ m = TickMax + 1
      OBVIOUS
    <3>1. a \in Nat /\ m \in Nat /\ m > 0 /\ a < m /\ a < 2 * m
      BY <1>0, <2>2
    <3>2. a % m = a
      BY <3>1, WrapsOnce
    <3> QED  BY <3>2
  <2>4. NextTick = timeout[t] - cur
    <3>1. ~(timeout[t] <= cur)
      BY <1>0, <2>2
    <3>2. link[Head].next = t /\ ~(IsEmpty(link, Head) /\ overflowed)
      BY <1>3 DEF First
    <3>3. NextTick = (timeout[t] - cur) % (TickMax + 1)
      BY <2>1, <3>1, <3>2 DEF NextTick
    <3> QED  BY <2>3, <3>3
  <2>5. NextTick \in ticks
    BY <2>1, <2>4
  <2>6. \A k \in ticks : NextTick <= k
    <3> SUFFICES ASSUME NEW u \in Timer, Armed(u) PROVE timeout[t] - cur <= timeout[u] - cur
      BY <2>4
    <3>1. timeout[t] <= timeout[u] /\ timeout[u] \in Nat
      BY <1>1, <2>1
    <3> QED  BY <1>0, <2>2, <3>1
  <2>7. ticks # {}
    BY <2>5
  <2> HIDE DEF ticks
  <2>8. IF ticks = {} THEN NextTick = TickMax
        ELSE NextTick \in ticks /\ \A k \in ticks : NextTick <= k
    BY <2>5, <2>6, <2>7
  <2> QED  BY <2>8 DEF NextTickExact, ticks
<1> QED  BY <1>2, <1>3

(* tn_timer_start, tn_timer_delete and the loops of tn_timer_announce, with *)
(* deletes from callbacks and restarts in between, keep the list well       *)
(* formed and in order of timeout_tick: for any set of timers, delays and   *)
(* lateness, as long as no timeout lies beyond the wrap of the counter.     *)
THEOREM TimerListsSound == BeforeTheWrap => (Spec => []ListsSound)
<1> SUFFICES ASSUME BeforeTheWrap PROVE Spec => []ListsSound
  OBVIOUS
<1>1. Init => TimerInv
  BY TimerInit
<1>2. TimerInv /\ [Next]_vars => TimerInv'
  BY TimerStep
<1> QED  BY <1>1, <1>2, ListsAreSound, PTL DEF Spec

(* tn_timer_next_tick always tells the ticks to the earliest armed timer,   *)
(* under the same condition.                                                *)
THEOREM TimerNextTick == BeforeTheWrap => (Spec => []NextTickExact)
<1> SUFFICES ASSUME BeforeTheWrap PROVE Spec => []NextTickExact
  OBVIOUS
<1>1. Init => TimerInv
  BY TimerInit
<1>2. TimerInv /\ [Next]_vars => TimerInv'
  BY TimerStep
<1> QED  BY <1>1, <1>2, NextTickIsExact, PTL DEF Spec

-----------------------------------------------------------------------------
(***************************************************************************)
(* The lists implement the alarm clock.                                    *)
(***************************************************************************)
TicksLeft == [t \in Timer |-> Left(t)]

(* The timers armed in the alarm clock are the linked ones. *)
LEMMA ArmedAlarms ==
  ASSUME TimerInv
  PROVE  /\ A!Armed = {t \in Timer : Armed(t)}
         /\ \A t \in Timer : IF Armed(t) THEN Left(t) \in Int ELSE Left(t) = Off
<1>1. timeout \in [Timer -> Int] /\ cur \in Int /\ TickMax \in Int
  BY TimerAssumption DEF TimerInv, ClockTypes, Tick
<1>2. \A t \in Timer : IF Armed(t) THEN Left(t) \in Int ELSE Left(t) = Off
  BY <1>1 DEF Left
<1>3. \A t \in Timer : Left(t) # Off <=> Armed(t)
  BY <1>2, TimerFacts
<1> QED  BY <1>2, <1>3 DEF A!Armed

(* A change of one timer's ticks is a change of the function at its place. *)
LEMMA OneChanges ==
  ASSUME NEW t \in Timer, NEW e,
         \A u \in Timer : Left(u)' = IF u = t THEN e ELSE Left(u)
  PROVE  TicksLeft' = [TicksLeft EXCEPT ![t] = e]
BY DEF TicksLeft

LEMMA StartAlarm ==
  ASSUME BeforeTheWrap, TimerInv, NEW t \in Timer, NEW d \in Delay, Start(t, d)
  PROVE  A!Start(t, d)
<1>1. Starts(t, d)
  BY StartInv
<1>2. phase = "idle" /\ phase' = phase /\ firing' = firing /\ cur' = cur /\ ~Armed(t)
  BY DEF Start, callVars
<1>3. d \in Nat /\ cur \in Nat /\ timeout \in [Timer -> Tick]
  BY TimerFacts DEF TimerInv, ClockTypes
<1>4. \A u \in Timer : Left(u)' = IF u = t THEN A!Ticks(d) ELSE Left(u)
  <2> TAKE u \in Timer
  <2>1. CASE u = t
    <3>1. Armed(u)' /\ timeout'[u] = cur + (IF d < 1 THEN 1 ELSE d)
      BY <1>1, <1>3, <2>1 DEF Starts
    <3>2. Left(u)' = timeout'[u] - cur
      BY <1>2, <3>1 DEF Left
    <3>3. A!Ticks(d) = IF d < 1 THEN 1 ELSE d
      BY <1>3 DEF A!Ticks
    <3> QED  BY <1>3, <2>1, <3>1, <3>2, <3>3
  <2>2. CASE u # t
    <3>1. Armed(u)' = Armed(u) /\ timeout'[u] = timeout[u]
      BY <1>1, <1>3, <2>2 DEF Starts, Armed
    <3> QED  BY <1>2, <2>2, <3>1 DEF Left
  <2> QED  BY <2>1, <2>2
<1>5. TicksLeft' = [TicksLeft EXCEPT ![t] = A!Ticks(d)]
  BY <1>4, OneChanges
<1>6. t \notin A!Armed
  BY <1>2, ArmedAlarms
<1> QED  BY <1>2, <1>5, <1>6 DEF A!Start, TicksLeft

LEMMA CancelAlarm ==
  ASSUME TimerInv, NEW t \in Timer, Delete(t)
  PROVE  A!Cancel(t)
<1>1. \A u \in Timer : Armed(u)' <=> Armed(u) /\ u # t
  BY DeleteInv
<1>2. timeout' = timeout /\ cur' = cur /\ phase' = phase /\ firing' = firing
  BY DEF Delete, clockVars, callVars
<1>3. \A u \in Timer : Left(u)' = IF u = t THEN Off ELSE Left(u)
  BY <1>1, <1>2 DEF Left
<1>4. TicksLeft' = [TicksLeft EXCEPT ![t] = Off]
  BY <1>3, OneChanges
<1> QED  BY <1>2, <1>4 DEF A!Cancel, TicksLeft

LEMMA ElapseAlarm ==
  ASSUME BeforeTheWrap, TimerInv, NEW n \in 0..MaxLate, Announce(n)
  PROVE  A!Elapse(n)
<1>1. /\ IF phase' = "flush" THEN cur' = cur + n - (TickMax + 1) ELSE cur' = cur + n
      /\ phase = "idle" /\ phase' \in {"flush", "due"}
  BY AnnounceInv
<1>2. link' = link /\ timeout' = timeout /\ firing' = firing
  BY DEF Announce, listVars
<1>3. n \in Int /\ cur \in Int /\ TickMax \in Int /\ timeout \in [Timer -> Int]
  BY TimerAssumption DEF TimerInv, ClockTypes, Tick
<1>4. \A t \in Timer : Left(t)' = IF Armed(t) THEN Left(t) - n ELSE Off
  <2> TAKE t \in Timer
  <2>1. Armed(t)' = Armed(t)
    BY <1>2 DEF Armed
  <2>2. CASE ~Armed(t)
    BY <2>1, <2>2 DEF Left
  <2>3. CASE Armed(t)
    <3>1. Left(t) = timeout[t] - cur
      BY <1>1, <2>3 DEF Left
    <3>2. CASE phase' = "flush"
      <4>1. Left(t)' = timeout[t] - cur' - (TickMax + 1)
        BY <1>2, <2>1, <2>3, <3>2 DEF Left
      <4> QED  BY <1>1, <1>3, <2>3, <3>1, <3>2, <4>1
    <3>3. CASE phase' = "due"
      <4>1. Left(t)' = timeout[t] - cur'
        BY <1>2, <2>1, <2>3, <3>3 DEF Left
      <4> QED  BY <1>1, <1>3, <2>3, <3>1, <3>3, <4>1
    <3> QED  BY <1>1, <3>2, <3>3
  <2> QED  BY <2>2, <2>3
<1>5. A!Armed = {t \in Timer : Armed(t)}
  BY ArmedAlarms
<1>6. \A t \in Timer : Left(t)' = IF t \in A!Armed THEN TicksLeft[t] - n ELSE Off
  BY <1>4, <1>5 DEF TicksLeft
<1>7. TicksLeft' = [t \in Timer |-> IF t \in A!Armed THEN TicksLeft[t] - n ELSE Off]
  BY <1>6 DEF TicksLeft
<1> QED  BY <1>1, <1>2, <1>7 DEF A!Elapse, TicksLeft

LEMMA ExpireAlarm ==
  ASSUME TimerInv, Fire
  PROVE  First \in Timer /\ A!Expire(First)
<1> PICK t : t = First
  OBVIOUS
<1>1. /\ t \in Timer /\ Armed(t) /\ firing = Off /\ firing' = t
      /\ \A u \in Timer : Armed(u)' <=> Armed(u) /\ u # t
      /\ \A u \in Timer : Armed(u) => timeout[t] <= timeout[u]
      /\ \/ phase = "flush" /\ phase' = "flush_func"
         \/ phase = "due" /\ phase' = "due_func" /\ timeout[t] <= cur
      /\ timeout' = timeout /\ cur' = cur
  BY FireInv
<1>2. cur \in Nat /\ TickMax \in Nat /\ \A u \in Timer : timeout[u] \in Nat /\ timeout[u] <= TickMax
  BY TimerFacts DEF TimerInv, ClockTypes
<1>3. A!Armed = {u \in Timer : Armed(u)}
  BY ArmedAlarms
<1>4. Left(t) <= 0
  <2>1. CASE phase = "flush"
    <3>1. Left(t) = timeout[t] - cur - (TickMax + 1)
      BY <1>1, <2>1 DEF Left
    <3> QED  BY <1>1, <1>2, <3>1
  <2>2. CASE phase = "due" /\ timeout[t] <= cur
    <3>1. Left(t) = timeout[t] - cur
      BY <1>1, <2>2 DEF Left
    <3> QED  BY <1>1, <1>2, <2>2, <3>1
  <2> QED  BY <1>1, <2>1, <2>2
<1>5. \A u \in A!Armed : Left(t) <= Left(u)
  <2> SUFFICES ASSUME NEW u \in Timer, Armed(u) PROVE Left(t) <= Left(u)
    BY <1>3
  <2>1. timeout[t] <= timeout[u] /\ timeout[u] \in Nat /\ timeout[t] \in Nat
    BY <1>1, <1>2
  <2>2. CASE phase = "flush"
    <3>1. Left(t) = timeout[t] - cur - (TickMax + 1) /\ Left(u) = timeout[u] - cur - (TickMax + 1)
      BY <1>1, <2>2 DEF Left
    <3> QED  BY <1>2, <2>1, <3>1
  <2>3. CASE phase = "due"
    <3>1. Left(t) = timeout[t] - cur /\ Left(u) = timeout[u] - cur
      BY <1>1, <2>3 DEF Left
    <3> QED  BY <1>2, <2>1, <3>1
  <2> QED  BY <1>1, <2>2, <2>3
<1>6. \A u \in Timer : Left(u)' = IF u = t THEN Off ELSE Left(u)
  <2>1. phase' \in {"flush", "flush_func"} <=> phase \in {"flush", "flush_func"}
    BY <1>1
  <2> QED  BY <1>1, <2>1 DEF Left
<1>7. TicksLeft' = [TicksLeft EXCEPT ![t] = Off]
  BY <1>1, <1>6, OneChanges
<1>8. t \in A!Armed
  BY <1>1, <1>3
<1>9. \A u \in A!Armed : TicksLeft[t] <= TicksLeft[u]
  BY <1>1, <1>3, <1>5 DEF TicksLeft
<1>10. TicksLeft[t] <= 0
  BY <1>1, <1>4 DEF TicksLeft
<1>11. ({firing} \cap Periodic)' = ({firing} \cap Periodic) \cup ({t} \cap Periodic)
  BY <1>1, TimerFacts
<1>12. phase # "idle" /\ (phase # "idle")' = (phase # "idle")
  BY <1>1
<1>13. A!Expire(t)
  BY <1>7, <1>8, <1>9, <1>10, <1>11, <1>12 DEF A!Expire, TicksLeft
<1> QED  BY <1>1, <1>13

LEMMA RearmAlarm ==
  ASSUME BeforeTheWrap, TimerInv, Fired
  PROVE  (\E t \in Timer, d \in Delay : A!Rearm(t, d)) \/ UNCHANGED A!vars
<1>1. /\ firing \in Timer /\ ~Armed(firing) /\ firing' = Off /\ cur' = cur
      /\ \/ phase = "flush_func" /\ phase' = "flush" /\ firing \notin Periodic
         \/ phase = "due_func" /\ phase' = "due"
      /\ IF firing \in Periodic
         THEN init[firing] \in Delay /\ Starts(firing, init[firing])
         ELSE link' = link /\ timeout' = timeout
  BY FiredInv
<1>2. /\ phase # "idle" /\ (phase # "idle")' = (phase # "idle")
      /\ phase' \in {"flush", "flush_func"} <=> phase \in {"flush", "flush_func"}
  BY <1>1
<1>3. CASE firing \in Periodic
  <2> PICK t, d : t = firing /\ d = init[firing]
    OBVIOUS
  <2>1. d \in Delay /\ Starts(t, d) /\ phase' = "due" /\ phase = "due_func"
    BY <1>1, <1>3
  <2>2. d \in Nat /\ cur \in Nat /\ timeout \in [Timer -> Tick]
    BY <2>1, TimerFacts DEF TimerInv, ClockTypes
  <2>3. \A u \in Timer : Left(u)' = IF u = t THEN A!Ticks(d) ELSE Left(u)
    <3> TAKE u \in Timer
    <3>1. CASE u = t
      <4>1. Armed(u)' /\ timeout'[u] = cur + (IF d < 1 THEN 1 ELSE d)
        BY <2>1, <2>2, <3>1 DEF Starts
      <4>2. Left(u)' = timeout'[u] - cur
        BY <1>1, <2>1, <4>1 DEF Left
      <4>3. A!Ticks(d) = IF d < 1 THEN 1 ELSE d
        BY <2>2 DEF A!Ticks
      <4> QED  BY <2>2, <3>1, <4>1, <4>2, <4>3
    <3>2. CASE u # t
      <4>1. Armed(u)' = Armed(u) /\ timeout'[u] = timeout[u]
        BY <2>1, <2>2, <3>2 DEF Starts, Armed
      <4> QED  BY <1>1, <2>1, <3>2, <4>1 DEF Left
    <3> QED  BY <3>1, <3>2
  <2>4. TicksLeft' = [TicksLeft EXCEPT ![t] = A!Ticks(d)]
    BY <1>1, <2>3, OneChanges
  <2>5. t \in {firing} \cap Periodic /\ ({firing} \cap Periodic)' = ({firing} \cap Periodic) \ {t}
    BY <1>1, <1>3, TimerFacts
  <2>6. A!Rearm(t, d)
    BY <1>2, <2>4, <2>5 DEF A!Rearm, TicksLeft
  <2> QED  BY <1>1, <2>1, <2>6
<1>4. CASE firing \notin Periodic
  <2>1. link' = link /\ timeout' = timeout
    BY <1>1, <1>4
  <2>2. \A u \in Timer : Left(u)' = Left(u)
    BY <1>1, <1>2, <2>1 DEF Left, Armed
  <2>3. TicksLeft' = TicksLeft
    BY <2>2 DEF TicksLeft
  <2>4. ({firing} \cap Periodic)' = {firing} \cap Periodic
    BY <1>1, <1>4, TimerFacts
  <2> QED  BY <1>2, <2>3, <2>4 DEF A!vars, TicksLeft
<1> QED  BY <1>3, <1>4

LEMMA FlushedAlarm ==
  ASSUME TimerInv, Flushed
  PROVE  UNCHANGED A!vars
<1>1. /\ \A t \in Timer : ~Armed(t) /\ ~Armed(t)'
      /\ phase = "flush" /\ phase' = "due" /\ firing' = firing
  BY FlushedInv
<1>2. \A t \in Timer : Left(t)' = Left(t)
  BY <1>1 DEF Left
<1>3. TicksLeft' = TicksLeft
  BY <1>2 DEF TicksLeft
<1>4. (phase # "idle")' = (phase # "idle")
  BY <1>1
<1> QED  BY <1>1, <1>3, <1>4 DEF A!vars, TicksLeft

LEMMA ReturnAlarm ==
  ASSUME TimerInv, Announced
  PROVE  A!Return
<1>1. /\ \A t \in Timer : Armed(t) => timeout[t] > cur
      /\ phase = "due" /\ phase' = "idle" /\ firing = Off /\ firing' = Off
      /\ link' = link /\ timeout' = timeout /\ cur' = cur
  BY AnnouncedInv
<1>2. \A t \in Timer : Left(t)' = Left(t)
  BY <1>1 DEF Left, Armed
<1>3. TicksLeft' = TicksLeft
  BY <1>2 DEF TicksLeft
<1>4. \A t \in A!Armed : TicksLeft[t] > 0
  <2>1. A!Armed = {t \in Timer : Armed(t)}
    BY ArmedAlarms
  <2> SUFFICES ASSUME NEW t \in Timer, Armed(t) PROVE Left(t) > 0
    BY <2>1 DEF TicksLeft
  <2>2. Left(t) = timeout[t] - cur
    BY <1>1 DEF Left
  <2>3. timeout[t] \in Nat /\ cur \in Nat
    BY TimerFacts DEF TimerInv, ClockTypes
  <2> QED  BY <1>1, <2>2, <2>3
<1>5. {firing} \cap Periodic = {} /\ ({firing} \cap Periodic)' = {firing} \cap Periodic
  BY <1>1, TimerFacts
<1>6. phase # "idle" /\ (phase # "idle")' = FALSE
  BY <1>1
<1> QED  BY <1>3, <1>4, <1>5, <1>6 DEF A!Return, TicksLeft

LEMMA AlarmInit == Init => A!Init
<1> SUFFICES ASSUME Init PROVE A!Init
  OBVIOUS
<1>1. \A t \in Timer : ~Armed(t)
  BY DEF Init, Armed, Alone, Node
<1>2. [t \in Timer |-> Left(t)] = [t \in Timer |-> Off]
  BY <1>1 DEF Left
<1>3. phase = "idle" /\ firing = Off
  BY DEF Init
<1> QED  BY <1>2, <1>3, TimerFacts DEF A!Init

LEMMA AlarmStep ==
  ASSUME BeforeTheWrap, TimerInv, [Next]_vars
  PROVE  [A!Next]_(A!vars)
<1>1. ASSUME NEW t \in Timer, NEW d \in Delay, Start(t, d) PROVE A!Next
  BY <1>1, StartAlarm DEF A!Next
<1>2. ASSUME NEW t \in Timer, Delete(t) PROVE A!Next
  BY <1>2, CancelAlarm DEF A!Next
<1>3. ASSUME NEW n \in 0..MaxLate, Announce(n) PROVE A!Next
  BY <1>3, ElapseAlarm DEF A!Next
<1>4. CASE Fire
  BY <1>4, ExpireAlarm DEF A!Next
<1>5. CASE Fired
  BY <1>5, RearmAlarm DEF A!Next
<1>6. CASE Flushed
  BY <1>6, FlushedAlarm
<1>7. CASE Announced
  BY <1>7, ReturnAlarm DEF A!Next
<1>8. CASE UNCHANGED vars
  <2>1. link' = link /\ timeout' = timeout /\ cur' = cur /\ phase' = phase /\ firing' = firing
    BY <1>8 DEF vars, listVars, clockVars, callVars
  <2>2. \A t \in Timer : Left(t)' = Left(t)
    BY <2>1 DEF Left, Armed
  <2>3. TicksLeft' = TicksLeft
    BY <2>2 DEF TicksLeft
  <2> QED  BY <2>1, <2>3 DEF A!vars, TicksLeft
<1> QED  BY <1>1, <1>2, <1>3, <1>4, <1>5, <1>6, <1>7, <1>8 DEF Next

(* The linked lists implement the alarm clock (ImplementsAlarm): no timer   *)
(* fires before its tick, out of order or twice, the tick interrupt does    *)
(* not return while one is due, also when the counter wraps in it, and      *)
(* deletes from callbacks lose none, for any set of timers and delays, as   *)
(* long as no timeout lies beyond the wrap of the counter.                  *)
THEOREM TimersImplementAlarm == BeforeTheWrap => (Spec => ImplementsAlarm)
<1> SUFFICES ASSUME BeforeTheWrap PROVE Spec => ImplementsAlarm
  OBVIOUS
<1>1. Init => TimerInv /\ A!Init
  BY TimerInit, AlarmInit
<1>2. TimerInv /\ [Next]_vars => TimerInv'
  BY TimerStep
<1>3. TimerInv /\ [Next]_vars => [A!Next]_(A!vars)
  BY AlarmStep
<1> QED  BY <1>1, <1>2, <1>3, PTL DEF Spec, ImplementsAlarm, A!Spec
=============================================================================
