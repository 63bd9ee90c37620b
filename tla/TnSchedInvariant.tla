-------------------------- MODULE TnSchedInvariant --------------------------
(***************************************************************************)
(* Safety of the thread kernel for any set of threads, wait queues and     *)
(* priorities: what the operations on its queues do, the inductive         *)
(* invariant IInv, and why the scheduling and blocking calls keep it.      *)
(* TnSchedProofs goes on with the other steps.                             *)
(***************************************************************************)
EXTENDS TnSched, SequenceTheorems, WellFoundedInduction, TLAPS

-----------------------------------------------------------------------------
(***************************************************************************)
(* The priority queues: insertion and unlinking keep a queue sorted, free  *)
(* of duplicates, and change its elements as they should, for any          *)
(* priorities and any length.                                              *)
(***************************************************************************)

(* What LinkBefore, the splice of runq_tailq_add, leaves where. *)
LEMMA LinkBeforeFacts ==
  ASSUME NEW S, NEW s \in Seq(S), NEW e \in S, NEW i \in 1..(Len(s) + 1)
  PROVE  /\ LinkBefore(s, i, e) \in Seq(S)
         /\ Len(LinkBefore(s, i, e)) = Len(s) + 1
         /\ \A j \in 1..(Len(s) + 1) :
              /\ j < i => LinkBefore(s, i, e)[j] = s[j]
              /\ j = i => LinkBefore(s, i, e)[j] = e
              /\ j > i => LinkBefore(s, i, e)[j] = s[j - 1]
<1> DEFINE a == SubSeq(s, 1, i - 1)
           c == SubSeq(s, i, Len(s))
<1>0. Len(s) \in Nat /\ i \in Int /\ \A j \in 1..Len(s) : s[j] \in S
  BY LenProperties
<1>1. /\ a \in Seq(S) /\ Len(a) = i - 1
      /\ \A j \in 1..(i - 1) : a[j] = s[j]
  <2>1. \A j \in 1..(i - 1) : s[j] \in S
    BY <1>0
  <2>2. QED
    BY <1>0, <2>1, SubSeqProperties
<1>2. /\ c \in Seq(S) /\ Len(c) = Len(s) + 1 - i
      /\ \A j \in 1..(Len(s) + 1 - i) : c[j] = s[i + j - 1]
  <2>1. \A j \in i..Len(s) : s[j] \in S
    BY <1>0
  <2>2. QED
    BY <1>0, <2>1, SubSeqProperties
<1> DEFINE b == <<e>>
<1>b. b \in Seq(S) /\ Len(b) = 1 /\ b[1] = e
  OBVIOUS
<1> HIDE DEF a, b, c
<1> DEFINE ab == a \o b
           abc == ab \o c
<1>3. /\ ab \in Seq(S)
      /\ Len(ab) = i
      /\ \A j \in 1..(i - 1) : ab[j] = s[j]
      /\ ab[i] = e
  <2>1. /\ ab \in Seq(S)
        /\ Len(ab) = Len(a) + Len(b)
        /\ \A j \in 1..(Len(a) + Len(b)) :
             ab[j] = IF j <= Len(a) THEN a[j] ELSE b[j - Len(a)]
    BY <1>1, <1>b, ConcatProperties
  <2> HIDE DEF ab
  <2>2. ab[i] = b[i - Len(a)] /\ i - Len(a) = 1
    BY <1>0, <1>1, <1>b, <2>1
  <2>3. ab[i] = e
    BY <1>b, <2>2
  <2>4. Len(ab) = i
    BY <1>0, <1>1, <1>b, <2>1
  <2>5. \A j \in 1..(i - 1) : ab[j] = s[j]
    BY <1>0, <1>1, <1>b, <2>1
  <2>6. QED
    BY <2>1, <2>3, <2>4, <2>5
<1> HIDE DEF ab
<1>4. /\ abc \in Seq(S)
      /\ Len(abc) = Len(s) + 1
      /\ \A j \in 1..i : abc[j] = ab[j]
      /\ \A j \in (i + 1)..(Len(s) + 1) : abc[j] = c[j - i]
  <2>1. /\ abc \in Seq(S)
        /\ Len(abc) = Len(ab) + Len(c)
        /\ \A j \in 1..(Len(ab) + Len(c)) :
             abc[j] = IF j <= Len(ab) THEN ab[j] ELSE c[j - Len(ab)]
    BY <1>2, <1>3, ConcatProperties
  <2> HIDE DEF abc
  <2>2. QED
    BY <1>0, <1>2, <1>3, <2>1
<1> HIDE DEF abc
<1>5. \A j \in (i + 1)..(Len(s) + 1) : c[j - i] = s[j - 1]
  BY <1>0, <1>2
<1>6. LinkBefore(s, i, e) = abc
  BY DEF LinkBefore, a, b, c, ab, abc
<1>7. QED
  BY <1>0, <1>3, <1>4, <1>5, <1>6

(* What UnlinkAt, the unlinking of runq_tailq_remove, leaves where. *)
LEMMA UnlinkAtFacts ==
  ASSUME NEW S, NEW s \in Seq(S), NEW i \in 1..Len(s)
  PROVE  /\ UnlinkAt(s, i) \in Seq(S)
         /\ Len(UnlinkAt(s, i)) = Len(s) - 1
         /\ \A j \in 1..(Len(s) - 1) :
              /\ j < i => UnlinkAt(s, i)[j] = s[j]
              /\ j >= i => UnlinkAt(s, i)[j] = s[j + 1]
<1> DEFINE a == SubSeq(s, 1, i - 1)
           c == SubSeq(s, i + 1, Len(s))
<1>0. Len(s) \in Nat /\ i \in Int /\ \A j \in 1..Len(s) : s[j] \in S
  BY LenProperties
<1>1. /\ a \in Seq(S) /\ Len(a) = i - 1
      /\ \A j \in 1..(i - 1) : a[j] = s[j]
  <2>1. \A j \in 1..(i - 1) : s[j] \in S
    BY <1>0
  <2>2. QED
    BY <1>0, <2>1, SubSeqProperties
<1>2. /\ c \in Seq(S) /\ Len(c) = Len(s) - i
      /\ \A j \in 1..(Len(s) - i) : c[j] = s[i + j]
  <2>1. \A j \in (i + 1)..Len(s) : s[j] \in S
    BY <1>0
  <2>2. QED
    BY <1>0, <2>1, SubSeqProperties
<1> HIDE DEF a, c
<1>3. /\ a \o c \in Seq(S)
      /\ Len(a \o c) = Len(s) - 1
      /\ \A j \in 1..(i - 1) : (a \o c)[j] = a[j]
      /\ \A j \in i..(Len(s) - 1) : (a \o c)[j] = c[j - (i - 1)]
  BY <1>0, <1>1, <1>2, ConcatProperties
<1>4. \A j \in i..(Len(s) - 1) : c[j - (i - 1)] = s[j + 1]
  BY <1>0, <1>2
<1>5. UnlinkAt(s, i) = a \o c
  BY DEF UnlinkAt, a, c
<1>6. QED
  BY <1>0, <1>1, <1>3, <1>4, <1>5

(* InsertPosition is the first place whose element ranks below t. *)
LEMMA InsertPositionFacts ==
  ASSUME NEW S, NEW q \in Seq(S), NEW pr \in [S -> Int], NEW t \in S
  PROVE  /\ InsertPosition(q, pr, t) \in 1..(Len(q) + 1)
         /\ \A j \in 1..Len(q) : j < InsertPosition(q, pr, t) => pr[q[j]] >= pr[t]
         /\ InsertPosition(q, pr, t) <= Len(q) => pr[q[InsertPosition(q, pr, t)]] < pr[t]
<1> DEFINE lower == LowerPositions(q, pr, t)
<1>0. Len(q) \in Nat /\ \A j \in 1..Len(q) : q[j] \in S /\ pr[q[j]] \in Int
  BY LenProperties
<1>1. CASE lower = {}
  <2>1. InsertPosition(q, pr, t) = Len(q) + 1
    BY <1>1 DEF InsertPosition
  <2>2. \A j \in 1..Len(q) : pr[q[j]] >= pr[t]
    BY <1>0, <1>1 DEF LowerPositions
  <2>3. QED
    BY <1>0, <2>1, <2>2
<1>2. CASE lower # {}
  <2>1. \E i \in lower : \A j \in lower : ~(<<j, i>> \in OpToRel(<, Nat))
    <3>1. lower \subseteq Nat
      BY <1>0 DEF LowerPositions
    <3>2. QED
      BY <1>2, <3>1, NatLessThanWellFounded, WFMin
  <2>2. \E i \in lower : \A j \in lower : i <= j
    <3>1. lower \subseteq Nat
      BY <1>0 DEF LowerPositions
    <3>2. OpToRel(<, Nat) = {ss \in Nat \X Nat : ss[1] < ss[2]}
      BY Zenon DEF OpToRel
    <3>3. \A i, j \in Nat : i < j => <<i, j>> \in {ss \in Nat \X Nat : ss[1] < ss[2]}
      BY SMT
    <3>4. \A i, j \in Nat : i < j => <<i, j>> \in OpToRel(<, Nat)
      BY <3>2, <3>3, Zenon
    <3>5. \A i, j \in Nat : ~(j < i) => i <= j
      BY SMT
    <3>6. QED
      BY <2>1, <3>1, <3>4, <3>5, Zenon
  <2>3. /\ InsertPosition(q, pr, t) \in lower
        /\ \A j \in lower : InsertPosition(q, pr, t) <= j
    BY <1>2, <2>2 DEF InsertPosition
  <2>4. QED
    BY <1>0, <2>3 DEF LowerPositions
<1>3. QED
  BY <1>1, <1>2

(* x is one of the first n elements of q. *)
Occurs(q, n, x) == \E i \in 1..n : q[i] = x

(* The elements of a sequence are its values. *)
LEMMA RangeOfQueue ==
  ASSUME NEW S, NEW q \in Seq(S)
  PROVE  /\ \A x : x \in Range(q) <=> Occurs(q, Len(q), x)
         /\ Range(q) \subseteq S
         /\ IsInjective(q) <=> \A i, j \in 1..Len(q) : q[i] = q[j] => i = j
<1>1. DOMAIN q = 1..Len(q) /\ \A i \in 1..Len(q) : q[i] \in S
  BY LenProperties
<1>2. QED
  BY <1>1 DEF Range, IsInjective, Occurs

(* r is q, of length n, with t spliced in at position k. *)
Spliced(q, r, n, k, t) ==
  /\ \A j \in 1..(n + 1) : j < k => r[j] = q[j]
  /\ r[k] = t
  /\ \A j \in 1..(n + 1) : j > k => r[j] = q[j - 1]

(* The elements after splicing, their distinctness, and their order. *)
LEMMA SpliceElements ==
  ASSUME NEW n \in Nat, NEW k \in 1..(n + 1), NEW q, NEW r, NEW t,
         Spliced(q, r, n, k, t), NEW x
  PROVE  Occurs(r, n + 1, x) <=> x = t \/ Occurs(q, n, x)
<1> USE DEF Spliced, Occurs
<1>1. ASSUME NEW j \in 1..(n + 1), r[j] = x
      PROVE  x = t \/ Occurs(q, n, x)
  <2>1. CASE j < k
    <3>1. j \in 1..n
      BY <2>1
    <3>2. QED
      BY <1>1, <2>1, <3>1
  <2>2. CASE j = k
    BY <1>1, <2>2
  <2>3. CASE j > k
    <3>1. j - 1 \in 1..n
      BY <2>3
    <3>2. QED
      BY <1>1, <2>3, <3>1
  <2>4. QED
    BY <2>1, <2>2, <2>3
<1>2. ASSUME NEW i \in 1..n, q[i] = x
      PROVE  Occurs(r, n + 1, x)
  <2>1. CASE i < k
    BY <1>2, <2>1
  <2>2. CASE i >= k
    <3>1. i + 1 \in 1..(n + 1) /\ i + 1 > k /\ (i + 1) - 1 = i
      BY <2>2
    <3>2. r[i + 1] = q[(i + 1) - 1]
      BY <3>1
    <3>3. QED
      BY <1>2, <3>1, <3>2
  <2>3. QED
    BY <2>1, <2>2
<1>3. QED
  BY <1>1, <1>2

(* Splicing a new element between the elements of a queue without           *)
(* repetitions (the list insertion of runq_tailq_add) creates no            *)
(* repetition.                                                              *)
LEMMA SpliceInjective ==
  ASSUME NEW n \in Nat, NEW k \in 1..(n + 1), NEW q, NEW r, NEW t,
         Spliced(q, r, n, k, t),
         \A i, j \in 1..n : q[i] = q[j] => i = j,
         \A i \in 1..n : q[i] # t
  PROVE  \A i, j \in 1..(n + 1) : r[i] = r[j] => i = j
<1> USE DEF Spliced
<1> DEFINE at(j) == IF j < k THEN j ELSE j - 1
<1>1. \A j \in 1..(n + 1) : j # k => at(j) \in 1..n /\ r[j] = q[at(j)]
  OBVIOUS
<1>2. \A i, j \in 1..(n + 1) : i # k /\ j # k /\ at(i) = at(j) => i = j
  OBVIOUS
<1> HIDE DEF at
<1>3. SUFFICES ASSUME NEW i \in 1..(n + 1), NEW j \in 1..(n + 1), r[i] = r[j]
               PROVE  i = j
  OBVIOUS
<1>4. CASE i # k /\ j # k
  BY <1>1, <1>2, <1>3, <1>4
<1>5. CASE i = k \/ j = k
  BY <1>1, <1>3, <1>5
<1>6. QED
  BY <1>4, <1>5

(* Splicing a value between those that are at least as large and the first  *)
(* smaller one keeps a descending order: why the loop of runq_tailq_add     *)
(* keeps its queue sorted.                                                  *)
LEMMA SpliceSorted ==
  ASSUME NEW n \in Nat, NEW k \in 1..(n + 1), NEW v, NEW w, NEW x \in Int,
         \A j \in 1..n : v[j] \in Int,
         Spliced(v, w, n, k, x),
         \A i, j \in 1..n : i < j => v[i] >= v[j],
         \A j \in 1..n : j < k => v[j] >= x,
         k <= n => v[k] < x
  PROVE  \A i, j \in 1..(n + 1) : i < j => w[i] >= w[j]
<1> USE DEF Spliced
<1> DEFINE at(j) == IF j < k THEN j ELSE j - 1
<1>1. \A j \in 1..(n + 1) : j # k => at(j) \in 1..n /\ w[j] = v[at(j)]
  OBVIOUS
<1>2. \A j \in 1..n : j >= k => v[j] <= x
  OBVIOUS
<1>3. \A i, j \in 1..(n + 1) : i # k /\ j # k /\ i < j => at(i) < at(j)
  OBVIOUS
<1>4. \A j \in 1..(n + 1) : (j < k => at(j) < k) /\ (j > k => at(j) >= k)
  OBVIOUS
<1> HIDE DEF at
<1>5. SUFFICES ASSUME NEW i \in 1..(n + 1), NEW j \in 1..(n + 1), i < j
               PROVE  w[i] >= w[j]
  OBVIOUS
<1>6. CASE i # k /\ j # k
  BY <1>1, <1>3, <1>5, <1>6
<1>7. CASE i = k
  BY <1>1, <1>2, <1>4, <1>5, <1>7
<1>8. CASE j = k
  BY <1>1, <1>4, <1>5, <1>8
<1>9. QED
  BY <1>6, <1>7, <1>8

(* runq_tailq_add and waitq_list_add: the element joins the queue, nothing  *)
(* else changes, no duplicate appears and the order is kept.                *)
THEOREM PrioInsertCorrect ==
  ASSUME NEW S, NEW q \in Seq(S), NEW pr \in [S -> Int], NEW t \in S
  PROVE  /\ PrioInsert(q, pr, t) \in Seq(S)
         /\ Range(PrioInsert(q, pr, t)) = Range(q) \cup {t}
         /\ IsInjective(q) /\ t \notin Range(q) => IsInjective(PrioInsert(q, pr, t))
         /\ Sorted(q, pr) => Sorted(PrioInsert(q, pr, t), pr)
<1> DEFINE n == Len(q)
           k == InsertPosition(q, pr, t)
           r == PrioInsert(q, pr, t)
<1>1. n \in Nat /\ \A i \in 1..n : q[i] \in S
  BY LenProperties
<1>2. /\ k \in 1..(n + 1)
      /\ \A j \in 1..n : j < k => pr[q[j]] >= pr[t]
      /\ k <= n => pr[q[k]] < pr[t]
  BY InsertPositionFacts
<1>3. /\ r \in Seq(S)
      /\ Len(r) = n + 1
      /\ \A j \in 1..(n + 1) :
           /\ j < k => r[j] = q[j]
           /\ j = k => r[j] = t
           /\ j > k => r[j] = q[j - 1]
  <2>1. r = LinkBefore(q, k, t)
    BY DEF PrioInsert
  <2> HIDE DEF k, r
  <2>2. /\ LinkBefore(q, k, t) \in Seq(S)
        /\ Len(LinkBefore(q, k, t)) = Len(q) + 1
        /\ \A j \in 1..(Len(q) + 1) :
             /\ j < k => LinkBefore(q, k, t)[j] = q[j]
             /\ j = k => LinkBefore(q, k, t)[j] = t
             /\ j > k => LinkBefore(q, k, t)[j] = q[j - 1]
    BY <1>2, LinkBeforeFacts
  <2>3. QED
    BY <2>1, <2>2
<1>4. /\ \A x : x \in Range(q) <=> Occurs(q, n, x)
      /\ IsInjective(q) <=> \A i, j \in 1..n : q[i] = q[j] => i = j
  BY RangeOfQueue
<1>5. /\ \A x : x \in Range(r) <=> Occurs(r, n + 1, x)
      /\ IsInjective(r) <=> \A i, j \in 1..(n + 1) : r[i] = r[j] => i = j
  <2> HIDE DEF r, n
  <2>1. /\ \A x : x \in Range(r) <=> Occurs(r, Len(r), x)
        /\ IsInjective(r) <=> \A i, j \in 1..Len(r) : r[i] = r[j] => i = j
    BY <1>3, RangeOfQueue
  <2>2. QED
    BY <1>3, <2>1
<1>6. Spliced(q, r, n, k, t)
  <2> HIDE DEF r, n, k
  <2>1. QED
    BY <1>2, <1>3 DEF Spliced
<1>7. Sorted(q, pr) <=> \A i, j \in 1..n : i < j => pr[q[i]] >= pr[q[j]]
  BY DEF Sorted
<1>8. Sorted(r, pr) <=> \A i, j \in 1..(n + 1) : i < j => pr[r[i]] >= pr[r[j]]
  <2> HIDE DEF r, n
  <2>1. QED
    BY <1>3 DEF Sorted
<1> HIDE DEF r, n, k
<1>9. Range(r) = Range(q) \cup {t}
  <2>1. \A x : Occurs(r, n + 1, x) <=> x = t \/ Occurs(q, n, x)
    BY <1>1, <1>2, <1>6, SpliceElements
  <2>2. QED
    BY <1>4, <1>5, <2>1
<1>10. IsInjective(q) /\ t \notin Range(q) => IsInjective(r)
  <2>1. SUFFICES ASSUME \A i, j \in 1..n : q[i] = q[j] => i = j,
                        \A i \in 1..n : q[i] # t
                 PROVE  \A i, j \in 1..(n + 1) : r[i] = r[j] => i = j
    BY <1>4, <1>5 DEF Occurs
  <2>2. QED
    BY <1>1, <1>2, <1>6, <2>1, SpliceInjective
<1>11. Sorted(q, pr) => Sorted(r, pr)
  <2>1. SUFFICES ASSUME \A i, j \in 1..n : i < j => pr[q[i]] >= pr[q[j]]
                 PROVE  \A i, j \in 1..(n + 1) : i < j => pr[r[i]] >= pr[r[j]]
    BY <1>7, <1>8
  <2> DEFINE v == [i \in 1..n |-> pr[q[i]]]
             w == [i \in 1..(n + 1) |-> pr[r[i]]]
             x == pr[t]
  <2>2. /\ x \in Int
        /\ \A j \in 1..n : v[j] = pr[q[j]] /\ v[j] \in Int
        /\ \A j \in 1..(n + 1) : w[j] = pr[r[j]]
        /\ \A j \in 1..(n + 1) : j < k => j \in 1..n
        /\ \A j \in 1..(n + 1) : j > k => (j - 1) \in 1..n
        /\ k <= n => k \in 1..n
    BY <1>1, <1>2
  <2> HIDE DEF v, w
  <2>3. \A j \in 1..n : v[j] \in Int
    BY <2>2
  <2>4. Spliced(v, w, n, k, x)
    <3>1. \A j \in 1..(n + 1) : j < k => w[j] = v[j]
      BY <1>6, <2>2 DEF Spliced
    <3>2. w[k] = x
      BY <1>2, <1>6, <2>2 DEF Spliced
    <3>3. \A j \in 1..(n + 1) : j > k => w[j] = v[j - 1]
      BY <1>6, <2>2 DEF Spliced
    <3>4. QED
      BY <3>1, <3>2, <3>3 DEF Spliced
  <2>7. \A i, j \in 1..n : i < j => v[i] >= v[j]
    BY <2>1, <2>2
  <2>8. \A j \in 1..n : j < k => v[j] >= x
    BY <1>2, <2>2
  <2>9. k <= n => v[k] < x
    BY <1>2, <2>2
  <2> HIDE DEF x
  <2>10. \A i, j \in 1..(n + 1) : i < j => w[i] >= w[j]
    BY <1>1, <1>2, <2>2, <2>3, <2>4, <2>7, <2>8, <2>9, SpliceSorted
  <2>11. QED
    BY <2>2, <2>10
<1>12. QED
  BY <1>3, <1>9, <1>10, <1>11 DEF r

(* r is q, of length n, without the element at position k. *)
Dropped(q, r, n, k) ==
  /\ \A j \in 1..(n - 1) : j < k => r[j] = q[j]
  /\ \A j \in 1..(n - 1) : j >= k => r[j] = q[j + 1]

(* Position j after dropping position k was position From(k, j) before. *)
From(k, j) == IF j < k THEN j ELSE j + 1

(* After position k is dropped (UK_TAILQ_REMOVE), the elements are those at *)
(* From(k, j), all but the k-th and in the old order.                       *)
LEMMA DroppedFrom ==
  ASSUME NEW n \in Nat, NEW k \in 1..n, NEW q, NEW r, Dropped(q, r, n, k)
  PROVE  /\ \A j \in 1..(n - 1) :
              From(k, j) \in 1..n /\ From(k, j) # k /\ r[j] = q[From(k, j)]
         /\ \A i, j \in 1..(n - 1) : i < j => From(k, i) < From(k, j)
         /\ \A i \in 1..n : i # k => \E j \in 1..(n - 1) : From(k, j) = i
<1> USE DEF Dropped, From
<1>1. \A i \in 1..n : i # k => \E j \in 1..(n - 1) : From(k, j) = i
  <2>1. TAKE i \in 1..n
  <2>2. HAVE i # k
  <2>3. CASE i < k
    <3>1. i \in 1..(n - 1) /\ From(k, i) = i
      BY <2>3
    <3>2. QED
      BY <3>1
  <2>4. CASE i > k
    <3>1. i - 1 \in 1..(n - 1) /\ From(k, i - 1) = i
      BY <2>4
    <3>2. QED
      BY <3>1
  <2>5. QED
    BY <2>2, <2>3, <2>4
<1>2. QED
  BY <1>1

(* Dropping position k of a queue without repetitions removes exactly its   *)
(* element and keeps distinctness and order; UnlinkCorrect and TailCorrect  *)
(* are its two uses.                                                        *)
LEMMA DropCorrect ==
  ASSUME NEW S, NEW q \in Seq(S), NEW r \in Seq(S), NEW k \in 1..Len(q),
         Len(r) = Len(q) - 1, Dropped(q, r, Len(q), k), IsInjective(q)
  PROVE  /\ Range(r) = Range(q) \ {q[k]}
         /\ IsInjective(r)
         /\ \A pr \in [S -> Int] : Sorted(q, pr) => Sorted(r, pr)
<1> DEFINE n == Len(q)
<1>1. n \in Nat
  BY LenProperties
<1>2. /\ \A x : x \in Range(q) <=> Occurs(q, n, x)
      /\ \A i, j \in 1..n : q[i] = q[j] => i = j
  BY RangeOfQueue
<1>3. /\ \A x : x \in Range(r) <=> Occurs(r, n - 1, x)
      /\ IsInjective(r) <=> \A i, j \in 1..(n - 1) : r[i] = r[j] => i = j
  <2>1. /\ \A x : x \in Range(r) <=> Occurs(r, Len(r), x)
        /\ IsInjective(r) <=> \A i, j \in 1..Len(r) : r[i] = r[j] => i = j
    BY RangeOfQueue
  <2> HIDE DEF n
  <2>2. QED
    BY <2>1 DEF n
<1> HIDE DEF n
<1>4. /\ \A j \in 1..(n - 1) :
           From(k, j) \in 1..n /\ From(k, j) # k /\ r[j] = q[From(k, j)]
      /\ \A i, j \in 1..(n - 1) : i < j => From(k, i) < From(k, j)
      /\ \A i \in 1..n : i # k => \E j \in 1..(n - 1) : From(k, j) = i
  BY <1>1, DroppedFrom DEF n
<1>5. k \in 1..n
  BY DEF n
<1>6. \A x : Occurs(r, n - 1, x) <=> Occurs(q, n, x) /\ x # q[k]
  <2>1. ASSUME NEW x, NEW j \in 1..(n - 1), r[j] = x
        PROVE  Occurs(q, n, x) /\ x # q[k]
    BY <1>2, <1>4, <1>5, <2>1 DEF Occurs
  <2>2. ASSUME NEW x, NEW i \in 1..n, q[i] = x, x # q[k]
        PROVE  Occurs(r, n - 1, x)
    BY <1>4, <2>2 DEF Occurs
  <2>3. QED
    BY <2>1, <2>2 DEF Occurs
<1>7. Range(r) = Range(q) \ {q[k]}
  BY <1>2, <1>3, <1>6
<1>8. IsInjective(r)
  <2>1. SUFFICES ASSUME NEW i \in 1..(n - 1), NEW j \in 1..(n - 1), r[i] = r[j]
                 PROVE  i = j
    BY <1>3
  <2>2. From(k, i) = From(k, j)
    BY <1>2, <1>4, <2>1
  <2>3. QED
    BY <1>1, <1>4, <2>2
<1>9. ASSUME NEW pr \in [S -> Int], Sorted(q, pr)
      PROVE  Sorted(r, pr)
  <2>1. SUFFICES ASSUME NEW i \in 1..(n - 1), NEW j \in 1..(n - 1), i < j
                 PROVE  pr[r[i]] >= pr[r[j]]
    BY DEF Sorted, n
  <2>2. \A a, b \in 1..n : a < b => pr[q[a]] >= pr[q[b]]
    BY <1>9 DEF Sorted, n
  <2>3. QED
    BY <1>4, <2>1, <2>2
<1>10. QED
  BY <1>7, <1>8, <1>9

(* runq_tailq_remove and waitq_list_remove: exactly the element leaves. *)
THEOREM UnlinkCorrect ==
  ASSUME NEW S, NEW q \in Seq(S), NEW t \in Range(q), IsInjective(q)
  PROVE  /\ Unlink(q, t) \in Seq(S)
         /\ Range(Unlink(q, t)) = Range(q) \ {t}
         /\ IsInjective(Unlink(q, t))
         /\ \A pr \in [S -> Int] : Sorted(q, pr) => Sorted(Unlink(q, t), pr)
<1> DEFINE k == CHOOSE i \in 1..Len(q) : q[i] = t
           r == Unlink(q, t)
<1>1. \E i \in 1..Len(q) : q[i] = t
  BY RangeOfQueue DEF Occurs
<1>2. k \in 1..Len(q) /\ q[k] = t
  BY <1>1
<1>3. r = UnlinkAt(q, k)
  BY DEF Unlink
<1> HIDE DEF k, r
<1>4. /\ r \in Seq(S)
      /\ Len(r) = Len(q) - 1
      /\ \A j \in 1..(Len(q) - 1) :
           /\ j < k => r[j] = q[j]
           /\ j >= k => r[j] = q[j + 1]
  BY <1>2, <1>3, UnlinkAtFacts
<1>5. Dropped(q, r, Len(q), k)
  BY <1>4 DEF Dropped
<1>6. /\ Range(r) = Range(q) \ {q[k]}
      /\ IsInjective(r)
      /\ \A pr \in [S -> Int] : Sorted(q, pr) => Sorted(r, pr)
  BY <1>2, <1>4, <1>5, DropCorrect
<1>7. QED
  BY <1>2, <1>4, <1>6 DEF r

(* Taking the best waiter off a queue: exactly the head leaves. *)
THEOREM TailCorrect ==
  ASSUME NEW S, NEW q \in Seq(S), q # <<>>, IsInjective(q)
  PROVE  /\ Tail(q) \in Seq(S)
         /\ Head(q) \in Range(q)
         /\ Range(Tail(q)) = Range(q) \ {Head(q)}
         /\ IsInjective(Tail(q))
         /\ \A pr \in [S -> Int] : Sorted(q, pr) => Sorted(Tail(q), pr)
<1> DEFINE r == Tail(q)
<1>1. /\ r \in Seq(S) /\ Len(r) = Len(q) - 1 /\ 1 \in 1..Len(q)
      /\ \A j \in 1..(Len(q) - 1) : r[j] = q[j + 1]
      /\ Head(q) = q[1]
  BY HeadTailProperties, EmptySeq, LenProperties
<1>2. Head(q) \in Range(q)
  BY <1>1, RangeOfQueue DEF Occurs
<1> HIDE DEF r
<1>3. Dropped(q, r, Len(q), 1)
  BY <1>1, LenProperties DEF Dropped
<1>4. /\ Range(r) = Range(q) \ {q[1]}
      /\ IsInjective(r)
      /\ \A pr \in [S -> Int] : Sorted(q, pr) => Sorted(r, pr)
  BY <1>1, <1>3, DropCorrect
<1>5. QED
  BY <1>1, <1>2, <1>4 DEF r

-----------------------------------------------------------------------------
(***************************************************************************)
(* The inductive invariant adds to the checked properties what they rest   *)
(* on: where a thread may stand in the kernel given its flags (Control).   *)
(***************************************************************************)

(* A queue without duplicates, in order of descending priority. *)
QueueOK(q, pr) == q \in Seq(Thread) /\ IsInjective(q) /\ Sorted(q, pr)

Types ==
  /\ live \subseteq Thread /\ attached \subseteq live
  /\ runnable \subseteq live /\ exited \subseteq live
  /\ prio \in [Thread -> Prio]
  /\ waitq \in [WaitQ -> Seq(Thread)]
  /\ timer \in [Thread -> WaitQ \cup {NULL, Off}]
  /\ exitedq \subseteq exited
  /\ current \in Task \cup {NULL}
  /\ pending \in BOOLEAN
  /\ irq \in {"none", "tick", "dev"}
  /\ waking \in WaitQ \cup {NULL}
  /\ kpc \in [Task -> ThreadPc \cup IdlePc]
  /\ target \in [Thread -> Thread \cup {NULL}]
  /\ panic \in {"none", "null_sched"}

(* The run queue holds exactly the threads that could run but do not, and   *)
(* every queue is well formed.                                              *)
Queues ==
  /\ QueueOK(runq, prio)
  /\ Range(runq) = Ready \ {current}
  /\ \A w \in WaitQ : QueueOK(waitq[w], prio)

(* Who waits, and whose timer is armed. *)
Waiters ==
  /\ \A w \in WaitQ : Range(waitq[w]) \subseteq attached \ runnable
  /\ \A w, v \in WaitQ, t \in Thread :
       t \in Range(waitq[w]) /\ t \in Range(waitq[v]) => w = v
  /\ \A t \in Thread : timer[t] = NULL =>
       t \in attached \ runnable /\ \A w \in WaitQ : t \notin Range(waitq[w])
  /\ \A t \in Thread : timer[t] \in WaitQ => t \in Range(waitq[timer[t]])

(* Where a thread stands, given its flags. *)
Control ==
  /\ \A t \in Thread : kpc[t] \in ThreadPc
  /\ kpc[Idle] \in IdlePc
  /\ pending => irq # "none"
  /\ \A t \in attached : t \notin exited /\ kpc[t] \notin {"removed", "exited"}
  /\ \A t \in Thread : kpc[t] = "removed" => t \in runnable /\ t \notin exited
  /\ \A t \in Thread : kpc[t] = "exited" => t \in exited
  /\ \A t \in Thread : t \notin live => kpc[t] = "run"
  /\ current \in Thread =>
       /\ current \in live
       /\ current \in attached \/ kpc[current] \in {"removed", "exited"}
       /\ kpc[current] # "resched" => current \in runnable
  /\ \A t \in exitedq : kpc[t] = "exited" /\ t # current

(* Whom a thread is terminating. *)
Targets ==
  /\ \A s \in Thread : target[s] # NULL <=> kpc[s] \in {"term_removed", "term_exited"}
  /\ \A s \in Thread : target[s] # NULL =>
       /\ target[s] \in live \ attached
       /\ target[s] # current
       /\ kpc[target[s]] \notin {"removed", "exited"}
  /\ \A s, r \in Thread : target[s] # NULL /\ target[s] = target[r] => s = r

IInv == Types /\ Queues /\ Waiters /\ Control /\ Targets

-----------------------------------------------------------------------------
(***************************************************************************)
(* What the queue operations do to a well-formed queue.                    *)
(***************************************************************************)

(* The priorities a thread can have are integers, as the queue theorems ask. *)
LEMMA PrioritiesAreIntegers == [Thread -> Prio] \subseteq [Thread -> Int]
BY ConstantsAssumption DEF Prio

(* An initialised queue (UK_TAILQ_INIT) is in order and has no members.     *)
LEMMA EmptyQueue ==
  ASSUME NEW pr
  PROVE  QueueOK(<<>>, pr) /\ Range(<<>>) = {}
<1>1. <<>> \in Seq(Thread) /\ Len(<<>>) = 0 /\ DOMAIN <<>> = {}
  OBVIOUS
<1>2. Range(<<>>) = {}
  BY <1>1 DEF Range
<1>3. IsInjective(<<>>)
  BY <1>1 DEF IsInjective
<1>4. Sorted(<<>>, pr)
  BY <1>1 DEF Sorted
<1>5. QED
  BY <1>1, <1>2, <1>3, <1>4 DEF QueueOK

(* The members of a queue in order are threads.                             *)
LEMMA QueueMembers ==
  ASSUME NEW q, NEW pr, QueueOK(q, pr)
  PROVE  Range(q) \subseteq Thread
BY RangeOfQueue DEF QueueOK

(* runq_tailq_add and waitq_list_add keep a queue in order and add their    *)
(* thread.                                                                  *)
LEMMA QueueInsert ==
  ASSUME NEW q, NEW pr \in [Thread -> Prio], QueueOK(q, pr),
         NEW t \in Thread, t \notin Range(q)
  PROVE  /\ QueueOK(PrioInsert(q, pr, t), pr)
         /\ Range(PrioInsert(q, pr, t)) = Range(q) \cup {t}
<1>1. pr \in [Thread -> Int]
  BY PrioritiesAreIntegers
<1>2. QED
  BY <1>1, PrioInsertCorrect DEF QueueOK

(* runq_tailq_remove keeps a queue in order and removes its thread.         *)
LEMMA QueueRemove ==
  ASSUME NEW q, NEW pr \in [Thread -> Prio], QueueOK(q, pr), NEW t \in Range(q)
  PROVE  /\ QueueOK(Unlink(q, t), pr)
         /\ Range(Unlink(q, t)) = Range(q) \ {t}
<1>1. pr \in [Thread -> Int]
  BY PrioritiesAreIntegers
<1>2. QED
  BY <1>1, UnlinkCorrect DEF QueueOK

(* Taking the best waiter (the head) off a queue keeps it in order and      *)
(* removes that thread only.                                                *)
LEMMA QueueHead ==
  ASSUME NEW q, NEW pr \in [Thread -> Prio], QueueOK(q, pr), q # <<>>
  PROVE  /\ QueueOK(Tail(q), pr)
         /\ Head(q) \in Range(q)
         /\ Range(Tail(q)) = Range(q) \ {Head(q)}
<1>1. pr \in [Thread -> Int]
  BY PrioritiesAreIntegers
<1>2. QED
  BY <1>1, TailCorrect DEF QueueOK

(* The order of a queue depends on the priorities of its members only. *)
LEMMA QueueReprioritise ==
  ASSUME NEW q, NEW pr, NEW pr2, QueueOK(q, pr),
         \A t \in Range(q) : pr2[t] = pr[t]
  PROVE  QueueOK(q, pr2)
<1>1. \A i \in 1..Len(q) : q[i] \in Range(q)
  BY RangeOfQueue DEF QueueOK, Occurs
<1>2. QED
  BY <1>1 DEF QueueOK, Sorted

-----------------------------------------------------------------------------
(***************************************************************************)
(* What a scheduling decision does.                                        *)
(***************************************************************************)

(* schedprio_schedule: the queue stays well formed, prev is queued when it  *)
(* can still run, and the CPU goes to a member of the queue, stays with a   *)
(* runnable prev, or goes to the idle thread.                               *)
LEMMA ScheduleCorrect ==
  ASSUME NEW q, NEW pr \in [Thread -> Prio], QueueOK(q, pr),
         current \in Task \cup {NULL}, current \notin Range(q),
         runnable \subseteq Thread,
         Schedule(q, pr)
  PROVE  /\ QueueOK(runq', pr)
         /\ \/ current' = Idle
            \/ current' \in Range(q)
            \/ current' = current /\ IsRunnable(current)
         /\ \A t : t \in Range(runq') <=>
              /\ t \in Range(q) \/ (t = current /\ t # Idle /\ IsRunnable(t))
              /\ t # current'
<1> DEFINE next == SelectNext(q, pr, current)
           keep == current # Idle /\ IsRunnable(current)
           added == IF keep THEN PrioInsert(q, pr, current) ELSE q
<1>1. Range(q) \subseteq Thread /\ Idle \notin Range(q)
  BY QueueMembers, ConstantsAssumption
<1>2. keep => current \in Thread
  BY ConstantsAssumption DEF IsRunnable
<1>3. \/ next = current /\ IsRunnable(current)
      \/ next = Idle /\ q = <<>> /\ ~IsRunnable(current)
      \/ q # <<>> /\ next \in Range(q)
  BY QueueHead, Zenon DEF SelectNext
<1>4. /\ QueueOK(added, pr)
      /\ \A t : t \in Range(added) <=> t \in Range(q) \/ (keep /\ t = current)
  <2>1. CASE keep
    BY <1>2, <2>1, QueueInsert
  <2>2. CASE ~keep
    BY <2>2
  <2>3. QED
    BY <2>1, <2>2
<1>5. IF next = current
      THEN runq' = q /\ current' = current
      ELSE runq' = (IF next # Idle THEN Unlink(added, next) ELSE added) /\ current' = next
  BY DEF Schedule, QueueAfterSwitch, RunqAdd, RunqRemove
<1> HIDE DEF next, added
<1>6. CASE next = current
  BY <1>1, <1>3, <1>5, <1>6, Zenon
<1>7. CASE next # current /\ next = Idle
  BY <1>1, <1>3, <1>4, <1>5, <1>7, EmptyQueue, Zenon DEF IsRunnable
<1>8. CASE next # current /\ next # Idle
  <2>1. next \in Range(q) /\ next \in Range(added)
    BY <1>3, <1>4, <1>8, Zenon
  <2>2. QueueOK(Unlink(added, next), pr) /\ Range(Unlink(added, next)) = Range(added) \ {next}
    BY <1>4, <2>1, QueueRemove, Zenon
  <2>3. QED
    BY <1>4, <1>5, <1>8, <2>1, <2>2, Zenon
<1>9. QED
  BY <1>6, <1>7, <1>8, Zenon

(* The same, for a queue that holds exactly the threads that could run. *)
LEMMA Dispatch ==
  ASSUME IInv, NEW q, NEW pr \in [Thread -> Prio], QueueOK(q, pr),
         Range(q) = Ready \ {current},
         Schedule(q, pr)
  PROVE  /\ QueueOK(runq', pr)
         /\ Range(runq') = Ready \ {current'}
         /\ current' = Idle \/ current' \in Ready
<1>1. /\ current \in Task \cup {NULL} /\ current \notin Range(q)
      /\ runnable \subseteq Thread
  BY DEF IInv, Types
<1>2. /\ QueueOK(runq', pr)
      /\ \/ current' = Idle
         \/ current' \in Range(q)
         \/ current' = current /\ IsRunnable(current)
      /\ \A t : t \in Range(runq') <=>
           /\ t \in Range(q) \/ (t = current /\ t # Idle /\ IsRunnable(t))
           /\ t # current'
  BY <1>1, ScheduleCorrect, Zenon
<1>3. current \in Ready <=> current # Idle /\ IsRunnable(current)
  BY ConstantsAssumption DEF IInv, Types, Control, Ready, IsRunnable, Task
<1>4. QED
  BY <1>2, <1>3, Zenon

-----------------------------------------------------------------------------
(***************************************************************************)
(* Steps that leave most of the state alone.                               *)
(***************************************************************************)

(* The flags and the queues of threads are not touched: the current thread  *)
(* asks for a reschedule at most, and the idle thread moves in its loop.    *)
LEMMA FrameStep ==
  ASSUME IInv,
         UNCHANGED <<threadVars, queueVars, current, target>>,
         pending' \in BOOLEAN, irq' \in {"none", "tick", "dev"},
         pending' => irq' # "none",
         waking' \in WaitQ \cup {NULL},
         panic' \in {"none", "null_sched"},
         kpc' \in [Task -> ThreadPc \cup IdlePc], kpc'[Idle] \in IdlePc,
         \A t \in Thread : \/ kpc'[t] = kpc[t]
                           \/ t = current /\ kpc[t] = "run" /\ kpc'[t] = "resched"
  PROVE  IInv'
<1> USE DEF threadVars, queueVars
<1>1. Types'
  BY DEF IInv, Types
<1>2. Queues'
  <2>1. Ready' = Ready
    BY Zenon DEF IInv, Types, Ready
  <2>2. QED
    BY <2>1, Zenon DEF IInv, Queues
<1>3. Waiters'
  BY Zenon DEF IInv, Waiters
<1>4. Control'
  BY DEF IInv, Types, Control, ThreadPc, Task
<1>5. Targets'
  BY DEF IInv, Types, Targets
<1>6. QED
  BY <1>1, <1>2, <1>3, <1>4, <1>5, Zenon DEF IInv

(* The CPU changes hands by a scheduling decision; a thread that asked for  *)
(* it goes back to its own code.                                            *)
LEMMA DispatchStep ==
  ASSUME IInv,
         UNCHANGED <<live, attached, runnable, exited, waitq, timer, exitedq, waking, target>>,
         prio' \in [Thread -> Prio],
         QueueOK(runq', prio'),
         Range(runq') = Ready \ {current'},
         current' = Idle \/ current' \in Ready,
         \A w \in WaitQ : QueueOK(waitq[w], prio'),
         pending' \in BOOLEAN, irq' \in {"none", "tick", "dev"},
         pending' => irq' # "none",
         panic' \in {"none", "null_sched"},
         kpc' \in [Task -> ThreadPc \cup IdlePc], kpc'[Idle] \in IdlePc,
         \A t \in Thread : \/ kpc'[t] = kpc[t]
                           \/ kpc[t] = "resched" /\ kpc'[t] = "run"
  PROVE  IInv'
<1>1. Types'
  BY DEF IInv, Types, Ready, Task
<1>2. Ready' = Ready
  BY DEF IInv, Types, Ready
<1>3. Queues'
  BY <1>2 DEF IInv, Queues
<1>4. Waiters'
  BY Zenon DEF IInv, Waiters
<1>5. Control'
  BY ConstantsAssumption DEF IInv, Types, Control, ThreadPc, Task, Ready
<1>6. Targets'
  BY ConstantsAssumption DEF IInv, Types, Targets, Ready
<1>7. QED
  BY <1>1, <1>3, <1>4, <1>5, <1>6 DEF IInv

(* Yield, Reschedule, ExitLeave and IdlePick: schedprio_schedule on the run *)
(* queue as it is.                                                          *)
LEMMA ScheduleStep ==
  ASSUME IInv, Schedule(runq, prio),
         UNCHANGED <<threadVars, waitq, timer, exitedq, waking, target>>,
         pending' \in BOOLEAN, irq' \in {"none", "tick", "dev"},
         pending' => irq' # "none",
         panic' \in {"none", "null_sched"},
         kpc' \in [Task -> ThreadPc \cup IdlePc], kpc'[Idle] \in IdlePc,
         \A t \in Thread : \/ kpc'[t] = kpc[t]
                           \/ kpc[t] = "resched" /\ kpc'[t] = "run"
  PROVE  IInv'
<1>1. /\ QueueOK(runq', prio)
      /\ Range(runq') = Ready \ {current'}
      /\ current' = Idle \/ current' \in Ready
  BY Dispatch, Zenon DEF IInv, Types, Queues
<1>2. prio' = prio /\ prio \in [Thread -> Prio]
  BY DEF IInv, Types, threadVars
<1>3. \A w \in WaitQ : QueueOK(waitq[w], prio)
  BY DEF IInv, Queues
<1>4. QED
  BY <1>1, <1>2, <1>3, DispatchStep, Zenon DEF threadVars

(* The steps of the wake-up loop's ends, of the idle thread's loop and of   *)
(* the arrival of an interrupt.                                             *)
LEMMA FrameActions ==
  ASSUME IInv
  PROVE  /\ \A w \in WaitQ : WakeUp(w) => IInv'
         /\ WakeDone => IInv'
         /\ IdleCollected => IInv'
         /\ IdleWake => IInv'
         /\ \A source \in {"tick", "dev"} : IrqEnter(source) => IInv'
<1> USE DEF threadVars, queueVars, cpuVars, flowVars
<1>1. ASSUME NEW w \in WaitQ, WakeUp(w)
      PROVE  IInv'
  <2>1. /\ kpc' \in [Task -> ThreadPc \cup IdlePc] /\ kpc'[Idle] \in IdlePc
        /\ \A t \in Thread : \/ kpc'[t] = kpc[t]
                             \/ t = current /\ kpc[t] = "run" /\ kpc'[t] = "resched"
    <3>1. CASE irq = "none"
      <4>1. current \in Thread /\ kpc[current] = "run"
        BY <1>1, <3>1, Zenon DEF WakeUp, Caller
      <4>2. kpc' = [kpc EXCEPT ![current] = "resched"]
        BY <1>1, <3>1, Zenon DEF WakeUp, Goto
      <4>3. QED
        BY <4>1, <4>2, ConstantsAssumption, Zenon DEF IInv, Types, Control, Task, ThreadPc
    <3>2. CASE irq # "none"
      BY <1>1, <3>2, Zenon DEF IInv, Types, Control, WakeUp
    <3>3. QED
      BY <3>1, <3>2, Zenon
  <2>2. QED
    BY <1>1, <2>1, FrameStep, Zenon DEF IInv, Types, Control, WakeUp
<1>2. ASSUME WakeDone
      PROVE  IInv'
  BY <1>2, FrameStep, Zenon DEF IInv, Types, Control, WakeDone
<1>3. ASSUME NEW pc \in {"pick", "resched"}, Goto(Idle, pc),
             UNCHANGED <<threadVars, queueVars, cpuVars, target, panic>>
      PROVE  IInv'
  <2>1. /\ kpc' \in [Task -> ThreadPc \cup IdlePc] /\ kpc'[Idle] \in IdlePc
        /\ \A t \in Thread : kpc'[t] = kpc[t]
    BY <1>3, ConstantsAssumption DEF IInv, Types, Control, Goto, Task, IdlePc
  <2>2. QED
    BY <1>3, <2>1, FrameStep, Zenon DEF IInv, Types, Control
<1>4. IdleCollected => IInv'
  BY <1>3 DEF IdleCollected
<1>5. IdleWake => IInv'
  BY <1>3, Zenon DEF IdleWake
<1>6. ASSUME NEW source \in {"tick", "dev"}, IrqEnter(source)
      PROVE  IInv'
  BY <1>6, FrameStep, Zenon DEF IInv, Types, Control, IrqEnter
<1>7. QED
  BY <1>1, <1>2, <1>4, <1>5, <1>6, Zenon

(* The steps that end in schedprio_schedule. *)
LEMMA ScheduleActions ==
  ASSUME IInv
  PROVE  /\ \A t \in Thread : Yield(t) => IInv'
         /\ \A t \in Task : Reschedule(t) => IInv'
         /\ ExitLeave => IInv'
<1> USE DEF threadVars, queueVars, cpuVars, flowVars
<1>1. ASSUME NEW t \in Thread, Yield(t)
      PROVE  IInv'
  BY <1>1, ScheduleStep, Zenon DEF IInv, Types, Control, Yield
<1>2. ASSUME NEW t \in Task, Reschedule(t)
      PROVE  IInv'
  <2>1. /\ kpc' \in [Task -> ThreadPc \cup IdlePc] /\ kpc'[Idle] \in IdlePc
        /\ \A u \in Thread : \/ kpc'[u] = kpc[u]
                             \/ kpc[u] = "resched" /\ kpc'[u] = "run"
    BY <1>2, ConstantsAssumption
    DEF IInv, Types, Control, Reschedule, At, Goto, Task, ThreadPc, IdlePc
  <2>2. QED
    BY <1>2, <2>1, ScheduleStep, Zenon DEF IInv, Types, Control, Reschedule
<1>3. ASSUME ExitLeave
      PROVE  IInv'
  BY <1>3, ScheduleStep, Zenon DEF IInv, Types, Control, ExitLeave
<1>4. QED
  BY <1>1, <1>2, <1>3, Zenon

(* The steps that call through next->sched. *)
LEMMA SwitchActions ==
  ASSUME IInv
  PROVE  /\ IdlePick => IInv'
         /\ IrqExit => IInv'
<1> USE DEF threadVars, queueVars, cpuVars, flowVars
<1>1. ASSUME IdlePick
      PROVE  IInv'
  <2>1. /\ kpc' \in [Task -> ThreadPc \cup IdlePc] /\ kpc'[Idle] \in IdlePc
        /\ \A t \in Thread : kpc'[t] = kpc[t]
    BY <1>1, ConstantsAssumption DEF IInv, Types, Control, IdlePick, Goto, Task, IdlePc
  <2>2. CASE Schedule(runq, prio) /\ UNCHANGED panic
    BY <1>1, <2>1, <2>2, ScheduleStep, Zenon DEF IInv, Types, Control, IdlePick
  <2>3. CASE panic' = "null_sched" /\ UNCHANGED <<runq, current>>
    BY <1>1, <2>1, <2>3, FrameStep DEF IInv, Types, Control, IdlePick
  <2>4. QED
    BY <1>1, <2>2, <2>3, Zenon DEF IdlePick, SwitchThroughSched
<1>2. ASSUME IrqExit
      PROVE  IInv'
  <2>1. CASE Schedule(runq, prio) /\ UNCHANGED panic
    BY <1>2, <2>1, ScheduleStep, Zenon DEF IInv, Types, Control, IrqExit
  <2>2. CASE panic' \in {panic, "null_sched"} /\ UNCHANGED <<runq, current>>
    BY <1>2, <2>2, FrameStep, Zenon DEF IInv, Types, Control, IrqExit
  <2>3. QED
    BY <1>2, <2>1, <2>2, Zenon DEF IrqExit, SwitchThroughSched
<1>3. QED
  BY <1>1, <1>2, Zenon

-----------------------------------------------------------------------------
(***************************************************************************)
(* Priorities and blocking.                                                *)
(***************************************************************************)

(* A thread that calls the kernel from its own code is attached, runnable   *)
(* and not exited; it is in no queue.                                       *)
LEMMA RunningThread ==
  ASSUME IInv, NEW t \in Thread, current = t, kpc[t] = "run"
  PROVE  /\ t \in attached /\ t \in runnable /\ t \notin exited /\ t \in Ready
         /\ t \notin Range(runq)
         /\ \A w \in WaitQ : t \notin Range(waitq[w])
BY DEF IInv, Types, Queues, Waiters, Control, Ready

(* schedprio_set_priority puts the thread back at the place its new         *)
(* priority gives it, and schedules when that may change the choice.        *)
Requeued(t, u, p, q) ==
  /\ current = t /\ kpc[t] = "run" /\ u \in runnable
  /\ prio' \in [Thread -> Prio]
  /\ prio'[u] = p /\ \A v \in Thread : v # u => prio'[v] = prio[v]
  /\ QueueOK(q, prio') /\ Range(q) = Ready \ {current}
  /\ IF IF u = t THEN p < prio[u] ELSE Overtakes(prio', u, t)
     THEN Schedule(q, prio')
     ELSE runq' = q /\ UNCHANGED current

LEMMA Requeue ==
  ASSUME IInv, NEW t \in Thread, NEW u \in Thread, NEW p \in Prio, SetPriority(t, u, p),
         NEW q, q = IF u = t THEN runq ELSE PrioInsert(Unlink(runq, u), prio', u)
  PROVE  Requeued(t, u, p, q)
<1>1. current = t /\ kpc[t] = "run"
  BY Zenon DEF SetPriority, At
<1>2. /\ prio \in [Thread -> Prio] /\ prio' \in [Thread -> Prio]
      /\ prio'[u] = p /\ \A v \in Thread : v # u => prio'[v] = prio[v]
  BY DEF IInv, Types, SetPriority
<1>3. u \in runnable /\ u # t => u \in Range(runq)
  BY Zenon DEF SetPriority
<1>4. u \in runnable
  BY <1>1, RunningThread, Zenon DEF SetPriority, IInv, Queues, Ready
<1>5. QueueOK(q, prio') /\ Range(q) = Ready \ {current}
  <2>1. QueueOK(runq, prio) /\ Range(runq) = Ready \ {current}
    BY DEF IInv, Queues
  <2>2. Range(runq) \subseteq Thread
    BY <2>1, QueueMembers, Zenon
  <2>3. CASE u = t
    <3>1. \A v \in Range(runq) : prio'[v] = prio[v]
      BY <1>1, <1>2, <2>1, <2>2, <2>3, Zenon
    <3>2. QED
      BY <2>1, <2>3, <3>1, QueueReprioritise, Zenon
  <2>4. CASE u # t
    <3> DEFINE rest == Unlink(runq, u)
    <3>1. QueueOK(rest, prio) /\ Range(rest) = Range(runq) \ {u}
      BY <1>2, <1>3, <1>4, <2>1, <2>4, QueueRemove, Zenon
    <3>2. u \in Range(runq)
      BY <1>3, <1>4, <2>4, Zenon
    <3> HIDE DEF rest
    <3>3. \A v \in Range(rest) : prio'[v] = prio[v]
      BY <1>2, <2>2, <3>1, Zenon
    <3>4. QueueOK(rest, prio')
      BY <3>1, <3>3, QueueReprioritise, Zenon
    <3>5. /\ QueueOK(PrioInsert(rest, prio', u), prio')
          /\ Range(PrioInsert(rest, prio', u)) = Range(rest) \cup {u}
      BY <1>2, <3>1, <3>4, QueueInsert, Zenon
    <3>6. QED
      BY <2>1, <2>4, <3>1, <3>2, <3>5, Zenon DEF rest
  <2>5. QED
    BY <2>3, <2>4, Zenon
<1>6. IF IF u = t THEN p < prio[u] ELSE Overtakes(prio', u, t)
      THEN Schedule(q, prio')
      ELSE runq' = q /\ UNCHANGED current
  BY Zenon DEF SetPriority, RunqAdd, RunqRemove
<1>7. QED
  BY <1>1, <1>2, <1>4, <1>5, <1>6, Zenon DEF Requeued

(* schedprio_set_priority *)
LEMMA SetPriorityStep ==
  ASSUME IInv, NEW t \in Thread, NEW u \in Thread, NEW p \in Prio, SetPriority(t, u, p)
  PROVE  IInv'
<1> DEFINE q == IF u = t THEN runq ELSE PrioInsert(Unlink(runq, u), prio', u)
           overtaken == IF u = t THEN p < prio[u] ELSE Overtakes(prio', u, t)
<1>1. current = t /\ kpc[t] = "run"
  BY Zenon DEF SetPriority, At
<1>2. /\ prio' \in [Thread -> Prio] /\ u \in runnable
      /\ \A v \in Thread : v # u => prio'[v] = prio[v]
      /\ QueueOK(q, prio') /\ Range(q) = Ready \ {current}
      /\ IF overtaken THEN Schedule(q, prio') ELSE runq' = q /\ UNCHANGED current
  <2>1. q = IF u = t THEN runq ELSE PrioInsert(Unlink(runq, u), prio', u)
    OBVIOUS
  <2> HIDE DEF q
  <2>2. Requeued(t, u, p, q)
    BY <2>1, Requeue, Zenon
  <2>3. QED
    BY <2>2, Zenon DEF Requeued
<1>3. \A w \in WaitQ : QueueOK(waitq[w], prio')
  <2>1. SUFFICES ASSUME NEW w \in WaitQ
                 PROVE  QueueOK(waitq[w], prio')
    BY Zenon
  <2>2. QueueOK(waitq[w], prio) /\ u \notin Range(waitq[w])
    BY <1>2, Zenon DEF IInv, Queues, Waiters
  <2>3. \A v \in Range(waitq[w]) : prio'[v] = prio[v]
    BY <1>2, <2>2, QueueMembers, Zenon
  <2>4. QED
    BY <2>2, <2>3, QueueReprioritise, Zenon
<1> HIDE DEF q, overtaken
<1>4. /\ QueueOK(runq', prio')
      /\ Range(runq') = Ready \ {current'}
      /\ current' = Idle \/ current' \in Ready
  <2>1. CASE overtaken
    <3>1. Schedule(q, prio')
      BY <1>2, <2>1, Zenon
    <3>2. QED
      BY <1>2, <3>1, Dispatch, Zenon
  <2>2. CASE ~overtaken
    <3>1. runq' = q /\ UNCHANGED current
      BY <1>2, <2>2, Zenon
    <3>2. QED
      BY <1>1, <1>2, <3>1, RunningThread, Zenon
  <2>3. QED
    BY <2>1, <2>2, Zenon
<1>5. QED
  BY <1>2, <1>3, <1>4, DispatchStep, Zenon DEF SetPriority, IInv, Types, Control, flowVars

(* uk_sched_thread_blocked *)
LEMMA BlockedStep ==
  ASSUME IInv, NEW t \in Thread, NEW u \in Thread, NEW timed \in BOOLEAN, Blocked(t, u, timed)
  PROVE  IInv'
<1> USE DEF cpuVars
<1>1. /\ current = t /\ kpc[t] = "run" /\ panic = "none"
      /\ u \in attached /\ u \in runnable /\ u \notin exited
  BY ConstantsAssumption, Zenon DEF Blocked, At, Quiet, IsRunnable
<1>2. /\ t \in attached /\ t \in runnable /\ t \notin Range(runq)
      /\ \A w \in WaitQ : u \notin Range(waitq[w])
  BY <1>1, RunningThread, Zenon DEF IInv, Waiters
<1>3. timer' = timer \/ timer' = [timer EXCEPT ![u] = NULL]
  BY Zenon DEF Blocked
<1>4. kpc' \in [Task -> ThreadPc \cup IdlePc] /\ kpc'[Idle] = kpc[Idle]
  <2>1. kpc' = kpc \/ kpc' = [kpc EXCEPT ![t] = "resched"]
    BY DEF Blocked, Goto
  <2>2. QED
    BY <2>1, ConstantsAssumption, Zenon DEF IInv, Types, Task, ThreadPc
<1>5. \A s \in Thread : kpc'[s] = IF s = t /\ u = t THEN "resched" ELSE kpc[s]
  <2>1. CASE u = t
    BY <2>1 DEF Blocked, Goto, IInv, Types, Task
  <2>2. CASE u # t
    BY <2>2, Zenon DEF Blocked
  <2>3. QED
    BY <2>1, <2>2
<1>6. Types'
  BY <1>3, <1>4, Zenon DEF IInv, Types, Blocked
<1>7. Queues'
  <2>1. QueueOK(runq, prio) /\ Range(runq) = Ready \ {current} /\ prio \in [Thread -> Prio]
    BY Zenon DEF IInv, Types, Queues
  <2>2. u \in Ready
    BY <1>1 DEF IInv, Types, Ready
  <2>3. QueueOK(runq', prio) /\ Range(runq') = Range(runq) \ {u}
    <3>1. CASE u = t
      BY <1>1, <2>1, <3>1, Zenon DEF Blocked
    <3>2. CASE u # t
      <4>1. u \in Range(runq)
        BY <1>1, <2>1, <2>2, <3>2
      <4>2. QED
        BY <2>1, <3>2, <4>1, QueueRemove DEF Blocked, RunqRemove
    <3>3. QED
      BY <3>1, <3>2, Zenon
  <2>4. Ready' = Ready \ {u}
    BY <1>1, <1>5, Zenon DEF IInv, Types, Ready, Blocked
  <2>5. QED
    BY <2>1, <2>3, <2>4, Zenon DEF IInv, Queues, Blocked
<1>8. Waiters'
  BY <1>1, <1>2, <1>3, ConstantsAssumption, SMTT(60) DEF IInv, Types, Waiters, Blocked
<1>9. Control'
  BY <1>1, <1>2, <1>4, <1>5 DEF IInv, Types, Control, Blocked, ThreadPc
<1>10. Targets'
  BY <1>1, <1>5, Zenon DEF IInv, Types, Targets, Blocked
<1>11. QED
  BY <1>6, <1>7, <1>8, <1>9, <1>10, Zenon DEF IInv

(* uk_waitq_wait_deadline *)
LEMMA WaitStep ==
  ASSUME IInv, NEW t \in Thread, NEW w \in WaitQ, NEW timed \in BOOLEAN, Wait(t, w, timed)
  PROVE  IInv'
<1> USE DEF cpuVars
<1>1. current = t /\ kpc[t] = "run" /\ panic = "none"
  BY DEF Wait, At, Quiet
<1>2. /\ t \in attached /\ t \in runnable /\ t \notin exited /\ t \notin Range(runq)
      /\ \A v \in WaitQ : t \notin Range(waitq[v])
  BY <1>1, RunningThread
<1>3. timer' = timer \/ timer' = [timer EXCEPT ![t] = w]
  BY Zenon DEF Wait
<1>4. /\ kpc' \in [Task -> ThreadPc \cup IdlePc] /\ kpc'[Idle] = kpc[Idle]
      /\ \A s \in Thread : kpc'[s] = IF s = t THEN "resched" ELSE kpc[s]
  BY ConstantsAssumption, Zenon DEF Wait, Goto, IInv, Types, Task, ThreadPc
<1>5. /\ prio \in [Thread -> Prio]
      /\ \A v \in WaitQ : QueueOK(waitq[v], prio)
  BY DEF IInv, Types, Queues
<1>6. /\ waitq' \in [WaitQ -> Seq(Thread)]
      /\ \A v \in WaitQ : /\ QueueOK(waitq'[v], prio)
                          /\ Range(waitq'[v]) =
                               IF v = w THEN Range(waitq[w]) \cup {t} ELSE Range(waitq[v])
  <2> DEFINE q == PrioInsert(waitq[w], prio, t)
  <2>1. QueueOK(q, prio) /\ Range(q) = Range(waitq[w]) \cup {t}
    BY <1>2, <1>5, QueueInsert
  <2>2. waitq' = [waitq EXCEPT ![w] = q] /\ waitq \in [WaitQ -> Seq(Thread)]
    BY DEF Wait, WaitqAdd, IInv, Types
  <2>3. q \in Seq(Thread)
    BY <2>1 DEF QueueOK
  <2> HIDE DEF q
  <2>4. QED
    BY <1>5, <2>1, <2>2, <2>3, Zenon
<1>7. Types'
  BY <1>3, <1>4, <1>6, Zenon DEF IInv, Types, Wait
<1>8. Queues'
  <2>1. Ready' = Ready \ {t}
    BY <1>1, <1>4, Zenon DEF IInv, Types, Ready, Wait
  <2>2. QED
    BY <1>1, <1>6, <2>1, Zenon DEF IInv, Queues, Wait
<1>9. Waiters'
  <2>1. \A v \in WaitQ : Range(waitq'[v]) \subseteq attached' \ runnable'
    BY <1>2, <1>6, SMTT(60) DEF IInv, Waiters, Wait
  <2>2. \A x, v \in WaitQ, s \in Thread :
          s \in Range(waitq'[x]) /\ s \in Range(waitq'[v]) => x = v
    BY <1>2, <1>6, SMTT(60) DEF IInv, Waiters
  <2>3. \A s \in Thread : timer'[s] = NULL =>
          s \in attached' \ runnable' /\ \A v \in WaitQ : s \notin Range(waitq'[v])
    <3>1. timer[t] # NULL /\ w # NULL
      BY <1>2, ConstantsAssumption, Zenon DEF IInv, Waiters
    <3>2. \A s \in Thread : timer'[s] = NULL => s # t /\ timer[s] = NULL
      BY <1>3, <3>1, Zenon DEF IInv, Types
    <3>3. QED
      BY <1>6, <3>2, SMTT(60) DEF IInv, Waiters, Wait
  <2>4. \A s \in Thread : timer'[s] \in WaitQ => s \in Range(waitq'[timer'[s]])
    <3>1. \A s \in Thread : timer'[s] = timer[s] \/ (s = t /\ timer'[s] = w)
      <4>1. timer \in [Thread -> WaitQ \cup {NULL, Off}]
        BY DEF IInv, Types
      <4>2. QED
        BY <1>3, <4>1, Zenon
    <3>2. \A v \in WaitQ : Range(waitq[v]) \subseteq Range(waitq'[v])
      BY <1>6, Zenon
    <3>3. t \in Range(waitq'[w])
      BY <1>6, Zenon
    <3>4. QED
      BY <3>1, <3>2, <3>3, Zenon DEF IInv, Waiters
  <2>5. QED
    BY <2>1, <2>2, <2>3, <2>4 DEF Waiters
<1>10. Control'
  BY <1>1, <1>2, <1>4 DEF IInv, Types, Control, Wait, ThreadPc
<1>11. Targets'
  BY <1>1, <1>4, Zenon DEF IInv, Types, Targets, Wait
<1>12. QED
  BY <1>7, <1>8, <1>9, <1>10, <1>11 DEF IInv

-----------------------------------------------------------------------------
(***************************************************************************)
(* The order of a queue.                                                   *)
(***************************************************************************)

(* The priorities of threads are integers. *)
LEMMA PriorityOrder ==
  ASSUME NEW pr \in [Thread -> Prio], NEW t \in Thread
  PROVE  pr[t] \in Int
BY ConstantsAssumption DEF Prio

(* runq_tailq_best: no member of a queue in order ranks above its head.     *)
LEMMA HeadIsBest ==
  ASSUME NEW q, NEW pr \in [Thread -> Prio], QueueOK(q, pr), q # <<>>
  PROVE  /\ Head(q) \in Thread
         /\ \A t \in Range(q) : pr[t] <= pr[Head(q)]
<1>1. q \in Seq(Thread) /\ Sorted(q, pr)
  BY DEF QueueOK
<1>2. Head(q) = q[1] /\ 1 \in 1..Len(q) /\ \A i \in 1..Len(q) : q[i] \in Thread
  BY <1>1, HeadTailProperties, EmptySeq, LenProperties
<1>3. SUFFICES ASSUME NEW t \in Range(q)
               PROVE  pr[t] <= pr[Head(q)]
  BY <1>2
<1>4. PICK i \in 1..Len(q) : q[i] = t
  BY <1>1, RangeOfQueue DEF Occurs
<1>5. pr[q[1]] \in Int /\ pr[q[i]] \in Int
  BY <1>2, PriorityOrder
<1>6. i = 1 \/ 1 < i
  OBVIOUS
<1>7. 1 < i => pr[q[1]] >= pr[q[i]]
  BY <1>1, <1>2 DEF Sorted
<1>8. QED
  BY <1>2, <1>4, <1>5, <1>6, <1>7

(* u stands in front of t among the first n elements of q. *)
Precedes(q, n, u, t) == \E i, j \in 1..n : i < j /\ q[i] = u /\ q[j] = t

Before(q, u, t) == Precedes(q, Len(q), u, t)

(* Splicing an element in changes the order of no two others.               *)
LEMMA SpliceKeepsOrder ==
  ASSUME NEW n \in Nat, NEW k \in 1..(n + 1), NEW q, NEW r, NEW t,
         Spliced(q, r, n, k, t), NEW u, NEW v, Precedes(q, n, u, v)
  PROVE  Precedes(r, n + 1, u, v)
<1> DEFINE to(m) == IF m < k THEN m ELSE m + 1
<1>1. \A m \in 1..n : to(m) \in 1..(n + 1) /\ r[to(m)] = q[m]
  <2>1. TAKE m \in 1..n
  <2>2. CASE m < k
    BY <2>2 DEF Spliced
  <2>3. CASE ~(m < k)
    <3>1. m + 1 \in 1..(n + 1) /\ m + 1 > k /\ (m + 1) - 1 = m
      BY <2>3
    <3>2. QED
      BY <2>3, <3>1 DEF Spliced
  <2>4. QED
    BY <2>2, <2>3
<1>2. PICK i, j \in 1..n : i < j /\ q[i] = u /\ q[j] = v
  BY DEF Precedes
<1>3. to(i) < to(j)
  BY <1>2
<1> HIDE DEF to
<1>4. QED
  BY <1>1, <1>2, <1>3 DEF Precedes

(* runq_tailq_add splices its thread in before the first of lower priority. *)
LEMMA InsertPlace ==
  ASSUME NEW q, NEW pr \in [Thread -> Prio], QueueOK(q, pr), NEW t \in Thread
  PROVE  /\ Len(q) \in Nat /\ Len(PrioInsert(q, pr, t)) = Len(q) + 1
         /\ \E k \in 1..(Len(q) + 1) :
              /\ Spliced(q, PrioInsert(q, pr, t), Len(q), k, t)
              /\ k <= Len(q) => pr[q[k]] < pr[t]
<1>1. q \in Seq(Thread) /\ pr \in [Thread -> Int] /\ Len(q) \in Nat
  BY PrioritiesAreIntegers, LenProperties DEF QueueOK
<1>2. PICK k : k = InsertPosition(q, pr, t)
  OBVIOUS
<1>3. k \in 1..(Len(q) + 1) /\ (k <= Len(q) => pr[q[k]] < pr[t])
  BY <1>1, <1>2, InsertPositionFacts
<1>4. PrioInsert(q, pr, t) = LinkBefore(q, k, t)
  BY <1>2 DEF PrioInsert
<1>5. PICK r : r = LinkBefore(q, k, t)
  OBVIOUS
<1>6. /\ Len(r) = Len(q) + 1
      /\ \A j \in 1..(Len(q) + 1) :
           /\ j < k => r[j] = q[j]
           /\ j = k => r[j] = t
           /\ j > k => r[j] = q[j - 1]
  <2>1. /\ Len(LinkBefore(q, k, t)) = Len(q) + 1
        /\ \A j \in 1..(Len(q) + 1) :
             /\ j < k => LinkBefore(q, k, t)[j] = q[j]
             /\ j = k => LinkBefore(q, k, t)[j] = t
             /\ j > k => LinkBefore(q, k, t)[j] = q[j - 1]
    BY <1>1, <1>3, LinkBeforeFacts
  <2>2. QED
    BY <1>5, <2>1
<1>7. Spliced(q, r, Len(q), k, t)
  BY <1>3, <1>6 DEF Spliced
<1>8. QED
  BY <1>1, <1>3, <1>4, <1>5, <1>6, <1>7

(* The thread runq_tailq_add inserts goes behind every member whose         *)
(* priority is not lower, and the others keep their order.                  *)
LEMMA InsertOrder ==
  ASSUME NEW q, NEW pr \in [Thread -> Prio], QueueOK(q, pr), NEW t \in Thread
  PROVE  /\ \A u, v : Before(q, u, v) => Before(PrioInsert(q, pr, t), u, v)
         /\ \A u \in Range(q) : pr[u] = pr[t] => Before(PrioInsert(q, pr, t), u, t)
<1>1. PICK r : r = PrioInsert(q, pr, t)
  OBVIOUS
<1>2. PICK n : n = Len(q)
  OBVIOUS
<1>3. n \in Nat /\ Len(r) = n + 1
  BY <1>1, <1>2, InsertPlace
<1>4. PICK k \in 1..(n + 1) : Spliced(q, r, n, k, t) /\ (k <= n => pr[q[k]] < pr[t])
  BY <1>1, <1>2, InsertPlace
<1>5. ASSUME NEW u, NEW v, Before(q, u, v)
      PROVE  Before(r, u, v)
  <2>1. Precedes(q, n, u, v)
    BY <1>2, <1>5 DEF Before
  <2>2. Precedes(r, n + 1, u, v)
    BY <1>3, <1>4, <2>1, SpliceKeepsOrder
  <2>3. QED
    BY <1>3, <2>2 DEF Before
<1>6. ASSUME NEW u \in Range(q), pr[u] = pr[t]
      PROVE  Before(r, u, t)
  <2>1. q \in Seq(Thread) /\ \A i, j \in 1..n : i < j => pr[q[i]] >= pr[q[j]]
    BY <1>2 DEF QueueOK, Sorted
  <2>2. PICK i \in 1..n : q[i] = u
    BY <1>2, <2>1, RangeOfQueue DEF Occurs
  <2>3. \A m \in 1..n : pr[q[m]] \in Int
    BY <1>2, <2>1, LenProperties, PriorityOrder
  <2>4. pr[t] \in Int
    BY PriorityOrder
  <2>5. i < k
    <3>1. SUFFICES ASSUME k <= i
                   PROVE  FALSE
      BY <1>3
    <3>2. k \in 1..n
      BY <1>3, <3>1
    <3>3. pr[q[k]] < pr[t] /\ pr[q[i]] = pr[t]
      BY <1>4, <1>6, <2>2, <3>2
    <3>4. k < i => pr[q[k]] >= pr[q[i]]
      BY <2>1, <3>2
    <3>5. k = i \/ k < i
      BY <3>1
    <3>6. QED
      BY <2>3, <2>4, <3>2, <3>3, <3>4, <3>5
  <2>6. r[i] = u /\ r[k] = t /\ i \in 1..(n + 1)
    BY <1>3, <1>4, <2>2, <2>5 DEF Spliced
  <2>7. QED
    BY <1>3, <2>5, <2>6 DEF Before, Precedes
<1>7. QED
  BY <1>1, <1>5, <1>6

(* runq_tailq_remove changes the order of no two others. *)
LEMMA RemoveOrder ==
  ASSUME NEW q, NEW pr, QueueOK(q, pr), NEW t \in Range(q),
         NEW u, NEW v, u # t, v # t, Before(q, u, v)
  PROVE  Before(Unlink(q, t), u, v)
<1>1. q \in Seq(Thread)
  BY DEF QueueOK
<1>2. PICK k : k = CHOOSE i \in 1..Len(q) : q[i] = t
  OBVIOUS
<1>3. k \in 1..Len(q) /\ q[k] = t
  <2>1. \E i \in 1..Len(q) : q[i] = t
    BY <1>1, RangeOfQueue DEF Occurs
  <2>2. QED
    BY <1>2, <2>1
<1>4. PICK r : r = UnlinkAt(q, k)
  OBVIOUS
<1>5. Unlink(q, t) = r
  BY <1>2, <1>4 DEF Unlink
<1>6. PICK n : n = Len(q)
  OBVIOUS
<1>7. /\ n \in Nat /\ k \in 1..n /\ Len(r) = n - 1
      /\ \A j \in 1..(n - 1) :
           /\ j < k => r[j] = q[j]
           /\ j >= k => r[j] = q[j + 1]
  BY <1>1, <1>3, <1>4, <1>6, UnlinkAtFacts, LenProperties
<1>8. PICK i, j \in 1..n : i < j /\ q[i] = u /\ q[j] = v
  BY <1>6 DEF Before, Precedes
<1>9. i # k /\ j # k
  BY <1>3, <1>8
<1> DEFINE to(m) == IF m < k THEN m ELSE m - 1
<1>10. \A m \in 1..n : m # k => to(m) \in 1..(n - 1) /\ r[to(m)] = q[m]
  <2>1. TAKE m \in 1..n
  <2>2. HAVE m # k
  <2>3. CASE m < k
    BY <1>7, <2>3
  <2>4. CASE m > k
    <3>1. m - 1 \in 1..(n - 1) /\ m - 1 >= k /\ (m - 1) + 1 = m
      BY <1>7, <2>4
    <3>2. r[m - 1] = q[(m - 1) + 1]
      BY <1>7, <3>1
    <3>3. QED
      BY <1>7, <2>4, <3>1, <3>2
  <2>5. QED
    BY <1>7, <2>2, <2>3, <2>4
<1>11. to(i) < to(j)
  BY <1>7, <1>8, <1>9
<1> HIDE DEF to
<1>12. QED
  BY <1>5, <1>7, <1>8, <1>9, <1>10, <1>11 DEF Before, Precedes

(* What RunQueueFifo asks of a step from the queue q with the priorities pr *)
(* to the queue r with the priorities pr2.                                  *)
Fifo(q, pr, r, pr2) ==
  \A t, u \in Range(r) :
    /\ t # u /\ u \in Range(q) /\ pr2[t] = pr2[u] /\ pr[u] = pr2[u]
    /\ t \notin Range(q) \/ (Before(q, u, t) /\ pr[t] = pr2[t])
    => Before(r, u, t)

(* A queue that does not change keeps its order. *)
LEMMA FifoSame == ASSUME NEW q, NEW pr, NEW pr2 PROVE Fifo(q, pr, q, pr2)
BY Zenon DEF Fifo

(* runq_tailq_add: the new thread goes behind its equals. *)
LEMMA FifoInsert ==
  ASSUME NEW q, NEW pr, NEW pr2 \in [Thread -> Prio], QueueOK(q, pr2),
         NEW x \in Thread, x \notin Range(q)
  PROVE  Fifo(q, pr, PrioInsert(q, pr2, x), pr2)
<1>1. Range(PrioInsert(q, pr2, x)) = Range(q) \cup {x}
  BY QueueInsert
<1>2. /\ \A u, v : Before(q, u, v) => Before(PrioInsert(q, pr2, x), u, v)
      /\ \A u \in Range(q) : pr2[u] = pr2[x] => Before(PrioInsert(q, pr2, x), u, x)
  BY InsertOrder
<1>3. QED
  BY <1>1, <1>2, Zenon DEF Fifo

(* runq_tailq_remove: the others keep their order. *)
LEMMA FifoRemove ==
  ASSUME NEW q, NEW pr \in [Thread -> Prio], NEW pr2, QueueOK(q, pr), NEW x \in Range(q)
  PROVE  Fifo(q, pr, Unlink(q, x), pr2)
<1>1. Range(Unlink(q, x)) = Range(q) \ {x}
  BY QueueRemove
<1>2. \A u, v : u # x /\ v # x /\ Before(q, u, v) => Before(Unlink(q, x), u, v)
  BY RemoveOrder, Zenon
<1>3. QED
  BY <1>1, <1>2, Zenon DEF Fifo

(* tn_schedprio_update_queue_and_switch: prev goes behind its equals before *)
(* next is taken out.                                                       *)
LEMMA FifoSchedule ==
  ASSUME NEW q, NEW pr \in [Thread -> Prio], QueueOK(q, pr),
         current \in Task \cup {NULL}, current \notin Range(q),
         runnable \subseteq Thread,
         Schedule(q, pr)
  PROVE  Fifo(q, pr, runq', pr)
<1> DEFINE next == SelectNext(q, pr, current)
           keep == current # Idle /\ IsRunnable(current)
           added == IF keep THEN PrioInsert(q, pr, current) ELSE q
<1>1. keep => current \in Thread
  BY ConstantsAssumption DEF IsRunnable
<1>2. next # current /\ next # Idle => next \in Range(q)
  <2>1. q # <<>> => Head(q) \in Range(q)
    BY QueueHead
  <2>2. QED
    BY <2>1, Zenon DEF SelectNext
<1>3. /\ QueueOK(added, pr)
      /\ \A t \in Range(q) : t \in Range(added)
      /\ \A t \in Range(added) : t \in Range(q) \/ t = current
      /\ Fifo(q, pr, added, pr)
  <2>1. CASE keep
    <3>1. /\ QueueOK(PrioInsert(q, pr, current), pr)
          /\ Range(PrioInsert(q, pr, current)) = Range(q) \cup {current}
      BY <1>1, <2>1, QueueInsert
    <3>2. Fifo(q, pr, PrioInsert(q, pr, current), pr)
      BY <1>1, <2>1, FifoInsert
    <3>3. QED
      BY <2>1, <3>1, <3>2
  <2>2. CASE ~keep
    BY <2>2, FifoSame
  <2>3. QED
    BY <2>1, <2>2
<1>4. IF next = current
      THEN runq' = q
      ELSE runq' = (IF next # Idle THEN Unlink(added, next) ELSE added)
  BY DEF Schedule, QueueAfterSwitch, RunqAdd, RunqRemove
<1> HIDE DEF next, keep, added
<1>5. CASE next = current
  BY <1>4, <1>5, FifoSame
<1>6. CASE next # current /\ next = Idle
  BY <1>3, <1>4, <1>6
<1>7. CASE next # current /\ next # Idle
  <2>1. next \in Range(added) /\ runq' = Unlink(added, next)
    BY <1>2, <1>3, <1>4, <1>7
  <2>2. Range(runq') = Range(added) \ {next}
    BY <1>3, <2>1, QueueRemove
  <2>3. \A u, v : u # next /\ v # next /\ Before(added, u, v) => Before(runq', u, v)
    BY <1>3, <2>1, RemoveOrder, Zenon
  <2>4. QED
    BY <1>3, <2>2, <2>3, Zenon DEF Fifo
<1>8. QED
  BY <1>5, <1>6, <1>7

(* Two such steps in a row, the first of which changes no membership.       *)
LEMMA FifoChain ==
  ASSUME NEW q, NEW pr, NEW q1, NEW pr2, NEW r,
         Range(q1) = Range(q), Fifo(q, pr, q1, pr2), Fifo(q1, pr2, r, pr2),
         \A u, t : Before(q, u, t) => t \in Range(q)
  PROVE  Fifo(q, pr, r, pr2)
<1>1. SUFFICES ASSUME NEW t \in Range(r), NEW u \in Range(r),
                      t # u, u \in Range(q), pr2[t] = pr2[u], pr[u] = pr2[u],
                      t \notin Range(q) \/ (Before(q, u, t) /\ pr[t] = pr2[t])
               PROVE  Before(r, u, t)
  BY Zenon DEF Fifo
<1>2. CASE t \notin Range(q)
  BY <1>1, <1>2, Zenon DEF Fifo
<1>3. CASE Before(q, u, t) /\ pr[t] = pr2[t]
  <2>1. t \in Range(q1) /\ u \in Range(q1)
    BY <1>1, <1>3, Zenon
  <2>2. Before(q1, u, t)
    BY <1>1, <1>3, <2>1, Zenon DEF Fifo
  <2>3. QED
    BY <1>1, <2>1, <2>2, Zenon DEF Fifo
<1>4. QED
  BY <1>1, <1>2, <1>3, Zenon

(* Who stands in front of or behind another in a queue is a member of it.   *)
LEMMA BeforeMembers ==
  ASSUME NEW q, NEW pr, QueueOK(q, pr), NEW u, NEW t, Before(q, u, t)
  PROVE  t \in Range(q)
<1>1. q \in Seq(Thread)
  BY DEF QueueOK
<1>2. Occurs(q, Len(q), t)
  BY DEF Before, Precedes, Occurs
<1>3. QED
  BY <1>1, <1>2, RangeOfQueue
=============================================================================
