--------------------------- MODULE ServiceProofs ---------------------------
(***************************************************************************)
(* Theorems about two components that stand on their own.  The inference   *)
(* framework (Infer), for every number of models, names, files and         *)
(* requests and every length of the metrics' ring.  The system tick        *)
(* (Systick), for every width, boot value and number of threads: the tick  *)
(* counter as long as an interrupt is not handled so late that the counts  *)
(* it makes up for overflow a uint32_t, and sleeping at the frequencies    *)
(* whose conversions round up.                                             *)
(***************************************************************************)
EXTENDS Infer, Systick, FiniteSetTheorems, TLAPS

(***************************************************************************)
(* The inference framework.                                                *)
(***************************************************************************)

(* Names are short enough for the name[64] of a slot. *)
NamesFit == \A n \in Name : Cut[n] = n

SlotType == [name : Name \cup {Empty}, path : Path \cup {Empty}, loaded : BOOLEAN, size : Nat]

InferType ==
  /\ models \in Seq(SlotType)
  /\ DOMAIN models_ \subseteq Name
  /\ \A n \in DOMAIN models_ : models_[n] \in Path

(* Without a loader there are no models; with one, a name has one slot at   *)
(* most, and the loaded slots are those of the loaded names.                *)
LoaderInv ==
  /\ Len(models) <= max_models
  /\ has = {} => models = <<>>
  /\ "loader" \notin has => DOMAIN models_ = {}
  /\ "loader" \in has =>
     /\ \A i, j \in DOMAIN models :
          models[i].name \in Name /\ models[i].name = models[j].name => i = j
     /\ \A i \in DOMAIN models :
          models[i].loaded => /\ models[i].name \in DOMAIN models_
                              /\ models[i].size = ModelSize[models_[models[i].name]]
     /\ \A n \in DOMAIN models_ :
          \E i \in DOMAIN models : models[i].name = n /\ models[i].loaded

(* The metrics of the requests r, member by member *)
MetricsOf(r, m) ==
  LET k == Len(r) IN
  /\ r \in Seq(Latency)
  /\ m \in [samples : [0..(History - 1) -> Nat], head : Nat, count : Nat,
            total_requests : Nat, success_count : Nat, error_count : Nat,
            latency_sum : Nat, latency_min : Nat, latency_max : Nat]
  /\ m.head = k /\ m.total_requests = k
  /\ m.success_count = k /\ m.error_count = 0
  /\ m.count = IF k < History THEN k ELSE History
  /\ \A i \in 1..k : i > k - History => m.samples[(i - 1) % History] = r[i]
  /\ k = 0 => m.latency_sum = 0 /\ m.latency_min = Infinity /\ m.latency_max = 0
  /\ k > 0 => /\ \E i \in 1..k : m.latency_min = r[i]
              /\ \E i \in 1..k : m.latency_max = r[i]
              /\ \A i \in 1..k : /\ m.latency_min <= r[i]
                                 /\ r[i] <= m.latency_max
              /\ k * m.latency_min <= m.latency_sum
              /\ m.latency_sum <= k * m.latency_max

MetricsInv == MetricsOf(recorded, metrics)

InferInv ==
  /\ InferType
  /\ LoaderInv
  /\ lost \cap Needed = {}

-----------------------------------------------------------------------------
LEMMA LeastIndex ==
  ASSUME NEW T \in SUBSET Nat, T # {}
  PROVE  Min(T) \in T
<1>1. \E i \in T : \A j \in T : ~(<<j, i>> \in OpToRel(<, Nat))
  BY NatLessThanWellFounded, WFMin
<1>2. OpToRel(<, Nat) = {ss \in Nat \X Nat : ss[1] < ss[2]}
  BY Zenon DEF OpToRel
<1>3. \A i, j \in Nat : i < j => <<i, j>> \in {ss \in Nat \X Nat : ss[1] < ss[2]}
  BY SMT
<1>4. \A i, j \in Nat : i < j => <<i, j>> \in OpToRel(<, Nat)
  BY <1>2, <1>3, Zenon
<1>5. \A i, j \in Nat : ~(j < i) => i <= j
  BY SMT
<1>6. \E i \in T : \A j \in T : i <= j
  BY <1>1, <1>4, <1>5, Zenon
<1> QED  BY <1>6, Zenon DEF Min

(* Sequences *)
LEMMA SeqElement ==
  ASSUME NEW S, NEW s \in Seq(S), NEW i \in DOMAIN s
  PROVE  s[i] \in S /\ i \in Nat
OBVIOUS

LEMMA SeqUpdate ==
  ASSUME NEW S, NEW s \in Seq(S), NEW a \in DOMAIN s, NEW e \in S,
         NEW t, t = [s EXCEPT ![a] = e]
  PROVE  /\ t \in Seq(S) /\ Len(t) = Len(s) /\ DOMAIN t = DOMAIN s
         /\ t[a] = e /\ \A i \in DOMAIN s \ {a} : t[i] = s[i]
OBVIOUS

(* The slot tn_infer_load finds or takes *)
LEMMA SlotFacts ==
  ASSUME InferType, NEW n \in Name
  PROVE  LET s == Slots(n) IN
         /\ s \in Seq(SlotType) /\ DOMAIN s = 1..Len(s) /\ Slot(n) \in DOMAIN s
         /\ Named(n) # {} => s = models
         /\ Named(n) = {} => Len(s) = Len(models) + 1 /\ Slot(n) = Len(models) + 1
         /\ \A i \in DOMAIN models : i \in DOMAIN s /\ s[i] = models[i]
         /\ \A i \in DOMAIN s :
              i \in DOMAIN models \/ (i = Slot(n) /\ s[i].name = Empty /\ s[i].loaded = FALSE)
         /\ Slot(n) \in DOMAIN models => models[Slot(n)].name = n
<1>1. models \in Seq(SlotType)
  BY DEF InferType
<1>2. CASE Named(n) # {}
  <2>1. Slots(n) = models /\ Slot(n) = Min(Named(n))
    BY <1>2 DEF Slots, Slot
  <2>2. Named(n) \in SUBSET Nat
    BY <1>1 DEF Named
  <2>3. Slot(n) \in Named(n)
    BY <1>2, <2>1, <2>2, LeastIndex
  <2> QED  BY <1>1, <1>2, <2>1, <2>3 DEF Named
<1>3. CASE Named(n) = {}
  <2> DEFINE e == [name |-> Empty, path |-> Empty, loaded |-> FALSE, size |-> 0]
  <2>1. Slots(n) = Append(models, e) /\ Slot(n) = Len(models) + 1
    BY <1>3 DEF Slots, Slot
  <2>2. e \in SlotType /\ e.name = Empty /\ e.loaded = FALSE
    BY DEF SlotType
  <2> HIDE DEF e
  <2> QED  BY <1>1, <1>3, <2>1, <2>2
<1> QED  BY <1>2, <1>3

(* tn_infer_load *)
LEMMA LoadInv ==
  ASSUME NamesFit, InferType, LoaderInv, NEW n \in Name, NEW path \in Path, Load(path, n)
  PROVE  InferType' /\ LoaderInv'
<1> DEFINE s == Slots(n)  a == Slot(n)
           e == [name |-> Cut[n], path |-> path, loaded |-> TRUE,
                 size |-> IF "loader" \in has THEN ModelSize[models_'[n]] ELSE s[a].size]
<1>1. /\ s \in Seq(SlotType) /\ DOMAIN s = 1..Len(s) /\ a \in DOMAIN s
      /\ Named(n) # {} => s = models
      /\ Named(n) = {} => Len(s) = Len(models) + 1 /\ a = Len(models) + 1
      /\ \A i \in DOMAIN models : i \in DOMAIN s /\ s[i] = models[i]
      /\ \A i \in DOMAIN s :
           i \in DOMAIN models \/ (i = a /\ s[i].name = Empty /\ s[i].loaded = FALSE)
      /\ a \in DOMAIN models => models[a].name = n
  BY SlotFacts
<1>2. models' = [s EXCEPT ![a] = e] /\ has' = has /\ has # {}
  BY DEF Load
<1>3. /\ "loader" \in has => n \in DOMAIN models_'
      /\ "loader" \notin has => models_' = models_
      /\ DOMAIN models_' \subseteq DOMAIN models_ \cup {n}
      /\ DOMAIN models_ \subseteq DOMAIN models_'
      /\ \A m \in DOMAIN models_ : models_'[m] = models_[m]
      /\ \A m \in DOMAIN models_' : models_'[m] \in Path
  <2>1. CASE "loader" \in has /\ n \notin DOMAIN models_
    <3>1. models_' = [m \in DOMAIN models_ \cup {n} |-> IF m = n THEN path ELSE models_[m]]
      BY <2>1 DEF Load, Loads
    <3> QED  BY <2>1, <3>1 DEF InferType
  <2>2. CASE ~("loader" \in has /\ n \notin DOMAIN models_)
    <3>1. models_' = models_
      BY <2>2 DEF Load
    <3> QED  BY <2>2, <3>1 DEF InferType
  <2> QED  BY <2>1, <2>2
<1>4. e \in SlotType /\ e.name = n /\ e.loaded = TRUE
      /\ ("loader" \in has => e.size = ModelSize[models_'[n]])
  <2>1. s[a] \in SlotType
    <3> HIDE DEF s, a
    <3> QED  BY <1>1, SeqElement
  <2>2. s[a].size \in Nat
    BY <2>1 DEF SlotType
  <2>3. Cut[n] = n
    BY DEF NamesFit
  <2>4. "loader" \in has => ModelSize[models_'[n]] \in Nat
    BY <1>3, InferAssumption
  <2> QED  BY <2>2, <2>3, <2>4 DEF SlotType
<1> HIDE DEF s, a, e
<1>5. /\ models' \in Seq(SlotType) /\ Len(models') = Len(s) /\ DOMAIN models' = DOMAIN s
      /\ models'[a] = e /\ \A i \in DOMAIN s \ {a} : models'[i] = s[i]
  <2>1. s \in Seq(SlotType) /\ a \in DOMAIN s /\ e \in SlotType /\ models' = [s EXCEPT ![a] = e]
    BY <1>1, <1>2, <1>4, Zenon
  <2>2. PICK t : t = [s EXCEPT ![a] = e]
    OBVIOUS
  <2>3. /\ t \in Seq(SlotType) /\ Len(t) = Len(s) /\ DOMAIN t = DOMAIN s
        /\ t[a] = e /\ \A i \in DOMAIN s \ {a} : t[i] = s[i]
    BY <2>1, <2>2, SeqUpdate
  <2> QED  BY <2>1, <2>2, <2>3, Zenon
<1>6. InferType'
  BY <1>3, <1>5 DEF InferType
<1>7. Len(models') <= max_models
  <2>1. Named(n) # {} \/ Len(models) < max_models
    BY DEF Load, Room
  <2>2. Len(models) \in Nat /\ max_models \in Nat /\ Len(models) <= max_models
    BY InferAssumption DEF InferType, LoaderInv
  <2>3. Len(s) = Len(models) \/ (Len(s) = Len(models) + 1 /\ Len(models) < max_models)
    BY <1>1, <2>1, Zenon
  <2>4. Len(s) <= max_models
    BY <2>2, <2>3
  <2> QED  BY <1>5, <2>4, Zenon
<1>8. CASE "loader" \notin has
  <2>1. has' # {} /\ "loader" \notin has' /\ DOMAIN models_' = {}
    BY <1>2, <1>3, <1>8 DEF LoaderInv
  <2> QED  BY <1>6, <1>7, <2>1 DEF LoaderInv
<1>9. CASE "loader" \in has
  <2>1. /\ \A i, j \in DOMAIN models :
             models[i].name \in Name /\ models[i].name = models[j].name => i = j
        /\ \A i \in DOMAIN models :
             models[i].loaded => /\ models[i].name \in DOMAIN models_
                                 /\ models[i].size = ModelSize[models_[models[i].name]]
        /\ \A m \in DOMAIN models_ :
             \E i \in DOMAIN models : models[i].name = m /\ models[i].loaded
    BY <1>9 DEF LoaderInv
  <2>2. \A i \in DOMAIN models' \ {a} :
          i \in DOMAIN models /\ models'[i] = models[i] /\ models[i].name # n
    <3> TAKE i \in DOMAIN models' \ {a}
    <3>1. i \in DOMAIN models /\ models'[i] = models[i]
      BY <1>1, <1>5, Zenon
    <3>2. ASSUME models[i].name = n PROVE FALSE
      <4>1. Named(n) # {}
        BY <3>1, <3>2, Zenon DEF Named
      <4>2. a \in DOMAIN models
        BY <1>1, <4>1, Zenon
      <4> QED  BY <1>1, <2>1, <3>1, <3>2, <4>2, Zenon
    <3> QED  BY <3>1, <3>2
  <2>3. \A i, j \in DOMAIN models' :
          models'[i].name \in Name /\ models'[i].name = models'[j].name => i = j
    <3> TAKE i, j \in DOMAIN models'
    <3>1. models'[a].name = n
      BY <1>4, <1>5
    <3>2. CASE i = a \/ j = a
      BY <2>2, <3>1, <3>2
    <3>3. CASE i # a /\ j # a
      BY <2>1, <2>2, <3>3
    <3> QED  BY <3>2, <3>3
  <2>4. \A i \in DOMAIN models' :
          models'[i].loaded => /\ models'[i].name \in DOMAIN models_'
                               /\ models'[i].size = ModelSize[models_'[models'[i].name]]
    <3> TAKE i \in DOMAIN models'
    <3>1. CASE i = a
      BY <1>3, <1>4, <1>5, <1>9, <3>1, Zenon
    <3>2. CASE i # a
      <4>1. i \in DOMAIN models /\ models'[i] = models[i]
        BY <2>2, <3>2
      <4> QED  BY <1>3, <2>1, <4>1
    <3> QED  BY <3>1, <3>2
  <2>5. \A m \in DOMAIN models_' :
          \E i \in DOMAIN models' : models'[i].name = m /\ models'[i].loaded
    <3> TAKE m \in DOMAIN models_'
    <3>1. CASE m = n
      BY <1>1, <1>4, <1>5, <3>1, Zenon
    <3>2. CASE m # n
      <4>1. PICK i \in DOMAIN models : models[i].name = m /\ models[i].loaded
        BY <1>3, <2>1, <3>2, Zenon
      <4>2. i # a
        BY <1>1, <3>2, <4>1, Zenon
      <4> QED  BY <1>1, <1>5, <4>1, <4>2, Zenon
    <3> QED  BY <3>1, <3>2
  <2>6. has' # {} /\ "loader" \in has'
    BY <1>2, <1>9
  <2> QED  BY <1>6, <1>7, <2>3, <2>4, <2>5, <2>6 DEF LoaderInv
<1> QED  BY <1>6, <1>8, <1>9

(* tn_infer_load, when the loader fails *)
LEMMA LoadFailsInv ==
  ASSUME InferType, LoaderInv, NEW n \in Name, LoadFails(n)
  PROVE  InferType' /\ LoaderInv'
<1> DEFINE s == Slots(n)  a == Slot(n)
<1>1. /\ s \in Seq(SlotType) /\ DOMAIN s = 1..Len(s)
      /\ Named(n) # {} => s = models
      /\ Named(n) = {} => Len(s) = Len(models) + 1
      /\ \A i \in DOMAIN models : i \in DOMAIN s /\ s[i] = models[i]
      /\ \A i \in DOMAIN s :
           i \in DOMAIN models \/ (i = a /\ s[i].name = Empty /\ s[i].loaded = FALSE)
  BY SlotFacts
<1>2. models' = s /\ models_' = models_ /\ has' = has /\ has # {} /\ "loader" \in has
  BY DEF LoadFails
<1> HIDE DEF s, a
<1>3. InferType'
  BY <1>1, <1>2 DEF InferType
<1>4. Len(models') <= max_models
  <2>1. Named(n) # {} \/ Len(models) < max_models
    BY DEF LoadFails, Room
  <2>2. Len(models) \in Nat /\ max_models \in Nat /\ Len(models) <= max_models
    BY InferAssumption DEF InferType, LoaderInv
  <2>3. Len(s) = Len(models) \/ (Len(s) = Len(models) + 1 /\ Len(models) < max_models)
    BY <1>1, <2>1, Zenon
  <2> QED  BY <1>2, <2>2, <2>3
<1>5. /\ \A i, j \in DOMAIN models :
           models[i].name \in Name /\ models[i].name = models[j].name => i = j
      /\ \A i \in DOMAIN models :
           models[i].loaded => /\ models[i].name \in DOMAIN models_
                               /\ models[i].size = ModelSize[models_[models[i].name]]
      /\ \A m \in DOMAIN models_ :
           \E i \in DOMAIN models : models[i].name = m /\ models[i].loaded
  BY <1>2 DEF LoaderInv
<1>6. Empty \notin Name
  BY InferAssumption
<1>7. \A i, j \in DOMAIN s : s[i].name \in Name /\ s[i].name = s[j].name => i = j
  <2> TAKE i, j \in DOMAIN s
  <2>1. HAVE s[i].name \in Name /\ s[i].name = s[j].name
  <2>2. i \in DOMAIN models /\ j \in DOMAIN models
    BY <1>1, <1>6, <2>1, Zenon
  <2> QED  BY <1>1, <1>5, <2>1, <2>2, Zenon
<1>8. \A i \in DOMAIN s :
        s[i].loaded => /\ s[i].name \in DOMAIN models_
                       /\ s[i].size = ModelSize[models_[s[i].name]]
  <2> TAKE i \in DOMAIN s
  <2>1. HAVE s[i].loaded
  <2>2. i \in DOMAIN models
    BY <1>1, <2>1, Zenon
  <2> QED  BY <1>1, <1>5, <2>1, <2>2, Zenon
<1>9. \A m \in DOMAIN models_ : \E i \in DOMAIN s : s[i].name = m /\ s[i].loaded
  <2> TAKE m \in DOMAIN models_
  <2>1. PICK i \in DOMAIN models : models[i].name = m /\ models[i].loaded
    BY <1>5
  <2> QED  BY <1>1, <2>1
<1> QED  BY <1>2, <1>3, <1>4, <1>7, <1>8, <1>9 DEF LoaderInv

(* tn_infer_unload *)
LEMMA UnloadInv ==
  ASSUME InferType, LoaderInv, NEW n \in Name, Unload(n)
  PROVE  InferType' /\ LoaderInv'
<1> DEFINE a == Min(Named(n))  e == [models[a] EXCEPT !.loaded = FALSE]
<1>1. /\ has' = has /\ has # {}
      /\ models_' = IF "loader" \in has THEN Without({n}) ELSE models_
      /\ models' = [models EXCEPT ![a] = e]
      /\ Named(n) # {}
  BY DEF Unload
<1>2. models \in Seq(SlotType)
  BY DEF InferType
<1>3. a \in DOMAIN models /\ models[a].name = n
  <2>1. Named(n) \in SUBSET Nat
    BY <1>2 DEF Named
  <2>2. a \in Named(n)
    BY <1>1, <2>1, LeastIndex
  <2> QED  BY <2>2 DEF Named
<1> HIDE DEF a
<1>4. e \in SlotType /\ e.name = n /\ e.loaded = FALSE
  <2>1. models[a] \in SlotType
    BY <1>2, <1>3, SeqElement
  <2> QED  BY <1>3, <2>1 DEF SlotType
<1> HIDE DEF e
<1>5. /\ models' \in Seq(SlotType) /\ Len(models') = Len(models) /\ DOMAIN models' = DOMAIN models
      /\ models'[a] = e /\ \A i \in DOMAIN models \ {a} : models'[i] = models[i]
  <2>1. PICK t : t = [models EXCEPT ![a] = e]
    OBVIOUS
  <2>2. /\ t \in Seq(SlotType) /\ Len(t) = Len(models) /\ DOMAIN t = DOMAIN models
        /\ t[a] = e /\ \A i \in DOMAIN models \ {a} : t[i] = models[i]
    BY <1>2, <1>3, <1>4, <2>1, SeqUpdate
  <2> QED  BY <1>1, <2>1, <2>2, Zenon
<1>6. InferType'
  <2>1. DOMAIN models_' \subseteq Name /\ \A m \in DOMAIN models_' : models_'[m] \in Path
    BY <1>1 DEF InferType, Without
  <2> QED  BY <1>5, <2>1 DEF InferType
<1>7. Len(models') <= max_models
  BY <1>5 DEF LoaderInv
<1>8. CASE "loader" \notin has
  BY <1>1, <1>6, <1>7, <1>8 DEF LoaderInv
<1>9. CASE "loader" \in has
  <2>1. /\ \A i, j \in DOMAIN models :
             models[i].name \in Name /\ models[i].name = models[j].name => i = j
        /\ \A i \in DOMAIN models :
             models[i].loaded => /\ models[i].name \in DOMAIN models_
                                 /\ models[i].size = ModelSize[models_[models[i].name]]
        /\ \A m \in DOMAIN models_ :
             \E i \in DOMAIN models : models[i].name = m /\ models[i].loaded
    BY <1>9 DEF LoaderInv
  <2>2. DOMAIN models_' = DOMAIN models_ \ {n} /\ \A m \in DOMAIN models_' : models_'[m] = models_[m]
    BY <1>1, <1>9 DEF Without
  <2>3. \A i \in DOMAIN models' : models'[i].name = models[i].name
    BY <1>3, <1>4, <1>5
  <2>4. \A i, j \in DOMAIN models' :
          models'[i].name \in Name /\ models'[i].name = models'[j].name => i = j
    BY <1>5, <2>1, <2>3
  <2>5. \A i \in DOMAIN models' :
          models'[i].loaded => /\ models'[i].name \in DOMAIN models_'
                               /\ models'[i].size = ModelSize[models_'[models'[i].name]]
    <3> TAKE i \in DOMAIN models'
    <3>1. HAVE models'[i].loaded
    <3>2. i # a /\ models'[i] = models[i]
      BY <1>4, <1>5, <3>1
    <3>3. models[i].name # n
      BY <1>3, <1>5, <2>1, <3>2
    <3> QED  BY <1>5, <2>1, <2>2, <3>1, <3>2, <3>3
  <2>6. \A m \in DOMAIN models_' :
          \E i \in DOMAIN models' : models'[i].name = m /\ models'[i].loaded
    <3> TAKE m \in DOMAIN models_'
    <3>1. PICK i \in DOMAIN models : models[i].name = m /\ models[i].loaded
      BY <2>1, <2>2
    <3>2. i # a
      BY <1>3, <2>2, <3>1
    <3> QED  BY <1>5, <3>1, <3>2
  <2> QED  BY <1>1, <1>6, <1>7, <1>9, <2>4, <2>5, <2>6 DEF LoaderInv
<1> QED  BY <1>8, <1>9

(* tn_infer_destroy: all models go. *)
LEMMA DestroyInv ==
  ASSUME InferType, LoaderInv, Destroy
  PROVE  InferType' /\ LoaderInv' /\ has' = {}
<1>1. /\ has' = {} /\ models' = <<>>
      /\ models_' = IF "loader" \in has
                    THEN Without({models[i].name : i \in StillLoaded}) ELSE models_
  BY DEF Destroy
<1>2. DOMAIN models_' = {}
  <2>1. CASE "loader" \notin has
    BY <1>1, <2>1 DEF LoaderInv
  <2>2. CASE "loader" \in has
    <3>1. DOMAIN models_' = DOMAIN models_ \ {models[i].name : i \in StillLoaded}
      BY <1>1, <2>2 DEF Without
    <3>2. \A m \in DOMAIN models_ : \E i \in StillLoaded : models[i].name = m
      BY <2>2 DEF LoaderInv, StillLoaded
    <3> QED  BY <3>1, <3>2
  <2> QED  BY <2>1, <2>2
<1>3. Len(models') = 0 /\ models' \in Seq(SlotType)
  BY <1>1
<1>4. max_models \in Nat
  BY InferAssumption
<1> QED  BY <1>1, <1>2, <1>3, <1>4 DEF InferType, LoaderInv

-----------------------------------------------------------------------------
(* Positions of the ring: History requests in a row have different ones. *)
LEMMA RingApart ==
  ASSUME NEW m \in Nat \ {0}, NEW i \in Nat, NEW j \in Nat, i < j, j - i < m
  PROVE  i % m # j % m
<1>1. i = m * (i \div m) + (i % m) /\ i % m \in 0..(m - 1) /\ i \div m \in Int
  BY SMT
<1>2. j = m * (j \div m) + (j % m) /\ j % m \in 0..(m - 1) /\ j \div m \in Int
  BY SMT
<1> DEFINE p == i \div m  q == j \div m
<1> SUFFICES ASSUME i % m = j % m PROVE FALSE
  OBVIOUS
<1>3. p \in Int /\ q \in Int /\ j - i = m * q - m * p
  BY <1>1, <1>2, SMT
<1> HIDE DEF p, q
<1>4. m * q - m * p = m * (q - p)
  BY <1>3, SMT
<1>5. q - p >= 1
  BY <1>3, <1>4, SMT
<1>6. m * (q - p) >= m
  BY <1>3, <1>5, SMT
<1> QED  BY <1>3, <1>4, <1>6, SMT

(* The average of k values lies between what they lie between. *)
LEMMA AverageBetween ==
  ASSUME NEW k \in Nat \ {0}, NEW lo \in Nat, NEW hi \in Nat, NEW s \in Nat,
         k * lo <= s, s <= k * hi
  PROVE  lo <= s \div k /\ s \div k <= hi
<1> DEFINE q == s \div k
<1>1. s = k * q + (s % k) /\ s % k \in 0..(k - 1) /\ q \in Int
  BY SMT
<1> HIDE DEF q
<1>2. lo <= q
  <2> SUFFICES ASSUME q + 1 <= lo PROVE FALSE
    BY <1>1
  <2>1. k * (q + 1) <= k * lo
    BY <1>1, SMT
  <2>2. k * (q + 1) = k * q + k
    BY <1>1, SMT
  <2> QED  BY <1>1, <2>1, <2>2, SMT
<1>3. q <= hi
  <2> SUFFICES ASSUME hi + 1 <= q PROVE FALSE
    BY <1>1
  <2>1. k * (hi + 1) <= k * q
    BY <1>1, SMT
  <2>2. k * (hi + 1) = k * hi + k
    BY SMT
  <2> QED  BY <1>1, <2>1, <2>2, SMT
<1> QED  BY <1>2, <1>3 DEF q

(* The members after one more request *)
LEMMA RecordFacts ==
  ASSUME MetricsInv, NEW l \in Latency, Record(l)
  PROVE  /\ metrics' \in [samples : [0..(History - 1) -> Nat], head : Nat, count : Nat,
                          total_requests : Nat, success_count : Nat, error_count : Nat,
                          latency_sum : Nat, latency_min : Nat, latency_max : Nat]
         /\ metrics'.samples = [metrics.samples EXCEPT ![metrics.head % History] = l]
         /\ metrics'.head = metrics.head + 1
         /\ metrics'.count = IF metrics.count < History THEN metrics.count + 1 ELSE metrics.count
         /\ metrics'.total_requests = metrics.total_requests + 1
         /\ metrics'.success_count = metrics.success_count + 1
         /\ metrics'.error_count = metrics.error_count
         /\ metrics'.latency_sum = metrics.latency_sum + l
         /\ metrics'.latency_min = IF l < metrics.latency_min THEN l ELSE metrics.latency_min
         /\ metrics'.latency_max = IF l > metrics.latency_max THEN l ELSE metrics.latency_max
<1>1. l \in Nat
  BY InferAssumption
<1>2. metrics \in [samples : [0..(History - 1) -> Nat], head : Nat, count : Nat,
                   total_requests : Nat, success_count : Nat, error_count : Nat,
                   latency_sum : Nat, latency_min : Nat, latency_max : Nat]
  BY DEF MetricsInv, MetricsOf
<1> DEFINE smp == [metrics.samples EXCEPT ![metrics.head % History] = l]
           cnt == IF metrics.count < History THEN metrics.count + 1 ELSE metrics.count
           lo == IF l < metrics.latency_min THEN l ELSE metrics.latency_min
           hi == IF l > metrics.latency_max THEN l ELSE metrics.latency_max
<1>3. metrics' = [metrics EXCEPT
        !.samples = smp, !.head = metrics.head + 1, !.count = cnt,
        !.total_requests = metrics.total_requests + 1,
        !.success_count = metrics.success_count + 1,
        !.latency_sum = metrics.latency_sum + l, !.latency_min = lo, !.latency_max = hi]
  BY DEF Record
<1>4. smp \in [0..(History - 1) -> Nat] /\ cnt \in Nat /\ lo \in Nat /\ hi \in Nat
  <2>1. metrics.samples \in [0..(History - 1) -> Nat]
    BY <1>2
  <2>2. metrics.count \in Nat /\ metrics.latency_min \in Nat /\ metrics.latency_max \in Nat
    BY <1>2
  <2>3. smp \in [0..(History - 1) -> Nat]
    BY <1>1, <2>1
  <2>4. cnt \in Nat
    BY <2>2
  <2> QED  BY <1>1, <2>2, <2>3, <2>4
<1>5. /\ metrics.head + 1 \in Nat /\ metrics.total_requests + 1 \in Nat
      /\ metrics.success_count + 1 \in Nat /\ metrics.latency_sum + l \in Nat
  <2>1. metrics.head \in Nat /\ metrics.total_requests \in Nat
    BY <1>2
  <2>2. metrics.success_count \in Nat /\ metrics.latency_sum \in Nat
    BY <1>2
  <2> QED  BY <1>1, <2>1, <2>2
<1> HIDE DEF smp, cnt, lo, hi
<1>6. /\ metrics'.samples = smp /\ metrics'.head = metrics.head + 1 /\ metrics'.count = cnt
      /\ metrics'.total_requests = metrics.total_requests + 1
      /\ metrics'.success_count = metrics.success_count + 1
      /\ metrics'.error_count = metrics.error_count
      /\ metrics'.latency_sum = metrics.latency_sum + l
      /\ metrics'.latency_min = lo /\ metrics'.latency_max = hi
  BY <1>2, <1>3
<1>7. metrics' \in [samples : [0..(History - 1) -> Nat], head : Nat, count : Nat,
                    total_requests : Nat, success_count : Nat, error_count : Nat,
                    latency_sum : Nat, latency_min : Nat, latency_max : Nat]
  BY <1>2, <1>3, <1>4, <1>5
<1> QED  BY <1>6, <1>7, Zenon DEF smp, cnt, lo, hi

(* MetricsCollector::Record *)
LEMMA RecordInv ==
  ASSUME MetricsInv, NEW l \in Latency, Record(l), recorded' = Append(recorded, l)
  PROVE  MetricsInv'
<1> DEFINE k == Len(recorded)
<1>1. /\ recorded \in Seq(Latency) /\ k \in Nat
      /\ metrics.head = k /\ metrics.total_requests = k
      /\ metrics.success_count = k /\ metrics.error_count = 0
      /\ metrics.count = IF k < History THEN k ELSE History
  BY DEF MetricsInv, MetricsOf
<1>2. /\ metrics.samples \in [0..(History - 1) -> Nat]
      /\ metrics.latency_sum \in Nat /\ metrics.latency_min \in Nat /\ metrics.latency_max \in Nat
  BY DEF MetricsInv, MetricsOf
<1>3. History \in Nat \ {0} /\ l \in Nat /\ Infinity \in Nat /\ l < Infinity
  BY InferAssumption
<1>4. /\ metrics' \in [samples : [0..(History - 1) -> Nat], head : Nat, count : Nat,
                       total_requests : Nat, success_count : Nat, error_count : Nat,
                       latency_sum : Nat, latency_min : Nat, latency_max : Nat]
      /\ metrics'.samples = [metrics.samples EXCEPT ![metrics.head % History] = l]
      /\ metrics'.head = metrics.head + 1
      /\ metrics'.count = IF metrics.count < History THEN metrics.count + 1 ELSE metrics.count
      /\ metrics'.total_requests = metrics.total_requests + 1
      /\ metrics'.success_count = metrics.success_count + 1
      /\ metrics'.error_count = metrics.error_count
      /\ metrics'.latency_sum = metrics.latency_sum + l
      /\ metrics'.latency_min = IF l < metrics.latency_min THEN l ELSE metrics.latency_min
      /\ metrics'.latency_max = IF l > metrics.latency_max THEN l ELSE metrics.latency_max
  BY RecordFacts
<1>5. /\ recorded' \in Seq(Latency) /\ Len(recorded') = k + 1
      /\ recorded'[k + 1] = l /\ \A i \in 1..k : recorded'[i] = recorded[i]
  BY <1>1
<1> HIDE DEF k
<1>6. /\ metrics'.head = k + 1 /\ metrics'.total_requests = k + 1
      /\ metrics'.success_count = k + 1 /\ metrics'.error_count = 0
  BY <1>1, <1>4
<1>7. metrics'.count = IF k + 1 < History THEN k + 1 ELSE History
  BY <1>1, <1>3, <1>4
<1>8. ASSUME NEW i \in 1..(k + 1), i > (k + 1) - History
      PROVE  metrics'.samples[(i - 1) % History] = recorded'[i]
  <2> DEFINE p == k % History
  <2>1. p \in 0..(History - 1) /\ metrics'.samples = [metrics.samples EXCEPT ![p] = l]
    BY <1>1, <1>3, <1>4
  <2>2. CASE i = k + 1
    <3>1. (i - 1) % History = p
      BY <1>1, <2>2
    <3> HIDE DEF p
    <3> QED  BY <1>2, <1>5, <2>1, <2>2, <3>1
  <2>3. CASE i # k + 1
    <3> DEFINE q == (i - 1) % History
    <3>1. i \in 1..k /\ i > k - History /\ i - 1 \in Nat /\ i - 1 < k /\ k - (i - 1) < History
      BY <1>1, <1>3, <1>8, <2>3
    <3>2. metrics.samples[q] = recorded[i]
      BY <3>1 DEF MetricsInv, MetricsOf, k
    <3>3. q # p
      BY <1>1, <1>3, <3>1, RingApart
    <3>4. q \in 0..(History - 1)
      BY <1>3, <3>1
    <3> HIDE DEF p, q
    <3>5. metrics'.samples[q] = recorded[i]
      BY <1>2, <2>1, <3>2, <3>3, <3>4
    <3> QED  BY <1>5, <3>1, <3>5 DEF q
  <2> QED  BY <2>2, <2>3
<1> DEFINE lo == metrics.latency_min  hi == metrics.latency_max  sum == metrics.latency_sum
           lo2 == metrics'.latency_min  hi2 == metrics'.latency_max  sum2 == metrics'.latency_sum
<1>9. /\ lo \in Nat /\ hi \in Nat /\ sum \in Nat /\ sum2 = sum + l
      /\ lo2 = (IF l < lo THEN l ELSE lo) /\ hi2 = (IF l > hi THEN l ELSE hi)
      /\ k = 0 => sum = 0 /\ lo = Infinity /\ hi = 0
      /\ k > 0 => /\ \E i \in 1..k : lo = recorded[i]
                  /\ \E i \in 1..k : hi = recorded[i]
                  /\ \A i \in 1..k : lo <= recorded[i] /\ recorded[i] <= hi
                  /\ k * lo <= sum /\ sum <= k * hi
  BY <1>2, <1>4 DEF MetricsInv, MetricsOf, k
<1> HIDE DEF lo, hi, sum, lo2, hi2, sum2
<1>10. \A i \in 1..k : recorded[i] \in Nat
  <2>1. \A i \in 1..k : recorded[i] \in Latency
    BY <1>1 DEF k
  <2> QED  BY <2>1, InferAssumption
<1>11. /\ \E i \in 1..(k + 1) : lo2 = recorded'[i]
       /\ \E i \in 1..(k + 1) : hi2 = recorded'[i]
       /\ \A i \in 1..(k + 1) : lo2 <= recorded'[i] /\ recorded'[i] <= hi2
       /\ (k + 1) * lo2 <= sum2 /\ sum2 <= (k + 1) * hi2
  <2>1. CASE k = 0
    <3>1. lo2 = l /\ hi2 = l /\ sum2 = l
      BY <1>3, <1>9, <2>1
    <3>2. (k + 1) * l = l
      BY <1>3, <2>1
    <3> HIDE DEF k
    <3> QED  BY <1>3, <1>5, <2>1, <3>1, <3>2
  <2>2. CASE k # 0
    <3>1. k \in Nat /\ k > 0 /\ k + 1 \in Nat
      BY <1>1, <2>2
    <3>2. /\ \E i \in 1..k : lo = recorded[i]
          /\ \E i \in 1..k : hi = recorded[i]
          /\ \A i \in 1..k : lo <= recorded[i] /\ recorded[i] <= hi
          /\ k * lo <= sum /\ sum <= k * hi
      BY <1>9, <3>1
    <3>3. lo2 \in Nat /\ lo2 <= lo /\ lo2 <= l /\ (lo2 = lo \/ lo2 = l)
          /\ hi2 \in Nat /\ hi <= hi2 /\ l <= hi2 /\ (hi2 = hi \/ hi2 = l)
      BY <1>3, <1>9
    <3>4. \E i \in 1..(k + 1) : lo2 = recorded'[i]
      BY <1>5, <3>1, <3>2, <3>3
    <3>5. \E i \in 1..(k + 1) : hi2 = recorded'[i]
      BY <1>5, <3>1, <3>2, <3>3
    <3>6. \A i \in 1..(k + 1) : lo2 <= recorded'[i] /\ recorded'[i] <= hi2
      <4> TAKE i \in 1..(k + 1)
      <4>1. CASE i = k + 1
        BY <1>5, <3>3, <4>1
      <4>2. CASE i # k + 1
        <5>1. i \in 1..k /\ recorded'[i] = recorded[i]
          BY <1>5, <3>1, <4>2
        <5>2. lo <= recorded[i] /\ recorded[i] <= hi /\ recorded[i] \in Nat
          BY <1>10, <3>2, <5>1
        <5> QED  BY <1>9, <3>3, <5>1, <5>2
      <4> QED  BY <4>1, <4>2
    <3>7. k * lo2 <= k * lo /\ k * hi <= k * hi2
      BY <1>9, <3>1, <3>3, SMT
    <3>8. (k + 1) * lo2 = k * lo2 + lo2 /\ (k + 1) * hi2 = k * hi2 + hi2
      BY <3>1, <3>3, SMT
    <3>9. k * lo2 \in Nat /\ k * lo \in Nat /\ k * hi \in Nat /\ k * hi2 \in Nat
      BY <1>9, <3>1, <3>3, SMT
    <3>10. k * lo2 + lo2 <= sum2 /\ sum2 <= k * hi2 + hi2
      <4> DEFINE w == k * lo2  x == k * lo  y == k * hi  z == k * hi2
      <4>1. /\ w \in Nat /\ x \in Nat /\ y \in Nat /\ z \in Nat
            /\ w <= x /\ x <= sum /\ sum <= y /\ y <= z
        BY <3>2, <3>7, <3>9
      <4> HIDE DEF w, x, y, z
      <4>2. w + lo2 <= sum2 /\ sum2 <= z + hi2
        BY <1>3, <1>9, <3>3, <4>1
      <4> QED  BY <4>2 DEF w, z
    <3> QED  BY <3>4, <3>5, <3>6, <3>8, <3>10, Zenon
  <2> QED  BY <2>1, <2>2
<1>12. k + 1 # 0 /\ k + 1 > 0
  BY <1>1
<1> QED  BY <1>4, <1>5, <1>6, <1>7, <1>8, <1>11, <1>12 DEF MetricsInv, MetricsOf, lo2, hi2, sum2

-----------------------------------------------------------------------------
(* Every error path of tn_infer_create releases what was made before. *)
LEMMA MadeIsUndone ==
  ASSUME NEW p \in Needed
  PROVE  MadeBefore(p) \subseteq Undo(p)
<1> DEFINE order == <<"handle", "mempool", "threadpool", "scheduler", "models">>
           k == CHOOSE i \in DOMAIN order : order[i] = p
<1>1. DOMAIN order = 1..5 /\ order[1] = "handle" /\ order[2] = "mempool"
      /\ order[3] = "threadpool" /\ order[4] = "scheduler" /\ order[5] = "models"
  OBVIOUS
<1> HIDE DEF order
<1>2. \E i \in DOMAIN order : order[i] = p
  BY <1>1 DEF Needed
<1>3. k \in DOMAIN order /\ order[k] = p
  BY <1>2
<1> HIDE DEF k
<1>4. MadeBefore(p) = {order[i] : i \in 1..(k - 1)}
  BY DEF MadeBefore, order, k
<1>5. k \in 1..5
  BY <1>1, <1>3
<1>6. CASE k = 1
  BY <1>4, <1>6
<1>7. CASE k = 2
  <2>1. p = "mempool" /\ Undo(p) = {"handle"}
    BY <1>1, <1>3, <1>7 DEF Undo
  <2>2. \A i \in 1..(k - 1) : i = 1
    BY <1>7
  <2> QED  BY <1>1, <1>4, <2>1, <2>2
<1>8. CASE k = 3
  <2>1. p = "threadpool" /\ Undo(p) = {"handle", "mempool"}
    BY <1>1, <1>3, <1>8 DEF Undo
  <2>2. \A i \in 1..(k - 1) : i = 1 \/ i = 2
    BY <1>8
  <2> QED  BY <1>1, <1>4, <2>1, <2>2
<1>9. CASE k = 4
  <2>1. p = "scheduler" /\ Undo(p) = {"handle", "mempool", "threadpool"}
    BY <1>1, <1>3, <1>9 DEF Undo
  <2>2. \A i \in 1..(k - 1) : i = 1 \/ i = 2 \/ i = 3
    BY <1>9
  <2> QED  BY <1>1, <1>4, <2>1, <2>2
<1>10. CASE k = 5
  <2>1. p = "models" /\ Undo(p) = {"handle", "mempool", "threadpool", "scheduler"}
    BY <1>1, <1>3, <1>10 DEF Undo
  <2>2. \A i \in 1..(k - 1) : i = 1 \/ i = 2 \/ i = 3 \/ i = 4
    BY <1>10
  <2> QED  BY <1>1, <1>4, <2>1, <2>2
<1> QED  BY <1>5, <1>6, <1>7, <1>8, <1>9, <1>10

LEMMA FreshInv ==
  MetricsOf(<<>>, Fresh)
<1>1. History \in Nat \ {0} /\ Infinity \in Nat
  BY InferAssumption
<1>2. Fresh \in [samples : [0..(History - 1) -> Nat], head : Nat, count : Nat,
                 total_requests : Nat, success_count : Nat, error_count : Nat,
                 latency_sum : Nat, latency_min : Nat, latency_max : Nat]
  BY <1>1 DEF Fresh
<1>3. /\ Fresh.head = 0 /\ Fresh.total_requests = 0 /\ Fresh.success_count = 0
      /\ Fresh.error_count = 0 /\ Fresh.count = 0 /\ Fresh.latency_sum = 0
      /\ Fresh.latency_min = Infinity /\ Fresh.latency_max = 0
  BY DEF Fresh
<1>4. <<>> \in Seq(Latency) /\ Len(<<>>) = 0
  OBVIOUS
<1> QED  BY <1>1, <1>2, <1>3, <1>4 DEF MetricsOf

LEMMA MetricsInit ==
  Init => MetricsInv
BY FreshInv DEF Init, MetricsInv

LEMMA MetricsStep ==
  ASSUME MetricsInv, [Next]_vars
  PROVE  MetricsInv'
<1>1. ASSUME UNCHANGED <<metrics, recorded>> PROVE MetricsInv'
  BY <1>1 DEF MetricsInv, MetricsOf
<1>2. CASE Destroy
  <2>1. metrics' = Fresh /\ recorded' = <<>>
    BY <1>2 DEF Destroy
  <2> QED  BY <2>1, FreshInv DEF MetricsInv
<1>3. ASSUME NEW n \in Name, NEW l \in Latency, Run(n, l) PROVE MetricsInv'
  <2>1. Record(l) /\ recorded' = Append(recorded, l)
    BY <1>3 DEF Run
  <2> QED  BY <2>1, RecordInv
<1>4. ASSUME NEW optional \in SUBSET Optional,
             Create(optional) \/ \E p \in Needed : CreateFails(p, optional)
      PROVE  MetricsInv'
  BY <1>1, <1>4 DEF Create, CreateFails
<1>5. ASSUME NEW n \in Name, (\E path \in Path : Load(path, n)) \/ LoadFails(n) \/ Unload(n)
      PROVE  MetricsInv'
  BY <1>1, <1>5 DEF Load, LoadFails, Unload
<1>6. CASE UNCHANGED vars
  BY <1>1, <1>6 DEF vars
<1> QED  BY <1>2, <1>3, <1>4, <1>5, <1>6 DEF Next

LEMMA InferInit ==
  Init => InferInv
<1> SUFFICES ASSUME Init PROVE InferInv
  OBVIOUS
<1>1. has = {} /\ lost = {} /\ models = <<>> /\ models_ = <<>>
  BY DEF Init
<1>2. DOMAIN models_ = {} /\ models \in Seq(SlotType) /\ Len(models) = 0
  BY <1>1
<1>3. max_models \in Nat
  BY InferAssumption
<1> QED  BY <1>1, <1>2, <1>3 DEF InferInv, InferType, LoaderInv

LEMMA InferStep ==
  ASSUME NamesFit, InferInv, [Next]_vars
  PROVE  InferInv'
<1>1. InferType /\ LoaderInv /\ lost \cap Needed = {}
  BY DEF InferInv
<1>2. ASSUME UNCHANGED <<has, models, models_>> PROVE InferType' /\ LoaderInv'
  BY <1>1, <1>2 DEF InferType, LoaderInv
<1>3. ASSUME NEW optional \in SUBSET Optional, Create(optional) PROVE InferInv'
  <2>1. has = {} /\ lost' = lost /\ models' = models /\ models_' = models_
    BY <1>3 DEF Create
  <2>2. has' # {}
    BY <1>3 DEF Create, Needed
  <2>3. models = <<>> /\ DOMAIN models = {} /\ DOMAIN models_ = {}
    BY <1>1, <2>1 DEF LoaderInv
  <2>4. InferType' /\ LoaderInv'
    BY <1>1, <2>1, <2>2, <2>3 DEF InferType, LoaderInv
  <2> QED  BY <1>1, <2>1, <2>4 DEF InferInv
<1>4. ASSUME NEW optional \in SUBSET Optional, NEW p \in Needed, CreateFails(p, optional)
      PROVE  InferInv'
  <2>1. /\ has' = has /\ models' = models /\ models_' = models_
        /\ lost' = lost \cup ((MadeBefore(p) \cup optional) \ Undo(p))
    BY <1>4 DEF CreateFails
  <2>2. Optional \cap Needed = {}
    BY DEF Optional, Needed
  <2>3. MadeBefore(p) \subseteq Undo(p)
    BY MadeIsUndone
  <2>4. lost' \cap Needed = {}
    BY <1>1, <2>1, <2>2, <2>3
  <2> QED  BY <1>2, <2>1, <2>4 DEF InferInv
<1>5. CASE Destroy
  <2>1. InferType' /\ LoaderInv'
    BY <1>1, <1>5, DestroyInv
  <2>2. lost' = lost \cup (has \cap {"loader"})
    BY <1>5 DEF Destroy
  <2>3. lost' \cap Needed = {}
    BY <1>1, <2>2 DEF Needed
  <2> QED  BY <2>1, <2>3 DEF InferInv
<1>6. ASSUME NEW n \in Name, NEW path \in Path, Load(path, n) PROVE InferInv'
  <2>1. InferType' /\ LoaderInv'
    BY <1>1, <1>6, LoadInv
  <2> QED  BY <1>1, <1>6, <2>1 DEF Load, InferInv
<1>7. ASSUME NEW n \in Name, LoadFails(n) PROVE InferInv'
  <2>1. InferType' /\ LoaderInv'
    BY <1>1, <1>7, LoadFailsInv
  <2> QED  BY <1>1, <1>7, <2>1 DEF LoadFails, InferInv
<1>8. ASSUME NEW n \in Name, Unload(n) PROVE InferInv'
  <2>1. InferType' /\ LoaderInv'
    BY <1>1, <1>8, UnloadInv
  <2> QED  BY <1>1, <1>8, <2>1 DEF Unload, InferInv
<1>9. ASSUME NEW n \in Name, NEW l \in Latency, Run(n, l) PROVE InferInv'
  <2>1. UNCHANGED <<has, lost, models, models_>>
    BY <1>9 DEF Run
  <2> QED  BY <1>1, <1>2, <2>1 DEF InferInv
<1>10. CASE UNCHANGED vars
  BY <1>1, <1>2, <1>10 DEF vars, InferInv
<1> QED  BY <1>3, <1>4, <1>5, <1>6, <1>7, <1>8, <1>9, <1>10 DEF Next

-----------------------------------------------------------------------------
LEMMA SlotsMatch ==
  InferInv => SlotsMatchLoader
<1> SUFFICES ASSUME InferInv PROVE SlotsMatchLoader
  OBVIOUS
<1>1. InferType /\ LoaderInv
  BY DEF InferInv
<1>2. Len(models) <= max_models
  BY <1>1 DEF LoaderInv
<1>3. ASSUME "loader" \in has, NEW n \in Name
      PROVE  /\ Cardinality(Named(n)) <= 1
             /\ n \in DOMAIN models_ <=> \E i \in Named(n) : models[i].loaded
             /\ \A i \in Named(n) : models[i].loaded => models[i].size = ModelSize[models_[n]]
  <2>1. /\ \A i, j \in DOMAIN models :
             models[i].name \in Name /\ models[i].name = models[j].name => i = j
        /\ \A i \in DOMAIN models :
             models[i].loaded => /\ models[i].name \in DOMAIN models_
                                 /\ models[i].size = ModelSize[models_[models[i].name]]
        /\ \A m \in DOMAIN models_ :
             \E i \in DOMAIN models : models[i].name = m /\ models[i].loaded
    BY <1>1, <1>3 DEF LoaderInv
  <2>2. Cardinality(Named(n)) <= 1
    <3>1. CASE Named(n) = {}
      BY <3>1, FS_EmptySet
    <3>2. CASE Named(n) # {}
      <4>1. PICK i \in Named(n) : Named(n) = {i}
        BY <2>1, <3>2 DEF Named
      <4>2. Cardinality({i}) = 1
        BY FS_Singleton
      <4> QED  BY <4>1, <4>2
    <3> QED  BY <3>1, <3>2
  <2>3. n \in DOMAIN models_ <=> \E i \in Named(n) : models[i].loaded
    BY <2>1 DEF Named
  <2>4. \A i \in Named(n) : models[i].loaded => models[i].size = ModelSize[models_[n]]
    BY <2>1 DEF Named
  <2> QED  BY <2>2, <2>3, <2>4
<1> QED  BY <1>2, <1>3 DEF SlotsMatchLoader

LEMMA MetricsMatch ==
  MetricsInv => MetricsExact
<1> SUFFICES ASSUME MetricsInv PROVE MetricsExact
  OBVIOUS
<1> DEFINE k == Len(recorded)  lo == metrics.latency_min  hi == metrics.latency_max
           sum == metrics.latency_sum
<1>1. /\ recorded \in Seq(Latency) /\ k \in Nat /\ DOMAIN recorded = 1..k
      /\ metrics.total_requests = k /\ metrics.success_count = k /\ metrics.error_count = 0
      /\ metrics.count = IF k < History THEN k ELSE History
      /\ lo \in Nat /\ hi \in Nat /\ sum \in Nat
  BY DEF MetricsInv, MetricsOf
<1>2. \A i \in 1..k : i > k - History => metrics.samples[(i - 1) % History] = recorded[i]
  BY DEF MetricsInv, MetricsOf
<1>3. k > 0 => /\ \E i \in 1..k : lo = recorded[i]
               /\ \E i \in 1..k : hi = recorded[i]
               /\ \A i \in 1..k : lo <= recorded[i] /\ recorded[i] <= hi
               /\ k * lo <= sum /\ sum <= k * hi
  BY DEF MetricsInv, MetricsOf
<1>4. History \in Nat \ {0}
  BY InferAssumption
<1>5. \A i \in 1..k : recorded[i] \in Nat
  <2>1. \A i \in 1..k : recorded[i] \in Latency
    BY <1>1
  <2> QED  BY <2>1, InferAssumption
<1> HIDE DEF k, lo, hi, sum
<1>6. metrics.count = Min({k, History})
  <2>1. ASSUME NEW m, m = IF k < History THEN k ELSE History PROVE Min({k, History}) = m
    <3>1. m \in {k, History} /\ \A y \in {k, History} : m <= y
      BY <1>1, <1>4, <2>1
    <3>2. \A x \in {k, History} : (\A y \in {k, History} : x <= y) => x = m
      BY <1>1, <1>4, <2>1
    <3> QED  BY <3>1, <3>2 DEF Min
  <2> QED  BY <1>1, <2>1
<1>7. ASSUME k > 0 PROVE min_latency_us = Min(Range(recorded)) /\ max_latency_us = Max(Range(recorded))
  <2>1. min_latency_us = lo /\ max_latency_us = hi
    BY <1>1, <1>7 DEF min_latency_us, max_latency_us, lo, hi
  <2> DEFINE R == Range(recorded)
  <2>2. \A x \in R : \E i \in 1..k : x = recorded[i]
    BY <1>1 DEF Range
  <2>3. \A i \in 1..k : recorded[i] \in R
    BY <1>1 DEF Range
  <2> HIDE DEF R
  <2>4. lo \in R /\ hi \in R /\ \A x \in R : x \in Nat /\ lo <= x /\ x <= hi
    BY <1>3, <1>5, <1>7, <2>2, <2>3
  <2>5. Min(R) = lo
    <3>1. \A x \in R : (\A y \in R : x <= y) => x = lo
      BY <1>1, <2>4
    <3>2. \E x \in R : \A y \in R : x <= y
      BY <2>4
    <3> QED  BY <3>1, <3>2, Zenon DEF Min
  <2>6. Max(R) = hi
    <3>1. \A x \in R : (\A y \in R : x >= y) => x = hi
      BY <1>1, <2>4
    <3>2. \E x \in R : \A y \in R : x >= y
      <4>1. \A y \in R : hi >= y
        BY <1>1, <2>4
      <4> QED  BY <2>4, <4>1, Zenon
    <3> QED  BY <3>1, <3>2, Zenon DEF Max
  <2> QED  BY <2>1, <2>5, <2>6 DEF R
<1>8. min_latency_us <= avg_latency_us /\ avg_latency_us <= max_latency_us
  <2>1. CASE k > 0
    <3>1. lo <= sum \div k /\ sum \div k <= hi
      <4>1. k \in Nat \ {0} /\ k * lo <= sum /\ sum <= k * hi
        BY <1>1, <1>3, <2>1
      <4>2. lo \in Nat /\ hi \in Nat /\ sum \in Nat
        BY <1>1
      <4> QED  BY <4>1, <4>2, AverageBetween, Zenon
    <3> QED  BY <1>1, <2>1, <3>1 DEF min_latency_us, max_latency_us, avg_latency_us, lo, hi, sum
  <2>2. CASE k = 0
    BY <1>1, <2>2 DEF min_latency_us, max_latency_us, avg_latency_us
  <2> QED  BY <1>1, <2>1, <2>2
<1>9. metrics.total_requests = k /\ metrics.success_count + metrics.error_count = k
  BY <1>1
<1> QED  BY <1>2, <1>6, <1>7, <1>8, <1>9 DEF MetricsExact, k

(* The metrics that tn_infer_get_metrics reports are those of the requests   *)
(* recorded, whatever the length of the ring and the number of requests.     *)
THEOREM InferMetrics ==
  Spec => []MetricsExact
<1>1. MetricsInv /\ [Next]_vars => MetricsInv'
  BY MetricsStep
<1> QED  BY <1>1, MetricsInit, MetricsMatch, PTL DEF Spec

(* As long as no name is cut off, what tn_infer_list_models tells is what    *)
(* tn_infer finds, for every number of slots, names and files.               *)
THEOREM InferSlots ==
  NamesFit => (Spec => []SlotsMatchLoader)
<1> SUFFICES ASSUME NamesFit PROVE Spec => []SlotsMatchLoader
  OBVIOUS
<1>1. InferInv /\ [Next]_vars => InferInv'
  BY InferStep
<1> QED  BY <1>1, InferInit, SlotsMatch, PTL DEF Spec

(* Likewise every error path of tn_infer_create and tn_infer_destroy release *)
(* the handle, the pools, the scheduler, the array and all models.           *)
THEOREM InferReleases ==
  NamesFit => (Spec => []Released)
<1> SUFFICES ASSUME NamesFit PROVE Spec => []Released
  OBVIOUS
<1>1. InferInv /\ [Next]_vars => InferInv'
  BY InferStep
<1>2. InferInv => Released
  BY DEF InferInv, LoaderInv, Released
<1> QED  BY <1>1, <1>2, InferInit, PTL DEF Spec

-----------------------------------------------------------------------------
(***************************************************************************)
(* The tick counter.                                                       *)
(***************************************************************************)
(* systick_update multiplies two uint32_t: the counts that passed before    *)
(* tn_systick_init, or between two interrupts, must fit one.                *)
InTime ==
  /\ \A b \in Boot : b < 2^Half /\ b <= MaxCounts
  /\ counts_per_tick + MaxLateCounts < 2^Half
  /\ MaxCounts < 2^(2 * Half)

(* The inductive invariant: with TicksExact, the bound on the lateness. *)
TickInv ==
  /\ counts \in Nat /\ last_count \in Nat /\ cur_systick \in Nat
  /\ counts <= MaxCounts
  /\ counts < last_count + 2^Half
  /\ TicksExact

(* The widths are powers of two. *)
LEMMA Widths == 2^Half \in Nat \ {0} /\ 2^(2 * Half) \in Nat \ {0}
BY SystickAssumption, WidthAssumption

(* A tick has at least one count. *)
LEMMA CountsPerTick == counts_per_tick \in Nat \ {0}
<1> DEFINE c == ClockFreq  f == Freq
<1>1. c \in Nat /\ f \in Nat /\ f > 0 /\ c >= f
  BY SystickAssumption
<1>2. c \div f \in Nat /\ c \div f >= 1
  BY <1>1, SMT
<1> QED  BY <1>2 DEF counts_per_tick

(* Whole ticks: what their number is between. *)
LEMMA WholeTicks ==
  ASSUME NEW n \in Nat, NEW c \in Nat, c > 0
  PROVE  /\ n \div c \in Nat
         /\ (n \div c) * c <= n
         /\ n < (n \div c) * c + c
         /\ n \div c <= n
<1>1. n = c * (n \div c) + (n % c) /\ n % c \in 0..(c - 1) /\ n \div c \in Nat
  BY SMT
<1>2. (n \div c) * c = c * (n \div c)
  BY <1>1, SMT
<1>3. n \div c <= c * (n \div c)
  BY <1>1, SMT
<1> QED  BY <1>1, <1>2, <1>3, SMT

(* A value below the width is not truncated. *)
LEMMA NoTruncation ==
  ASSUME NEW n \in Nat, NEW m \in Nat, n < m
  PROVE  n % m = n
BY SMT

(* tn_systick_init establishes TickInv. *)
LEMMA TickInit == InTime /\ SystickInit => TickInv
<1> SUFFICES ASSUME InTime, SystickInit PROVE TickInv
  OBVIOUS
<1> DEFINE c == counts_per_tick  d == counts \div c
<1>1. counts \in Nat /\ counts < 2^Half /\ counts <= MaxCounts
  BY SystickAssumption DEF InTime, SystickInit
<1>2. c \in Nat /\ c > 0
  BY CountsPerTick
<1> HIDE DEF c
<1>3. d \in Nat /\ d * c <= counts /\ counts < d * c + c /\ d <= counts
  BY <1>1, <1>2, WholeTicks
<1>4. d * c \in Nat
  BY <1>2, <1>3, SMT
<1>5. d % 2^Half = d /\ (d * c) % 2^Half = d * c
  <2>1. d < 2^Half /\ d * c < 2^Half
    BY <1>1, <1>3, <1>4, Widths, SMT
  <2> QED  BY <2>1, <1>3, <1>4, Widths, NoTruncation
<1>6. cur_systick = d /\ last_count = d * c /\ compare = last_count + c
  BY <1>5 DEF SystickInit, u32, c
<1> HIDE DEF d
<1>7. counts < last_count + 2^Half
  BY <1>1, <1>4, <1>6, Widths, SMT
<1>8. TicksExact
  BY <1>3, <1>6 DEF TicksExact, c
<1> QED  BY <1>1, <1>3, <1>4, <1>6, <1>7, <1>8, SystickAssumption DEF TickInv

(* The tick interrupt makes up for all the whole ticks that have passed. *)
LEMMA TickTick ==
  ASSUME InTime, TickInv, sys_timer_irq_handler
  PROVE  TickInv'
<1> DEFINE c == counts_per_tick  n == counts - last_count  d == n \div c
<1>1. n \in Nat /\ n < 2^Half
  BY Widths, SMT DEF TickInv, TicksExact
<1>2. c \in Nat /\ c > 0
  BY CountsPerTick
<1> HIDE DEF c
<1>3. d \in Nat /\ d * c <= n /\ n < d * c + c /\ d <= n
  <2> HIDE DEF n
  <2> QED  BY <1>1, <1>2, WholeTicks
<1>4. d * c \in Nat
  BY <1>2, <1>3, SMT
<1>5. d % 2^Half = d /\ (d * c) % 2^Half = d * c
  <2> HIDE DEF d, n
  <2>1. d < 2^Half /\ d * c < 2^Half
    BY <1>1, <1>3, <1>4, Widths, SMT
  <2> QED  BY <2>1, <1>3, <1>4, Widths, NoTruncation
<1>6. elapsed_tick = d
  BY <1>5 DEF elapsed_tick, u32, c
<1>7. /\ cur_systick' = (cur_systick + d) % 2^(2 * Half)
      /\ last_count' = last_count + d * c
      /\ compare' = last_count' + c
      /\ counts' = counts
  BY <1>5, <1>6 DEF sys_timer_irq_handler, systick_update, u32, u64, c
<1>8. counts \in Nat /\ last_count \in Nat /\ cur_systick \in Nat /\ counts <= MaxCounts
      /\ last_count = cur_systick * c /\ n = counts - last_count
  BY DEF TickInv, TicksExact, c
<1> HIDE DEF d, n
<1>9. last_count + d * c = (cur_systick + d) * c
  BY <1>2, <1>3, <1>8, SMT
<1>10. last_count + d * c <= counts
  BY <1>3, <1>4, <1>8, SMT
<1>11. cur_systick + d <= (cur_systick + d) * c
  <2> DEFINE e == cur_systick + d
  <2>1. e \in Nat
    BY <1>3, <1>8, SMT
  <2> HIDE DEF e
  <2>2. e <= e * c
    BY <1>2, <2>1, SMT
  <2> QED  BY <2>2 DEF e
<1>12. cur_systick' = cur_systick + d
  <2>1. MaxCounts \in Nat /\ MaxCounts < 2^(2 * Half)
    BY SystickAssumption DEF InTime
  <2>2. (cur_systick + d) * c \in Nat
    BY <1>4, <1>8, <1>9, SMT
  <2>3. cur_systick + d \in Nat /\ cur_systick + d < 2^(2 * Half)
    BY <1>3, <1>8, <1>9, <1>10, <1>11, <2>1, <2>2, Widths, SMT
  <2> QED  BY <1>7, <2>3, Widths, NoTruncation
<1>13. counts' < last_count' + 2^Half
  BY <1>1, <1>4, <1>7, <1>8, Widths, SMT
<1>14. last_count' \in Nat /\ cur_systick' \in Nat /\ counts' \in Nat /\ counts' <= MaxCounts
  BY <1>3, <1>4, <1>7, <1>8, <1>12, SMT
<1>15. last_count' = cur_systick' * c /\ last_count' <= counts' /\ compare' = last_count' + c
  BY <1>7, <1>9, <1>10, <1>12
<1> QED  BY <1>13, <1>14, <1>15 DEF TickInv, TicksExact, c

(* Sleeping and waking leave the counters alone. *)
LEMMA TickFrame ==
  ASSUME TickInv, UNCHANGED counterVars
  PROVE  TickInv'
BY DEF TickInv, TicksExact, counterVars

(* Every step of the tick, the hardware and the threads keeps TickInv. *)
LEMMA TickStep == InTime /\ TickInv /\ [SystickNext]_systickVars => TickInv'
<1> SUFFICES ASSUME InTime, TickInv, [SystickNext]_systickVars PROVE TickInv'
  OBVIOUS
<1>1. CASE Count
  <2>1. /\ counts' = counts + 1 /\ counts < MaxCounts /\ counts < compare + MaxLateCounts
        /\ compare' = compare /\ last_count' = last_count /\ cur_systick' = cur_systick
    BY <1>1 DEF Count
  <2>2. counts' < last_count' + 2^Half
    BY <2>1, CountsPerTick, SystickAssumption, Widths, SMT
       DEF TickInv, TicksExact, InTime
  <2>3. counts' \in Nat /\ counts' <= MaxCounts /\ last_count' <= counts'
    BY <2>1, SystickAssumption, SMT DEF TickInv, TicksExact
  <2> QED  BY <2>1, <2>2, <2>3 DEF TickInv, TicksExact
<1>2. CASE sys_timer_irq_handler
  BY <1>2, TickTick
<1>3. CASE Over
  BY <1>3, TickFrame DEF Over, systickVars
<1>4. ASSUME NEW t \in Thread, NEW n \in Nanos, Nanosleep(t, n) \/ Deadline(t, n)
      PROVE  TickInv'
  BY <1>4, TickFrame DEF Nanosleep, Deadline, counterVars
<1>5. ASSUME NEW t \in Thread, BlockUntil(t) \/ Return(t)
      PROVE  TickInv'
  BY <1>5, TickFrame DEF BlockUntil, Return, counterVars
<1>6. CASE UNCHANGED systickVars
  BY <1>6, TickFrame DEF systickVars
<1> QED  BY <1>1, <1>2, <1>3, <1>4, <1>5, <1>6 DEF SystickNext

(* The tick interrupt neither loses nor repeats a tick and does not drift,  *)
(* for every frequency and width, if no interrupt is so late that the       *)
(* product in systick_update overflows: TicksExact always holds.            *)
THEOREM SystickExact == InTime => (SystickSpec => []TicksExact)
<1> SUFFICES ASSUME InTime PROVE SystickSpec => []TicksExact
  OBVIOUS
<1>1. SystickInit => TickInv
  BY TickInit
<1>2. TickInv /\ [SystickNext]_systickVars => TickInv'
  BY TickStep
<1>3. TickInv => TicksExact
  BY DEF TickInv
<1> QED  BY <1>1, <1>2, <1>3, PTL DEF SystickSpec

-----------------------------------------------------------------------------
(***************************************************************************)
(* Sleeping.                                                               *)
(***************************************************************************)
(* The frequencies at which a period is a whole number of nanoseconds and   *)
(* the multiplier of ns_to_ticks came out rounded up.                       *)
RoundsUp ==
  /\ Sec = Freq * tot_ns_per_tick
  /\ ns_per_tick.mult = tot_ns_per_tick * 2^ns_per_tick.shift
  /\ tick_per_ns.shift > 0
  /\ tick_per_ns.mult * tot_ns_per_tick >= 2^tick_per_ns.shift

(* No product of the conversions overflows a uint64_t, and periods are      *)
(* uint64_t.                                                                *)
ProductsFit ==
  /\ ns_per_tick.mult * (MaxCounts \div counts_per_tick) < 2^(2 * Half)
  /\ tick_per_ns.mult * (MaxSecs * Sec) < 2^(2 * Half)
  /\ \A n \in Nanos : n < 2^(2 * Half)

(* A quotient is the number of times the divisor goes in. *)
LEMMA Quotient ==
  ASSUME NEW x \in Nat, NEW p \in Nat, p > 0, NEW q \in Nat
  PROVE  /\ p * q <= x => q <= x \div p
         /\ x < p * (q + 1) => x \div p <= q
<1> PICK d \in Nat, r \in Nat : d = x \div p /\ x = p * d + r /\ r < p
  BY SMT
<1>1. ASSUME p * q <= x, d < q PROVE FALSE
  <2>1. PICK e \in Nat : q = d + 1 + e
    BY <1>1, SMT
  <2>2. p * q = p * d + p + p * e /\ p * e \in Nat
    BY <2>1, SMT
  <2> QED  BY <1>1, <2>2, SMT
<1>2. ASSUME x < p * (q + 1), q < d PROVE FALSE
  <2>1. PICK e \in Nat : d = q + 1 + e
    BY <1>2, SMT
  <2>2. p * d = p * (q + 1) + p * e /\ p * e \in Nat
    BY <2>1, SMT
  <2>3. p * (q + 1) \in Nat
    BY SMT
  <2> QED  BY <1>2, <2>2, <2>3, SMT
<1> QED  BY <1>1, <1>2, SMT

(* How far a quotient is from its dividend. *)
LEMMA WholeQuotient ==
  ASSUME NEW x \in Nat, NEW p \in Nat, p > 0
  PROVE  p * (x \div p) <= x /\ x \div p \in Nat /\ x < p * ((x \div p) + 1)
<1> PICK d \in Nat, r \in Nat : d = x \div p /\ x = p * d + r /\ r < p
  BY SMT
<1>1. p * (d + 1) = p * d + p
  BY SMT
<1> QED  BY <1>1, SMT

(* Overflow makes no number larger. *)
LEMMA Truncated ==
  ASSUME NEW x \in Nat, NEW m \in Nat, m > 0
  PROVE  x % m \in Nat /\ x % m <= x
BY SMT

(* A multiplier rounded to the nearest is too large by one half at most. *)
LEMMA Nearest ==
  ASSUME NEW f \in Nat, f > 0, NEW T \in Nat, T > 0, NEW p \in Nat, NEW m \in Nat,
         m <= ((f * p) + ((f * T) \div 2)) \div (f * T)
  PROVE  2 * (m * T) <= (2 * p) + T
<1> PICK S \in Nat : S = f * T
  BY SMT
<1>0. S > 0
  BY SMT
<1> PICK a \in Nat : a = f * p
  BY SMT
<1> PICK h \in Nat : h = S \div 2 /\ 2 * h <= S
  BY SMT
<1> PICK x \in Nat : x = a + h
  BY SMT
<1>1. m <= x \div S
  OBVIOUS
<1>2. S * (x \div S) <= x /\ x \div S \in Nat
  BY <1>0, WholeQuotient, Zenon
<1>3. S * m <= x
  <2>1. PICK e \in Nat : x \div S = m + e
    BY <1>1, <1>2, SMT
  <2>2. S * (m + e) = S * m + S * e /\ S * e \in Nat /\ S * m \in Nat
    BY SMT
  <2> QED  BY <1>2, <2>1, <2>2, SMT
<1>4. 2 * (S * m) <= (2 * a) + S
  <2>1. S * m \in Nat
    BY SMT
  <2> QED  BY <1>3, <2>1, SMT
<1>5. 2 * (S * m) = f * (2 * (m * T)) /\ (2 * a) + S = f * ((2 * p) + T)
  BY SMT
<1>6. ASSUME NEW u \in Nat, NEW v \in Nat, f * u <= f * v PROVE u <= v
  <2>1. ASSUME NEW e \in Nat, u = v + 1 + e PROVE FALSE
    <3>1. f * u = f * v + f + f * e /\ f * e \in Nat /\ f * v \in Nat
      BY <2>1, SMT
    <3> QED  BY <1>6, <3>1, SMT
  <2>2. u > v => \E e \in Nat : u = v + 1 + e
    <3>1. u > v => u - v - 1 \in Nat /\ u = v + 1 + (u - v - 1)
      BY SMT
    <3> QED  BY <3>1, Zenon
  <2> QED  BY <2>1, <2>2, SMT
<1>7. 2 * (m * T) \in Nat /\ (2 * p) + T \in Nat
  BY SMT
<1>8. f * (2 * (m * T)) <= f * ((2 * p) + T)
  BY <1>4, <1>5, Zenon
<1> QED  BY <1>6, <1>7, <1>8, Zenon

(* With a multiplier rounded up no whole tick is lost ... *)
LEMMA TicksLow ==
  ASSUME NEW T \in Nat, T > 0, NEW p \in Nat, p > 0, NEW m \in Nat, m * T >= p, NEW n \in Nat
  PROVE  n \div T <= (m * n) \div p
<1> PICK q \in Nat : q = n \div T /\ T * q <= n
  BY WholeQuotient
<1>1. PICK e \in Nat : m * T = p + e
  BY SMT
<1>2. PICK r \in Nat : n = (T * q) + r
  <2>1. T * q \in Nat
    BY SMT
  <2> QED  BY <2>1, SMT
<1>3. m * n = (p * q) + ((e * q) + (m * r))
  <2>1. m * n = (m * (T * q)) + (m * r)
    BY <1>2, SMT
  <2>2. m * (T * q) = (m * T) * q
    BY SMT
  <2>3. (m * T) * q = (p * q) + (e * q)
    BY <1>1, SMT
  <2>4. m * r \in Nat /\ p * q \in Nat /\ e * q \in Nat
    BY SMT
  <2> QED  BY <2>1, <2>2, <2>3, <2>4, SMT
<1>4. m * n \in Nat /\ p * q \in Nat /\ (e * q) + (m * r) \in Nat
  BY SMT
<1>5. p * q <= m * n
  BY <1>3, <1>4, SMT
<1> QED  BY <1>4, <1>5, Quotient, Zenon

(* ... and with one rounded to the nearest an extra tick is gained for      *)
(* every 2 * p nanoseconds at most, p being the power of the shift.         *)
LEMMA TicksHigh ==
  ASSUME NEW T \in Nat, T > 0, NEW p \in Nat, p > 0, NEW m \in Nat,
         2 * (m * T) <= (2 * p) + T, NEW n \in Nat, NEW b \in Nat, n <= b * (2 * p)
  PROVE  (m * n) \div p <= (n \div T) + b
<1> PICK q \in Nat : q = n \div T /\ n < T * (q + 1)
  BY WholeQuotient
<1> PICK k \in Nat : k = (m * n) \div p /\ p * k <= m * n
  <2>1. m * n \in Nat
    BY SMT
  <2> QED  BY <2>1, WholeQuotient, Zenon
<1> SUFFICES ASSUME NEW e \in Nat, k = q + b + 1 + e PROVE FALSE
  <2>1. k > q + b => k - (q + b + 1) \in Nat /\ k = q + b + 1 + (k - (q + b + 1))
    BY SMT
  <2>2. ~(k > q + b) => k <= q + b
    BY SMT
  <2> QED  BY <2>1, <2>2, Zenon
<1>1. PICK w \in Nat : (2 * p) + T = (2 * (m * T)) + w
  <2>1. m * T \in Nat
    BY SMT
  <2> QED  BY <2>1, SMT
<1>2. PICK v \in Nat : b * (2 * p) = n + v
  <2>1. b * (2 * p) \in Nat
    BY SMT
  <2> QED  BY <2>1, SMT
<1>3. PICK z \in Nat : m * n = (p * k) + z
  <2>1. m * n \in Nat /\ p * k \in Nat
    BY SMT
  <2> QED  BY <2>1, SMT
<1>4. ((2 * p) + T) * n = (2 * (T * (m * n))) + (w * n)
  <2>1. ((2 * p) + T) * n = ((2 * (m * T)) * n) + (w * n)
    BY <1>1, SMT
  <2>2. (2 * (m * T)) * n = 2 * (T * (m * n))
    BY SMT
  <2> QED  BY <2>1, <2>2
<1>5. T * (m * n) = (T * (p * k)) + (T * z)
  BY <1>3, SMT
<1>6. ((2 * p) + T) * n = ((2 * p) * n) + (T * n)
  BY SMT
<1>7. T * n = (T * (b * (2 * p))) - (T * v)
  <2>1. T * (b * (2 * p)) = T * (n + v)
    BY <1>2
  <2>2. T * (n + v) = T * n + T * v
    BY SMT
  <2> QED  BY <2>1, <2>2, SMT
<1>8. 2 * (T * (p * k)) = ((2 * p) * (T * (q + 1))) + (T * (b * (2 * p))) + ((2 * p) * (T * e))
  <2>1. p * k = (p * (q + 1)) + (p * b) + (p * e)
    BY SMT
  <2>2. T * (p * k) = (T * (p * (q + 1))) + (T * (p * b)) + (T * (p * e))
    BY <2>1, SMT
  <2>3. /\ 2 * (T * (p * (q + 1))) = (2 * p) * (T * (q + 1))
        /\ 2 * (T * (p * b)) = T * (b * (2 * p))
        /\ 2 * (T * (p * e)) = (2 * p) * (T * e)
    BY SMT
  <2> QED  BY <2>2, <2>3, SMT
<1>9. PICK y \in Nat : T * (q + 1) = n + 1 + y
  <2>1. T * (q + 1) \in Nat
    BY SMT
  <2> QED  BY <2>1, SMT
<1>10. (2 * p) * (T * (q + 1)) = ((2 * p) * n) + (2 * p) + ((2 * p) * y)
  BY <1>9, SMT
<1>11. /\ w * n \in Nat /\ T * z \in Nat /\ T * v \in Nat /\ (2 * p) * (T * e) \in Nat
       /\ (2 * p) * y \in Nat /\ (2 * p) * n \in Nat /\ T * (b * (2 * p)) \in Nat
       /\ T * (p * k) \in Nat /\ T * (m * n) \in Nat /\ T * n \in Nat
  BY SMT
<1>12. ((2 * p) * n) + (T * n) = (2 * (T * (m * n))) + (w * n)
  BY <1>4, <1>6, Zenon
<1>13. 2 * (T * (p * k)) = (((2 * p) * n) + (2 * p) + ((2 * p) * y)) + (T * (b * (2 * p))) + ((2 * p) * (T * e))
  BY <1>8, <1>10, Zenon
<1> QED  BY <1>5, <1>7, <1>11, <1>12, <1>13, SMT

(* A set of numbers that is bounded has a largest one. *)
LEMMA LargestNumber ==
  ASSUME NEW h \in Nat, NEW S, S \subseteq 0..h, S # {}
  PROVE  Max(S) \in S
<1> DEFINE R == {n \in Nat : \E x \in S : n = h - x}
<1>1. \A x \in S : x \in Nat /\ h - x \in R
  BY SMT
<1>2. R \subseteq Nat /\ R # {}
  BY <1>1
<1>3. \A n \in R : \E x \in S : n = h - x
  OBVIOUS
<1> HIDE DEF R
<1>4. PICK m \in R : \A k \in R : ~ (<<k, m>> \in OpToRel(<, Nat))
  BY <1>2, NatLessThanWellFounded, WFMin, Zenon
<1>5. OpToRel(<, Nat) = {ss \in Nat \X Nat : ss[1] < ss[2]}
  BY Zenon DEF OpToRel
<1>6. \A i, j \in Nat : i < j => <<i, j>> \in {ss \in Nat \X Nat : ss[1] < ss[2]}
  BY SMT
<1>7. \A k \in R : ~(k < m)
  BY <1>2, <1>4, <1>5, <1>6, Zenon
<1>8. PICK x \in S : m = h - x
  BY <1>3
<1>9. \A y \in S : x >= y
  <2> TAKE y \in S
  <2>1. h - y \in R /\ ~(h - y < m)
    BY <1>1, <1>7
  <2> QED  BY <1>1, <1>8, <2>1, SMT
<1>10. \E z \in S : \A y \in S : z >= y
  BY <1>9, Zenon
<1> QED  BY <1>10, Zenon DEF Max

(* Overflow makes a quotient no larger. *)
LEMMA RoundedDown ==
  ASSUME NEW a \in Nat, NEW h \in Nat, NEW f \in Nat, f > 0,
         NEW M \in Nat, M > 0, NEW N \in Nat, N > 0
  PROVE  /\ ((((a % M) + h) % M) \div f) % N \in Nat
         /\ ((((a % M) + h) % M) \div f) % N <= (a + h) \div f
<1>1. PICK a1 \in Nat : a1 = a % M /\ a1 <= a
  BY Truncated
<1>2. a1 + h \in Nat /\ a + h \in Nat
  BY SMT
<1>3. PICK b \in Nat : b = (a1 + h) % M /\ b <= a1 + h
  BY <1>2, Truncated
<1>4. PICK d \in Nat : d = b \div f /\ f * d <= b
  BY WholeQuotient
<1>5. PICK g \in Nat : g = d % N /\ g <= d
  BY Truncated
<1>6. f * d <= a + h
  <2>1. PICK x \in Nat : x = f * d
    BY SMT
  <2>2. x <= b /\ b <= a1 + h /\ a1 <= a => x <= a + h
    BY SMT
  <2> QED  BY <1>1, <1>3, <1>4, <2>1, <2>2, Zenon
<1>7. d <= (a + h) \div f
  BY <1>2, <1>6, Quotient, Zenon
<1>8. (a + h) \div f \in Nat
  BY <1>2, WholeQuotient, Zenon
<1>9. g <= (a + h) \div f
  <2>1. PICK y \in Nat : y = (a + h) \div f
    BY <1>8, Zenon
  <2>2. g <= d /\ d <= y => g <= y
    BY SMT
  <2> QED  BY <1>5, <1>7, <2>1, <2>2, Zenon
<1> QED  BY <1>1, <1>3, <1>4, <1>5, <1>9, Zenon

(* calculate_mult_shift finds a shift in range and a multiplier that is     *)
(* rounded to the nearest, or smaller if a product overflowed.              *)
LEMMA Scaled ==
  ASSUME NEW from \in Nat, from > 0, NEW to \in Nat
  PROVE  LET c == calculate_mult_shift(from, to) IN
         /\ c.shift \in 0..Half /\ c.mult \in Nat
         /\ c.shift > 0 => c.mult <= ((to * 2^c.shift) + (from \div 2)) \div from
<1> DEFINE sftacc == Half - Bits(u64(MaxSecs * from) \div 2^Half)
           mult(sft) == u64(u64(to * 2^sft) + from \div 2) \div from
           fit == {sft \in 1..Half : mult(sft) < 2^sftacc}
           c == calculate_mult_shift(from, to)
<1>0. Half \in Nat \ {0}
  BY SystickAssumption
<1>1. ASSUME NEW s \in 0..Half
      PROVE  u32(mult(s)) \in Nat /\ u32(mult(s)) <= ((to * 2^s) + (from \div 2)) \div from
  <2>1. PICK p \in Nat : p = 2^s
    BY WidthAssumption
  <2>2. PICK a \in Nat : a = to * p
    BY SMT
  <2>3. PICK h \in Nat : h = from \div 2
    BY SMT
  <2>4. PICK M \in Nat : M = 2^(2 * Half) /\ M > 0
    BY Widths
  <2>5. PICK N \in Nat : N = 2^Half /\ N > 0
    BY Widths
  <2>6. /\ ((((a % M) + h) % M) \div from) % N \in Nat
        /\ ((((a % M) + h) % M) \div from) % N <= (a + h) \div from
    BY <2>4, <2>5, RoundedDown, Zenon
  <2>7. u32(mult(s)) = ((((a % M) + h) % M) \div from) % N
    BY <2>1, <2>2, <2>3, <2>4, <2>5, Zenon DEF u32, u64
  <2> QED  BY <2>1, <2>2, <2>3, <2>6, <2>7, Zenon
<1>2. c = IF fit = {} THEN [mult |-> u32(mult(1)), shift |-> 0]
          ELSE [mult |-> u32(mult(Max(fit))), shift |-> Max(fit)]
  BY Zenon DEF calculate_mult_shift
<1>3. fit \subseteq 0..Half /\ \A s \in fit : s \in 1..Half
  BY <1>0
<1> HIDE DEF mult, fit
<1>4. u32(mult(1)) \in Nat
  <2>1. 1 \in 0..Half
    BY <1>0
  <2> QED  BY <1>1, <2>1, Zenon
<1>5. CASE fit = {}
  <2>1. c.mult = u32(mult(1)) /\ c.shift = 0
    BY <1>2, <1>5
  <2> QED  BY <1>0, <1>4, <2>1
<1>6. CASE fit # {}
  <2> PICK s : s = Max(fit)
    OBVIOUS
  <2>1. s \in 0..Half
    BY <1>0, <1>3, <1>6, LargestNumber
  <2>2. c.mult = u32(mult(s)) /\ c.shift = s
    BY <1>2, <1>6
  <2> QED  BY <1>1, <2>1, <2>2
<1> QED  BY <1>5, <1>6

(* Products grow with their factors. *)
LEMMA Product ==
  ASSUME NEW T \in Nat, NEW c \in Nat, NEW d \in Nat
  PROVE  /\ T * c \in Nat
         /\ c <= d => T * c <= T * d
         /\ T > 0 /\ T * c < T * d => c < d
<1>1. ASSUME NEW x \in Nat, NEW y \in Nat, x <= y PROVE T * x <= T * y
  <2>1. y - x \in Nat /\ y = x + (y - x)
    BY <1>1, SMT
  <2>2. PICK e \in Nat : y = x + e
    BY <2>1, Zenon
  <2>3. T * y = T * x + T * e /\ T * x \in Nat /\ T * e \in Nat
    BY <2>2, SMT
  <2> QED  BY <2>3, SMT
<1>2. c <= d => T * c <= T * d
  BY <1>1, Zenon
<1>3. T * c < T * d => c < d
  <2>1. d <= c => T * d <= T * c
    BY <1>1, Zenon
  <2>2. T * c \in Nat /\ T * d \in Nat
    BY SMT
  <2> QED  BY <2>1, <2>2, SMT
<1>4. T * c \in Nat
  BY SMT
<1> QED  BY <1>2, <1>3, <1>4, Zenon

(* What the conversions may rely on at the frequencies of RoundsUp. *)
LEMMA Rates ==
  ASSUME RoundsUp
  PROVE  /\ tot_ns_per_tick \in Nat /\ tot_ns_per_tick > 0
         /\ tick_per_ns.mult \in Nat
         /\ 2^tick_per_ns.shift \in Nat /\ 2^tick_per_ns.shift > 0
         /\ 2^(tick_per_ns.shift + 1) = 2 * 2^tick_per_ns.shift
         /\ 2 * (tick_per_ns.mult * tot_ns_per_tick) <= (2 * 2^tick_per_ns.shift) + tot_ns_per_tick
         /\ 2^ns_per_tick.shift \in Nat /\ 2^ns_per_tick.shift > 0
<1> PICK c, k : c = tick_per_ns /\ k = ns_per_tick
  OBVIOUS
<1> PICK T : T = tot_ns_per_tick
  OBVIOUS
<1>1. Sec \in Nat /\ Sec > 0 /\ Freq \in Nat /\ Freq > 0 /\ Freq <= Sec /\ Half \in Nat
  BY SystickAssumption, Widths
<1>2. T \in Nat
  BY <1>1, WholeQuotient DEF tot_ns_per_tick
<1>3. Sec = Freq * T /\ c.shift > 0
  BY DEF RoundsUp
<1>4. T > 0
  BY <1>1, <1>2, <1>3, SMT
<1>5. /\ c.shift \in 0..Half /\ c.mult \in Nat
      /\ c.mult <= ((Freq * 2^c.shift) + (Sec \div 2)) \div Sec
  BY <1>1, <1>3, Scaled, Zenon DEF tick_per_ns
<1>6. k.shift \in 0..Half
  BY <1>1, Scaled, Zenon DEF ns_per_tick
<1>7. /\ 2^c.shift \in Nat /\ 2^c.shift > 0 /\ 2^(c.shift + 1) = 2 * 2^c.shift
      /\ 2^k.shift \in Nat /\ 2^k.shift > 0
  BY <1>5, <1>6, WidthAssumption
<1>8. 2 * (c.mult * T) <= (2 * 2^c.shift) + T
  <2>1. c.mult <= ((Freq * 2^c.shift) + ((Freq * T) \div 2)) \div (Freq * T)
    BY <1>3, <1>5, Zenon
  <2> QED  BY <1>1, <1>2, <1>4, <1>5, <1>7, <2>1, Nearest, Zenon
<1> QED  BY <1>2, <1>4, <1>5, <1>7, <1>8, Zenon

(* A tick counter within the uptime is converted exactly. *)
LEMMA TicksToNs ==
  ASSUME RoundsUp, ProductsFit, NEW k \in Nat, k * counts_per_tick <= MaxCounts
  PROVE  ticks_to_ns(k) = tot_ns_per_tick * k
<1> PICK T, p, M : /\ T = tot_ns_per_tick /\ p = 2^ns_per_tick.shift
                   /\ M = 2^(2 * Half)
  OBVIOUS
<1>1. T \in Nat /\ p \in Nat /\ p > 0 /\ M \in Nat
  BY Rates, Widths
<1>2. ns_per_tick.mult = T * p /\ ns_per_tick.mult * k < M
  <2>1. PICK m \in Nat : m = ns_per_tick.mult /\ m = T * p
    BY <1>1, SMT DEF RoundsUp
  <2>2. PICK c \in Nat : c = counts_per_tick /\ c > 0
    BY CountsPerTick
  <2>3. c * k <= MaxCounts /\ MaxCounts \in Nat
    <3>1. c * k = k * c
      BY SMT
    <3> QED  BY <2>2, <3>1, SystickAssumption
  <2>4. PICK l \in Nat : l = MaxCounts \div c
    BY <2>2, <2>3, WholeQuotient, Zenon
  <2>5. k <= l
    BY <2>2, <2>3, <2>4, Quotient, Zenon
  <2>6. m * k <= m * l
    BY <2>5, Product, Zenon
  <2>7. m * l < M
    BY <2>1, <2>2, <2>4, Zenon DEF ProductsFit
  <2>8. m * k \in Nat /\ m * l \in Nat
    BY SMT
  <2>9. PICK x \in Nat, y \in Nat : x = m * k /\ y = m * l
    BY <2>8, Zenon
  <2>10. x <= y /\ y < M => x < M
    BY <1>1, SMT
  <2> QED  BY <2>1, <2>6, <2>7, <2>9, <2>10, Zenon
<1>3. PICK x \in Nat : x = T * k
  BY <1>1, SMT
<1>4. (T * p) * k = p * x /\ p * x \in Nat /\ x <= p * x
  <2>1. (T * p) * k = p * (T * k)
    BY <1>1, SMT
  <2>2. p * x \in Nat /\ x <= p * x
    <3>1. PICK e \in Nat : p = 1 + e
      BY <1>1, SMT
    <3>2. p * x = x + e * x /\ e * x \in Nat
      BY <3>1, SMT
    <3> QED  BY <3>2, SMT
  <2> QED  BY <1>3, <2>1, <2>2, Zenon
<1>5. x < M /\ p * x < M
  BY <1>1, <1>2, <1>4, SMT
<1>6. x % M = x /\ (p * x) % M = p * x
  BY <1>1, <1>4, <1>5, NoTruncation, Zenon
<1>7. (p * x) \div p = x
  <2>1. x <= (p * x) \div p
    <3>1. p * x <= p * x
      BY <1>4
    <3> QED  BY <1>1, <1>4, <3>1, Quotient, Zenon
  <2>2. (p * x) \div p <= x
    <3>1. p * x < p * (x + 1)
      <4>1. p * (x + 1) = p * x + p
        BY <1>1, SMT
      <4> QED  BY <1>1, <1>4, <4>1, SMT
    <3> QED  BY <1>1, <1>4, <3>1, Quotient, Zenon
  <2>3. (p * x) \div p \in Nat
    BY <1>1, <1>4, WholeQuotient, Zenon
  <2>4. PICK y \in Nat : y = (p * x) \div p
    BY <2>3, Zenon
  <2>5. x <= y /\ y <= x => y = x
    BY SMT
  <2> QED  BY <2>1, <2>2, <2>4, <2>5, Zenon
<1>8. k * T = x
  BY <1>1, <1>3, SMT
<1>9. CASE k > max_convert_ticks
  <2>1. ticks_to_ns(k) = (k * T) % M
    BY <1>9 DEF ticks_to_ns, u64
  <2> QED  BY <1>3, <1>6, <1>8, <2>1, Zenon
<1>10. CASE ~(k > max_convert_ticks)
  <2>1. ticks_to_ns(k) = ((ns_per_tick.mult * k) % M) \div p
    BY <1>10 DEF ticks_to_ns, u64
  <2> QED  BY <1>2, <1>3, <1>4, <1>6, <1>7, <2>1, Zenon
<1> QED  BY <1>9, <1>10

(* The extra ticks of Latest for a sleep of n nanoseconds. *)
Extra(n) ==
  Max({1, (n + 2^(tick_per_ns.shift + 1) - 1) \div 2^(tick_per_ns.shift + 1)})

(* There are enough extra ticks, and longer sleeps have no fewer of them. *)
LEMMA ExtraTicks ==
  ASSUME RoundsUp, NEW n \in Nat
  PROVE  /\ Extra(n) \in Nat /\ Extra(n) > 0
         /\ n <= Extra(n) * (2 * 2^tick_per_ns.shift)
         /\ \A k \in Nat : n <= k => Extra(n) <= Extra(k)
<1> PICK P \in Nat : P > 0 /\ P = 2^(tick_per_ns.shift + 1) /\ P = 2 * 2^tick_per_ns.shift
  <2>1. PICK p \in Nat : p = 2^tick_per_ns.shift /\ p > 0 /\ 2^(tick_per_ns.shift + 1) = 2 * p
    BY Rates
  <2>2. 2 * p \in Nat /\ 2 * p > 0
    BY <2>1, SMT
  <2> QED  BY <2>1, <2>2, Zenon
<1> DEFINE B(k) == (k + P - 1) \div P
<1>1. ASSUME NEW k \in Nat PROVE B(k) \in Nat /\ P * B(k) <= k + P - 1 /\ k <= P * B(k)
  <2>1. PICK x \in Nat : x = k + P - 1
    BY SMT
  <2>2. PICK b \in Nat : b = x \div P /\ P * b <= x /\ x < P * (b + 1)
    BY WholeQuotient
  <2>3. PICK y \in Nat : y = P * b
    BY SMT
  <2>4. P * (b + 1) = y + P
    BY <2>3, SMT
  <2>5. k <= y /\ y <= k + P - 1
    <3>1. x < y + P /\ y <= x
      BY <2>2, <2>3, <2>4, Zenon
    <3> QED  BY <2>1, <3>1, SMT
  <2>6. b = B(k)
    BY <2>1, <2>2, Zenon
  <2> QED  BY <2>3, <2>5, <2>6, Zenon
<1>2. ASSUME NEW b \in Nat PROVE Max({1, b}) = IF b >= 1 THEN b ELSE 1
  <2> DEFINE m == IF b >= 1 THEN b ELSE 1
  <2>1. m \in {1, b} /\ \A y \in {1, b} : m >= y
    BY SMT
  <2>2. \A x \in {1, b} : (\A y \in {1, b} : x >= y) => x = m
    BY SMT
  <2> HIDE DEF m
  <2>3. Max({1, b}) = m
    BY <2>1, <2>2, Zenon DEF Max
  <2> QED  BY <2>3 DEF m
<1>3. ASSUME NEW k \in Nat, NEW l \in Nat, k <= l PROVE B(k) <= B(l)
  <2>1. PICK x \in Nat : x = k + P - 1
    BY SMT
  <2>2. PICK y \in Nat : y = l + P - 1 /\ x <= y
    BY <1>3, <2>1, SMT
  <2>3. x \div P \in Nat /\ P * (x \div P) <= x
    BY WholeQuotient, Zenon
  <2>4. P * (x \div P) <= y
    <3>1. PICK z \in Nat : z = P * (x \div P)
      BY <2>3, SMT
    <3>2. z <= x /\ x <= y => z <= y
      BY SMT
    <3> QED  BY <2>2, <2>3, <3>1, <3>2, Zenon
  <2>5. x \div P <= y \div P
    BY <2>3, <2>4, Quotient, Zenon
  <2> QED  BY <2>1, <2>2, <2>5, Zenon
<1>4. \A k \in Nat : Extra(k) = IF B(k) >= 1 THEN B(k) ELSE 1
  BY <1>1, <1>2, Zenon DEF Extra
<1>5. \A k \in Nat : B(k) \in Nat /\ k <= P * B(k)
  BY <1>1, Zenon
<1> HIDE DEF B
<1>6. Extra(n) \in Nat /\ Extra(n) > 0
  BY <1>4, <1>5, SMT
<1>7. n <= Extra(n) * P
  <2>1. CASE B(n) >= 1
    BY <1>4, <1>5, <2>1, SMT
  <2>2. CASE ~(B(n) >= 1)
    <3>1. B(n) = 0
      BY <1>5, <2>2, SMT
    <3>2. n <= P * 0
      BY <1>5, <3>1, Zenon
    <3>3. n = 0 /\ P * 1 \in Nat
      BY <3>2, SMT
    <3> QED  BY <1>6, <3>3, SMT
  <2> QED  BY <2>1, <2>2
<1>8. \A k \in Nat : n <= k => Extra(n) <= Extra(k)
  BY <1>3, <1>4, <1>5, SMT
<1> QED  BY <1>6, <1>7, <1>8, Zenon

(* ns_to_ticks is long enough, and too long by the extra ticks at most. *)
LEMMA NsToTicks ==
  ASSUME RoundsUp, ProductsFit, NEW n \in Nat
  PROVE  /\ ns_to_ticks(n) \in Nat
         /\ n <= tot_ns_per_tick * ns_to_ticks(n)
         /\ tot_ns_per_tick * ns_to_ticks(n) < n + (tot_ns_per_tick * (Extra(n) + 1))
<1> PICK T, m, p, x : /\ T = tot_ns_per_tick /\ m = tick_per_ns.mult
                      /\ p = 2^tick_per_ns.shift /\ x = Extra(n)
  OBVIOUS
<1>1. /\ T \in Nat /\ T > 0 /\ m \in Nat /\ p \in Nat /\ p > 0
      /\ 2 * (m * T) <= (2 * p) + T /\ m * T >= p
  BY Rates, Zenon DEF RoundsUp
<1>2. x \in Nat /\ x > 0 /\ n <= x * (2 * p)
  BY ExtraTicks, Zenon
<1>3. PICK q \in Nat : q = n \div T
  BY <1>1, WholeQuotient, Zenon
<1>4. PICK r \in Nat : r = n % T /\ n = (T * q) + r /\ r < T
  BY <1>1, <1>3, SMT
<1>5. PICK c \in {0, 1} : /\ c = (IF n % T = 0 THEN 0 ELSE 1)
                          /\ c = 0 <=> r = 0
  BY <1>4
<1>6. PICK k \in Nat : k >= q /\ k <= q + x /\ ns_to_ticks(n) = k + c
  <2>1. CASE n > MaxSecs * Sec
    <3>1. ns_to_ticks(n) = q + c
      BY <1>3, <1>5, <2>1 DEF ns_to_ticks
    <3>2. q >= q /\ q <= q + x
      BY <1>2, SMT
    <3> QED  BY <3>1, <3>2, Zenon
  <2>2. CASE ~(n > MaxSecs * Sec)
    <3>1. PICK e \in Nat : e = m * n
      BY <1>1, SMT
    <3>2. PICK k \in Nat : k = e \div p
      BY <1>1, WholeQuotient, Zenon
    <3>3. e < 2^(2 * Half)
      <4>1. PICK l \in Nat : MaxSecs * Sec = l
        BY SystickAssumption, SMT
      <4>2. PICK d \in Nat : l = n + d
        BY <2>2, <4>1, SMT
      <4>3. m * l = e + m * d /\ m * d \in Nat
        BY <1>1, <3>1, <4>2, SMT
      <4>4. m * l < 2^(2 * Half)
        BY <4>1, Zenon DEF ProductsFit
      <4> QED  BY <4>3, <4>4, Widths, SMT
    <3>4. e % 2^(2 * Half) = e
      BY <3>3, Widths, NoTruncation
    <3>5. ns_to_ticks(n) = k + c
      BY <1>5, <2>2, <3>1, <3>2, <3>4 DEF ns_to_ticks, u64
    <3>6. q <= k
      BY <1>1, <1>3, <3>1, <3>2, TicksLow, Zenon
    <3>7. k <= q + x
      BY <1>1, <1>2, <1>3, <3>1, <3>2, TicksHigh, Zenon
    <3>8. k >= q
      BY <3>6
    <3> QED  BY <3>5, <3>7, <3>8, Zenon
  <2> QED  BY <2>1, <2>2
<1>7. PICK y \in Nat : k = q + y /\ y <= x
  <2>1. k - q \in Nat /\ k = q + (k - q) /\ k - q <= x
    BY <1>2, <1>6, SMT
  <2> QED  BY <2>1, Zenon
<1>8. PICK z \in Nat : x = y + z
  <2>1. x - y \in Nat /\ x = y + (x - y)
    BY <1>2, <1>7, SMT
  <2> QED  BY <2>1, Zenon
<1>9. PICK a \in Nat, b \in Nat, d \in Nat : a = T * q /\ b = T * y /\ d = T * z
  BY <1>1, SMT
<1>10. n <= T * (k + c) /\ T * (k + c) < n + (T * (x + 1))
  <2>0. T \in Nat /\ n = a + r /\ r < T
    BY <1>1, <1>4, <1>9, Zenon
  <2>1. T * (x + 1) = b + d + T
    BY <1>1, <1>8, <1>9, SMT
  <2>2. CASE c = 0
    <3>1. T * (k + c) = a + b
      BY <1>1, <1>7, <1>9, <2>2, SMT
    <3>2. r = 0
      BY <1>5, <2>2
    <3>3. T > 0
      BY <1>1
    <3>4. n <= a + b /\ a + b < n + (b + d + T)
      BY <2>0, <3>2, <3>3, SMT
    <3> QED  BY <2>1, <3>1, <3>4, Zenon
  <2>3. CASE c = 1
    <3>1. T * (k + c) = a + b + T
      BY <1>1, <1>7, <1>9, <2>3, SMT
    <3>2. r # 0
      BY <1>5, <2>3
    <3>3. n <= a + b + T /\ a + b + T < n + (b + d + T)
      BY <2>0, <3>2, SMT
    <3> QED  BY <2>1, <3>1, <3>3, Zenon
  <2> QED  BY <2>2, <2>3
<1>11. k + c \in Nat
  BY SMT
<1> QED  BY <1>6, <1>10, <1>11, Zenon

(* What holds of a thread at a, that slept or sleeps for n from b on, with  *)
(* its timer at tick w, when the tick counter is c.                         *)
SleeperOK(a, b, n, w, c) ==
  /\ b \in Nat /\ n \in Nat /\ n < 2^(2 * Half)
  /\ a \in {"running", "deadline", "woken"} => w = NoTimer
  /\ a = "deadline" => b <= tot_ns_per_tick * c
  /\ a \in {"missed", "woken"} => b + n <= tot_ns_per_tick * c
  /\ a = "asleep" =>
       /\ w \in Nat /\ c < w
       /\ b + n <= tot_ns_per_tick * w
       /\ tot_ns_per_tick * w < (b + n) + (tot_ns_per_tick * (Extra(n) + 1))

(* The inductive invariant of the sleepers *)
SleepersInv ==
  /\ at \in [Thread -> {"running", "deadline", "asleep", "missed", "woken"}]
  /\ before = [t \in Thread |-> before[t]] /\ nsec = [t \in Thread |-> nsec[t]]
  /\ timeout_tick = [t \in Thread |-> timeout_tick[t]]
  /\ \A t \in Thread : SleeperOK(at[t], before[t], nsec[t], timeout_tick[t], cur_systick)

(* The clock is the tick counter, converted exactly. *)
LEMMA ClockExact ==
  ASSUME RoundsUp, ProductsFit, TickInv
  PROVE  clock = tot_ns_per_tick * cur_systick
<1>1. cur_systick \in Nat /\ cur_systick * counts_per_tick <= counts /\ counts <= MaxCounts
      /\ counts \in Nat /\ last_count \in Nat /\ last_count = cur_systick * counts_per_tick
  BY Zenon DEF TickInv, TicksExact
<1>2. MaxCounts \in Nat
  BY SystickAssumption
<1>3. last_count <= counts => last_count <= MaxCounts
  BY <1>1, <1>2, SMT
<1>4. cur_systick * counts_per_tick <= MaxCounts
  BY <1>1, <1>3, Zenon
<1> QED  BY <1>1, <1>4, TicksToNs, Zenon DEF clock

(* The tick counter never goes back. *)
LEMMA TickForward ==
  ASSUME InTime, TickInv, sys_timer_irq_handler
  PROVE  cur_systick <= cur_systick'
<1>1. TickInv'
  BY TickTick
<1>2. PICK c \in Nat : c = counts_per_tick /\ c > 0
  BY CountsPerTick
<1>3. PICK i \in Nat, j \in Nat : i = cur_systick /\ j = cur_systick'
  BY <1>1, Zenon DEF TickInv
<1>4. /\ last_count = i * c /\ last_count' = j * c
      /\ last_count \in Nat /\ last_count' \in Nat
  BY <1>1, <1>2, <1>3, Zenon DEF TickInv, TicksExact
<1>5. last_count' = last_count + u32(elapsed_tick * counts_per_tick)
  BY DEF sys_timer_irq_handler, systick_update
<1>6. \A x \in Int : u32(x) \in Nat
  BY Widths, SMT DEF u32
<1>7. elapsed_tick * counts_per_tick \in Int
  <2>1. counts - last_count \in Int /\ (counts - last_count) \div c \in Int
    BY <1>2, <1>4, SMT DEF TickInv
  <2>2. elapsed_tick \in Nat
    BY <1>2, <1>6, <2>1, Zenon DEF elapsed_tick
  <2> QED  BY <1>2, <2>2, SMT
<1>8. last_count <= last_count'
  <2>1. u32(elapsed_tick * counts_per_tick) \in Nat
    BY <1>6, <1>7, Zenon
  <2> QED  BY <1>4, <1>5, <2>1, SMT
<1>9. i <= j
  <2>1. c * i = i * c /\ c * j = j * c
    BY SMT
  <2>2. ASSUME j < i PROVE FALSE
    <3>1. j + 1 <= i /\ j + 1 \in Nat
      BY <2>2, SMT
    <3>2. c * (j + 1) <= c * i
      BY <3>1, Product, Zenon
    <3>3. c * (j + 1) = c * j + c
      BY SMT
    <3>4. c * j \in Nat /\ c * i \in Nat
      BY SMT
    <3>5. c * i <= c * j
      BY <1>4, <1>8, <2>1, Zenon
    <3> QED  BY <1>2, <3>2, <3>3, <3>4, <3>5, SMT
  <2> QED  BY <2>2, SMT
<1> QED  BY <1>3, <1>9, Zenon

(* A sleeper stays right while the clock goes on and its tick has not come. *)
LEMMA StillAsleep ==
  ASSUME RoundsUp, NEW a, NEW b, NEW n, NEW w, NEW c \in Nat, NEW d \in Nat, c <= d,
         SleeperOK(a, b, n, w, c), a = "asleep" => d < w
  PROVE  SleeperOK(a, b, n, w, d)
<1>1. PICK T \in Nat : T = tot_ns_per_tick
  BY Rates
<1>2. PICK x \in Nat, y \in Nat : x = T * c /\ y = T * d /\ x <= y
  BY Product, Zenon
<1>3. b \in Nat /\ n \in Nat /\ b + n \in Nat
  <2>1. b \in Nat /\ n \in Nat
    BY Zenon DEF SleeperOK
  <2> QED  BY <2>1, SMT
<1>4. (b <= x => b <= y) /\ (b + n <= x => b + n <= y)
  BY <1>2, <1>3, SMT
<1> QED  BY <1>1, <1>2, <1>4, Zenon DEF SleeperOK

(* Whoever the tick interrupt wakes has slept long enough. *)
LEMMA WokenInTime ==
  ASSUME RoundsUp, NEW a \in {"running", "deadline", "asleep", "missed", "woken"},
         NEW b, NEW n, NEW w, NEW c \in Nat, NEW d \in Nat, c <= d,
         SleeperOK(a, b, n, w, c), w # NoTimer, w <= d
  PROVE  SleeperOK("woken", b, n, NoTimer, d)
<1>1. PICK T \in Nat : T = tot_ns_per_tick
  BY Rates
<1>2. b \in Nat /\ n \in Nat /\ n < 2^(2 * Half) /\ b + n \in Nat
  <2>1. b \in Nat /\ n \in Nat /\ n < 2^(2 * Half)
    BY Zenon DEF SleeperOK
  <2> QED  BY <2>1, SMT
<1>3. a \in {"asleep", "missed"}
  BY DEF SleeperOK
<1>4. PICK e \in Nat : e <= d /\ b + n <= T * e
  <2>1. CASE a = "asleep"
    BY <1>1, <2>1, Zenon DEF SleeperOK
  <2>2. CASE a = "missed"
    BY <1>1, <2>2, Zenon DEF SleeperOK
  <2> QED  BY <1>3, <2>1, <2>2, Zenon
<1>5. PICK x \in Nat, y \in Nat : x = T * e /\ y = T * d /\ x <= y
  BY <1>4, Product, Zenon
<1>6. b + n <= x => b + n <= y
  BY <1>2, <1>5, SMT
<1> QED  BY <1>1, <1>2, <1>4, <1>5, <1>6 DEF SleeperOK

(* Whoever blocks with l > 0 nanoseconds left of its n, now or after a      *)
(* while, gets a timer that is neither early nor later than Latest.         *)
LEMMA FallsAsleep ==
  ASSUME RoundsUp, ProductsFit, NEW b \in Nat, NEW n \in Nat, n < 2^(2 * Half),
         NEW c \in Nat, NEW l \in Nat, l > 0, l <= n, b + n = (tot_ns_per_tick * c) + l
  PROVE  /\ ns_to_ticks(l) # 0
         /\ SleeperOK("asleep", b, n, c + ns_to_ticks(l), c)
<1>1. PICK T \in Nat : T = tot_ns_per_tick /\ T > 0
  BY Rates
<1>2. PICK k \in Nat : /\ k = ns_to_ticks(l) /\ l <= T * k
                       /\ T * k < l + (T * (Extra(l) + 1))
  BY <1>1, NsToTicks, Zenon
<1>3. PICK x \in Nat, y \in Nat : x = Extra(l) /\ y = Extra(n) /\ x <= y
  BY ExtraTicks, Zenon
<1>4. PICK f \in Nat, g \in Nat : f = T * (x + 1) /\ g = T * (y + 1) /\ f <= g
  <2>1. x + 1 \in Nat /\ y + 1 \in Nat /\ x + 1 <= y + 1
    BY <1>3, SMT
  <2>2. T * (x + 1) <= T * (y + 1)
    BY <2>1, Product, Zenon
  <2>3. T * (x + 1) \in Nat /\ T * (y + 1) \in Nat
    BY SMT
  <2> QED  BY <2>2, <2>3, Zenon
<1>5. PICK h \in Nat, i \in Nat : h = T * k /\ i = T * c /\ T * (c + k) = i + h
  BY SMT
<1>6. k # 0
  <2>1. k = 0 => T * k = 0
    BY SMT
  <2> QED  BY <1>2, <1>5, <2>1, SMT
<1>7. l <= h /\ h < l + f /\ b + n = i + l
  BY <1>1, <1>2, <1>3, <1>4, <1>5, Zenon
<1>8. b + n <= i + h /\ i + h < (b + n) + g
  BY <1>4, <1>7, SMT
<1>9. c + k \in Nat /\ c < c + k
  BY <1>6, SMT
<1>10. SleeperOK("asleep", b, n, c + k, c)
  <2>1. b + n <= T * (c + k) /\ T * (c + k) < (b + n) + (T * (Extra(n) + 1))
    BY <1>3, <1>4, <1>5, <1>8, Zenon
  <2> QED  BY <1>1, <1>9, <2>1 DEF SleeperOK
<1> QED  BY <1>2, <1>6, <1>10, Zenon

(* At tn_systick_init nobody sleeps. *)
LEMMA SleepersInit == InTime /\ SystickInit => SleepersInv
<1> SUFFICES ASSUME InTime, SystickInit PROVE SleepersInv
  OBVIOUS
<1>1. \A t \in Thread : /\ at[t] = "running" /\ before[t] = 0 /\ nsec[t] = 0
                        /\ timeout_tick[t] = NoTimer
  BY DEF SystickInit
<1>2. 0 < 2^(2 * Half)
  BY Widths
<1>3. SleeperOK("running", 0, 0, NoTimer, cur_systick)
  BY <1>2 DEF SleeperOK
<1> QED  BY <1>1, <1>3 DEF SleepersInv, SystickInit

(* A step of one thread: the others stay as they were. *)
LEMMA OneSleeper ==
  ASSUME SleepersInv, NEW t \in Thread, UNCHANGED counterVars,
         NEW a \in {"running", "deadline", "asleep", "missed", "woken"},
         NEW b, NEW n, NEW w,
         at' = [at EXCEPT ![t] = a], before' = [before EXCEPT ![t] = b],
         nsec' = [nsec EXCEPT ![t] = n], timeout_tick' = [timeout_tick EXCEPT ![t] = w],
         SleeperOK(a, b, n, w, cur_systick)
  PROVE  SleepersInv'
<1>1. cur_systick' = cur_systick
  BY DEF counterVars
<1>2. /\ at' \in [Thread -> {"running", "deadline", "asleep", "missed", "woken"}]
      /\ before' = [u \in Thread |-> before'[u]] /\ nsec' = [u \in Thread |-> nsec'[u]]
      /\ timeout_tick' = [u \in Thread |-> timeout_tick'[u]]
      /\ at'[t] = a /\ before'[t] = b /\ nsec'[t] = n /\ timeout_tick'[t] = w
      /\ \A u \in Thread \ {t} : /\ at'[u] = at[u] /\ before'[u] = before[u]
                                 /\ nsec'[u] = nsec[u] /\ timeout_tick'[u] = timeout_tick[u]
  BY DEF SleepersInv
<1>3. ASSUME NEW u \in Thread
      PROVE  SleeperOK(at'[u], before'[u], nsec'[u], timeout_tick'[u], cur_systick)
  BY <1>2, <1>3, Zenon DEF SleepersInv
<1> QED  BY <1>1, <1>2, <1>3, Zenon DEF SleepersInv

(* nanosleep, and the first half of a wait until a time *)
LEMMA AsksInv ==
  ASSUME RoundsUp, ProductsFit, TickInv, SleepersInv, NEW t \in Thread, NEW n \in Nanos,
         Nanosleep(t, n) \/ Deadline(t, n)
  PROVE  SleepersInv'
<1>1. PICK T \in Nat : T = tot_ns_per_tick
  BY Rates
<1>2. PICK c \in Nat : c = cur_systick
  BY Zenon DEF TickInv
<1>3. PICK b \in Nat : b = clock /\ b = T * c
  <2>1. T * c \in Nat
    BY SMT
  <2> QED  BY <1>1, <1>2, <2>1, ClockExact, Zenon
<1>4. n \in Nat /\ n < 2^(2 * Half)
  BY SystickAssumption DEF ProductsFit
<1>5. before' = [before EXCEPT ![t] = b] /\ nsec' = [nsec EXCEPT ![t] = n]
  BY <1>3, Zenon DEF Nanosleep, Deadline, Asks
<1>6. b <= b /\ b + 0 = b /\ b + n \in Nat
  BY <1>4, SMT
<1>7. CASE Deadline(t, n)
  <2>1. /\ at' = [at EXCEPT ![t] = "deadline"] /\ UNCHANGED counterVars
        /\ timeout_tick' = timeout_tick /\ at[t] = "running"
    BY <1>7, Zenon DEF Deadline
  <2>2. timeout_tick[t] = NoTimer /\ timeout_tick' = [timeout_tick EXCEPT ![t] = NoTimer]
    BY <2>1 DEF SleepersInv, SleeperOK
  <2>3. SleeperOK("deadline", b, n, NoTimer, cur_systick)
    BY <1>1, <1>2, <1>3, <1>4, <1>6 DEF SleeperOK
  <2> QED  BY <1>5, <2>1, <2>2, <2>3, OneSleeper, Zenon
<1>8. CASE Nanosleep(t, n) /\ n > 0
  <2>1. ns_to_ticks(n) # 0 /\ SleeperOK("asleep", b, n, c + ns_to_ticks(n), c)
    <3>1. b + n = (T * c) + n /\ n <= n
      BY <1>3, <1>4
    <3> QED  BY <1>1, <1>4, <1>8, <3>1, FallsAsleep
  <2>2. /\ at' = [at EXCEPT ![t] = "asleep"] /\ UNCHANGED counterVars
        /\ timeout_tick' = [timeout_tick EXCEPT ![t] = c + ns_to_ticks(n)]
    BY <1>2, <1>8, <2>1 DEF Nanosleep, Blocked
  <2> QED  BY <1>2, <1>5, <2>1, <2>2, OneSleeper, Zenon
<1>9. CASE Nanosleep(t, n) /\ ~(n > 0)
  <2>1. n = 0
    BY <1>4, <1>9
  <2>2. PICK w : timeout_tick' = [timeout_tick EXCEPT ![t] = w]
    BY <1>9, Zenon DEF Nanosleep, Blocked
  <2>3. at' = [at EXCEPT ![t] = "missed"] /\ UNCHANGED counterVars
    BY <1>9 DEF Nanosleep
  <2>4. SleeperOK("missed", b, n, w, cur_systick)
    BY <1>1, <1>2, <1>3, <1>4, <1>6, <2>1 DEF SleeperOK
  <2> QED  BY <1>5, <2>2, <2>3, <2>4, OneSleeper, Zenon
<1> QED  BY <1>7, <1>8, <1>9, Zenon

(* uk_sched_thread_block_until, and a woken thread that goes on *)
LEMMA BlocksInv ==
  ASSUME RoundsUp, ProductsFit, TickInv, SleepersInv, NEW t \in Thread,
         BlockUntil(t) \/ Return(t)
  PROVE  SleepersInv'
<1>1. PICK T \in Nat : T = tot_ns_per_tick
  BY Rates
<1>2. PICK c \in Nat : c = cur_systick
  BY Zenon DEF TickInv
<1>3. PICK i \in Nat : i = clock /\ i = T * c
  <2>1. T * c \in Nat
    BY SMT
  <2> QED  BY <1>1, <1>2, <2>1, ClockExact, Zenon
<1>4. PICK b, n : b = before[t] /\ n = nsec[t]
  OBVIOUS
<1>5. SleeperOK(at[t], b, n, timeout_tick[t], c)
  BY <1>2, <1>4, Zenon DEF SleepersInv
<1>6. b \in Nat /\ n \in Nat /\ n < 2^(2 * Half) /\ b + n \in Nat
  <2>1. b \in Nat /\ n \in Nat /\ n < 2^(2 * Half)
    BY <1>5, Zenon DEF SleeperOK
  <2> QED  BY <2>1, SMT
<1>7. /\ before' = [before EXCEPT ![t] = b] /\ nsec' = [nsec EXCEPT ![t] = n]
      /\ UNCHANGED counterVars
  <2>1. before' = before /\ nsec' = nsec /\ UNCHANGED counterVars
    BY Zenon DEF BlockUntil, Return
  <2> QED  BY <1>4, <2>1 DEF SleepersInv
<1>8. CASE Return(t)
  <2>1. at' = [at EXCEPT ![t] = "running"] /\ timeout_tick' = timeout_tick /\ at[t] = "woken"
    BY <1>8, Zenon DEF Return
  <2>2. timeout_tick[t] = NoTimer
    BY <1>5, <2>1 DEF SleeperOK
  <2>3. timeout_tick' = [timeout_tick EXCEPT ![t] = NoTimer]
    BY <2>1, <2>2 DEF SleepersInv
  <2>4. SleeperOK("running", b, n, NoTimer, cur_systick)
    BY <1>6 DEF SleeperOK
  <2> QED  BY <1>7, <2>1, <2>3, <2>4, OneSleeper, Zenon
<1>9. CASE BlockUntil(t) /\ i < b + n
  <2>1. PICK l \in Nat : l = (b + n) - i /\ l > 0
    BY <1>6, <1>9, SMT
  <2>2. b <= i
    BY <1>1, <1>3, <1>5, <1>9, Zenon DEF SleeperOK, BlockUntil
  <2>3. l <= n /\ b + n = i + l
    BY <1>6, <2>1, <2>2, SMT
  <2>4. l < 2^(2 * Half)
    BY <1>6, <2>3, Widths, SMT
  <2>5. u64(Due(t) - clock) = l
    <3>1. Due(t) - clock = l
      BY <1>3, <1>4, <2>1, Zenon DEF Due
    <3>2. l % 2^(2 * Half) = l
      BY <2>4, Widths, NoTruncation
    <3> QED  BY <3>1, <3>2, Zenon DEF u64
  <2>6. ns_to_ticks(l) # 0 /\ SleeperOK("asleep", b, n, c + ns_to_ticks(l), c)
    <3>1. b + n = (T * c) + l
      BY <1>3, <2>3, Zenon
    <3> QED  BY <1>1, <1>6, <2>1, <2>3, <3>1, FallsAsleep, Zenon
  <2>7. /\ at' = [at EXCEPT ![t] = "asleep"]
        /\ timeout_tick' = [timeout_tick EXCEPT ![t] = c + ns_to_ticks(l)]
    BY <1>2, <1>3, <1>4, <1>9, <2>5, <2>6 DEF BlockUntil, Blocked, Due
  <2> QED  BY <1>2, <1>7, <2>6, <2>7, OneSleeper, Zenon
<1>10. CASE BlockUntil(t) /\ ~(i < b + n)
  <2>1. at' = [at EXCEPT ![t] = "missed"]
    BY <1>3, <1>4, <1>10 DEF BlockUntil, Due
  <2>2. PICK w : timeout_tick' = [timeout_tick EXCEPT ![t] = w]
    BY <1>10, Zenon DEF BlockUntil, Blocked
  <2>3. b + n <= i
    BY <1>6, <1>10, SMT
  <2>4. SleeperOK("missed", b, n, w, cur_systick)
    BY <1>1, <1>2, <1>3, <1>6, <2>3 DEF SleeperOK
  <2> QED  BY <1>7, <2>1, <2>2, <2>4, OneSleeper, Zenon
<1> QED  BY <1>8, <1>9, <1>10, Zenon

(* The tick interrupt wakes those whose tick has come, and only those. *)
LEMMA WakesInv ==
  ASSUME InTime, RoundsUp, TickInv, SleepersInv, sys_timer_irq_handler
  PROVE  SleepersInv'
<1>1. PICK c \in Nat, d \in Nat : c = cur_systick /\ d = cur_systick' /\ c <= d
  BY TickTick, TickForward, Zenon DEF TickInv
<1>2. /\ at' = [t \in Thread |-> IF t \in Expired THEN "woken" ELSE at[t]]
      /\ timeout_tick' = [t \in Thread |-> IF t \in Expired THEN NoTimer ELSE timeout_tick[t]]
      /\ before' = before /\ nsec' = nsec
  BY Zenon DEF sys_timer_irq_handler
<1>3. ASSUME NEW t \in Thread
      PROVE  SleeperOK(at'[t], before'[t], nsec'[t], timeout_tick'[t], d)
  <2> PICK a, b, n, w : a = at[t] /\ b = before[t] /\ n = nsec[t] /\ w = timeout_tick[t]
    OBVIOUS
  <2>1. /\ SleeperOK(a, b, n, w, c)
        /\ a \in {"running", "deadline", "asleep", "missed", "woken"}
    BY <1>1 DEF SleepersInv
  <2>2. CASE t \in Expired
    <3>1. w # NoTimer /\ w <= d
      BY <1>1, <2>2, Zenon DEF Expired
    <3>2. at'[t] = "woken" /\ timeout_tick'[t] = NoTimer
      BY <1>2, <2>2
    <3>3. SleeperOK("woken", b, n, NoTimer, d)
      BY <1>1, <2>1, <3>1, WokenInTime
    <3> QED  BY <1>2, <3>2, <3>3, Zenon
  <2>3. CASE t \notin Expired
    <3>1. at'[t] = a /\ timeout_tick'[t] = w
      BY <1>2, <2>3
    <3>2. a = "asleep" => d < w
      <4>1. w = NoTimer \/ ~(w <= d)
        BY <1>1, <2>3, Zenon DEF Expired
      <4>2. a = "asleep" => w \in Nat
        BY <2>1, Zenon DEF SleeperOK
      <4> QED  BY <4>1, <4>2, SystickAssumption, SMT
    <3>3. SleeperOK(a, b, n, w, d)
      BY <1>1, <2>1, <3>2, StillAsleep, Zenon
    <3> QED  BY <1>2, <3>1, <3>3, Zenon
  <2> QED  BY <2>2, <2>3
<1>4. /\ at' \in [Thread -> {"running", "deadline", "asleep", "missed", "woken"}]
      /\ timeout_tick' = [t \in Thread |-> timeout_tick'[t]]
      /\ before' = [t \in Thread |-> before'[t]] /\ nsec' = [t \in Thread |-> nsec'[t]]
  <2>1. at' \in [Thread -> {"running", "deadline", "asleep", "missed", "woken"}]
    BY <1>2 DEF SleepersInv
  <2>2. timeout_tick' = [t \in Thread |-> timeout_tick'[t]]
    BY <1>2
  <2>3. before' = [t \in Thread |-> before'[t]] /\ nsec' = [t \in Thread |-> nsec'[t]]
    BY <1>2 DEF SleepersInv
  <2> QED  BY <2>1, <2>2, <2>3
<1> QED  BY <1>1, <1>3, <1>4, Zenon DEF SleepersInv

(* Every step keeps the invariant of the sleepers. *)
LEMMA SleepersStep ==
  ASSUME InTime, RoundsUp, ProductsFit, TickInv, SleepersInv, [SystickNext]_systickVars
  PROVE  SleepersInv'
<1>1. ASSUME cur_systick' = cur_systick, UNCHANGED threadVars PROVE SleepersInv'
  BY <1>1 DEF SleepersInv, threadVars
<1>2. CASE Count
  BY <1>1, <1>2 DEF Count
<1>3. CASE sys_timer_irq_handler
  BY <1>3, WakesInv
<1>4. CASE UNCHANGED systickVars
  BY <1>1, <1>4 DEF systickVars, counterVars
<1>5. ASSUME NEW t \in Thread, NEW n \in Nanos, Nanosleep(t, n) \/ Deadline(t, n)
      PROVE  SleepersInv'
  BY <1>5, AsksInv
<1>6. ASSUME NEW t \in Thread, BlockUntil(t) \/ Return(t)
      PROVE  SleepersInv'
  BY <1>6, BlocksInv
<1> QED  BY <1>2, <1>3, <1>4, <1>5, <1>6, Zenon DEF SystickNext, Over

(* What the invariant says of the clock when a thread wakes or sleeps on. *)
LEMMA SleepersInTime ==
  ASSUME RoundsUp, ProductsFit, TickInv, SleepersInv
  PROVE  NotEarly /\ NotLate
<1>1. PICK T \in Nat : T = tot_ns_per_tick
  BY Rates
<1>2. PICK c \in Nat : c = cur_systick
  BY Zenon DEF TickInv
<1>3. PICK i \in Nat : i = clock /\ i = T * c
  <2>1. T * c \in Nat
    BY SMT
  <2> QED  BY <1>1, <1>2, <2>1, ClockExact, Zenon
<1>4. ASSUME NEW t \in Thread, at[t] = "woken" PROVE clock >= Due(t)
  <2>1. before[t] \in Nat /\ nsec[t] \in Nat /\ before[t] + nsec[t] <= i
    BY <1>1, <1>2, <1>3, <1>4, Zenon DEF SleepersInv, SleeperOK
  <2> QED  BY <1>3, <2>1 DEF Due
<1>5. ASSUME NEW t \in Thread, at[t] = "asleep" PROVE clock < Latest(t)
  <2>1. PICK w \in Nat, x \in Nat, s \in Nat :
          /\ x = Extra(nsec[t]) /\ s = Due(t)
          /\ c < w /\ T * w < s + (T * (x + 1))
    <3>1. SleeperOK("asleep", before[t], nsec[t], timeout_tick[t], c)
      BY <1>2, <1>5, Zenon DEF SleepersInv
    <3>2. /\ before[t] \in Nat /\ nsec[t] \in Nat
          /\ timeout_tick[t] \in Nat /\ c < timeout_tick[t]
          /\ T * timeout_tick[t] < (before[t] + nsec[t]) + (T * (Extra(nsec[t]) + 1))
      BY <1>1, <3>1, Zenon DEF SleeperOK
    <3>3. Extra(nsec[t]) \in Nat
      BY <3>2, ExtraTicks, Zenon
    <3>4. before[t] + nsec[t] \in Nat
      BY <3>2, SMT
    <3> QED  BY <3>2, <3>3, <3>4, Zenon DEF Due
  <2>2. c + 1 \in Nat /\ c + 1 <= w
    BY <2>1, SMT
  <2>3. T * (c + 1) <= T * w
    BY <2>2, Product, Zenon
  <2>4. T * (c + 1) = i + T
    BY <1>3, SMT
  <2>5. T * (x + 1) = (T * x) + T
    BY SMT
  <2>6. PICK y \in Nat, z \in Nat : y = T * x /\ z = T * w
    BY SMT
  <2>7. i + T <= z /\ z < s + (y + T)
    BY <2>1, <2>3, <2>4, <2>5, <2>6, Zenon
  <2>8. i < s + y
    BY <2>7, SMT
  <2>9. Latest(t) = s + y
    BY <1>1, <2>1, <2>6, Zenon DEF Latest, Extra
  <2> QED  BY <1>3, <2>8, <2>9, Zenon
<1> QED  BY <1>4, <1>5, Zenon DEF NotEarly, NotLate

(* nanosleep and block_until never wake a thread before its time, however   *)
(* late the tick interrupts are and however long a thread takes from its    *)
(* deadline to the blocking: for every width and every frequency whose      *)
(* multiplier in ns_to_ticks came out rounded up, as at 1000 Hz.            *)
THEOREM SleepsNotShort ==
  InTime /\ RoundsUp /\ ProductsFit => (SystickSpec => []NotEarly)
<1> SUFFICES ASSUME InTime, RoundsUp, ProductsFit PROVE SystickSpec => []NotEarly
  OBVIOUS
<1>1. SystickInit => TickInv /\ SleepersInv
  BY TickInit, SleepersInit
<1>2. TickInv /\ SleepersInv /\ [SystickNext]_systickVars => TickInv' /\ SleepersInv'
  BY TickStep, SleepersStep
<1>3. TickInv /\ SleepersInv => NotEarly
  BY SleepersInTime
<1> QED  BY <1>1, <1>2, <1>3, PTL DEF SystickSpec

(* Nor do they sleep beyond Latest: the rounding of the multiplier to the   *)
(* nearest costs a tick for every 2^(shift + 1) nanoseconds at most.        *)
THEOREM SleepsNotLong ==
  InTime /\ RoundsUp /\ ProductsFit => (SystickSpec => []NotLate)
<1> SUFFICES ASSUME InTime, RoundsUp, ProductsFit PROVE SystickSpec => []NotLate
  OBVIOUS
<1>1. SystickInit => TickInv /\ SleepersInv
  BY TickInit, SleepersInit
<1>2. TickInv /\ SleepersInv /\ [SystickNext]_systickVars => TickInv' /\ SleepersInv'
  BY TickStep, SleepersStep
<1>3. TickInv /\ SleepersInv => NotLate
  BY SleepersInTime
<1> QED  BY <1>1, <1>2, <1>3, PTL DEF SystickSpec
=============================================================================
