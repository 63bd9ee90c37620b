------------------------------- MODULE Infer -------------------------------
(***************************************************************************)
(* The inference framework (tenon-inference/src): the handle and its parts *)
(* (api.cpp), the models the loader holds (loader.cpp), the slots that     *)
(* describe them to the user, and the metrics (metrics.cpp).  Calls do not *)
(* overlap: the framework starts no threads of its own and has no locks.   *)
(* A call that changes nothing is not a step.                              *)
(***************************************************************************)
EXTENDS Integers, FiniteSets, FiniteSetsExt, Functions, Sequences

CONSTANTS
  Name,           \* model names
  Empty,          \* the name of a slot that is all zero
  Cut,            \* Cut[n]: what fits of n into name[64]
  Path,           \* model files
  ModelSize,      \* ModelSize[p]: the size of a file
  max_model_size,
  max_models,
  History,        \* the history_size of the metrics
  Latency,        \* the values of latency_us
  Infinity,       \* UINT64_MAX
  MaxRequests     \* bound: requests of one handle

ASSUME InferAssumption ==
  /\ Empty \notin Name
  /\ Cut \in [Name -> Name] /\ ModelSize \in [Path -> Nat]
  /\ max_model_size \in Nat /\ max_models \in Nat \ {0} /\ History \in Nat \ {0}
  /\ Latency \subseteq Nat /\ Infinity \in Nat
  /\ \A l \in Latency : l < Infinity
  /\ MaxRequests \in Nat

Needed   == {"handle", "mempool", "threadpool", "scheduler", "models"}
Optional == {"batch", "loader", "metrics"}

VARIABLES
  has,            \* the parts of the handle; {} without a handle
  lost,           \* parts that nobody can release any more
  models,         \* the slots in use, in the order of their index
  models_,        \* the loader's map: name -> file, for the loaded names
  metrics,        \* the members of MetricsCollector
  recorded        \* history: the latencies recorded so far

vars == <<has, lost, models, models_, metrics, recorded>>

(* Mutant: the minimum starts at zero. *)
Fresh_Zero ==
  [samples |-> [i \in 0..(History - 1) |-> 0], head |-> 0, count |-> 0,
   total_requests |-> 0, success_count |-> 0, error_count |-> 0,
   latency_sum |-> 0, latency_min |-> 0, latency_max |-> 0]

(* MetricsCollector::MetricsCollector *)
Fresh ==
  [samples |-> [i \in 0..(History - 1) |-> 0], head |-> 0, count |-> 0,
   total_requests |-> 0, success_count |-> 0, error_count |-> 0,
   latency_sum |-> 0, latency_min |-> Infinity, latency_max |-> 0]

Init ==
  /\ has = {} /\ lost = {}
  /\ models = <<>>
  /\ models_ = <<>>
  /\ metrics = Fresh
  /\ recorded = <<>>

-----------------------------------------------------------------------------
(* tn_infer_create, all steps done: each optional part may be missing,      *)
(* for want of memory or because the configuration has it off.              *)
Create(optional) ==
  /\ has = {}
  /\ has' = Needed \cup optional
  /\ UNCHANGED <<lost, models, models_, metrics, recorded>>

(* What exists when the step that makes part p fails *)
MadeBefore(p) ==
  LET order == <<"handle", "mempool", "threadpool", "scheduler", "models">>
      k == CHOOSE i \in DOMAIN order : order[i] = p
  IN  {order[i] : i \in 1..(k - 1)}

(* What the error path of that step releases *)
Undo(p) ==
  IF p = "models" THEN {"handle", "mempool", "threadpool", "scheduler"}
  ELSE IF p = "scheduler" THEN {"handle", "mempool", "threadpool"}
  ELSE IF p = "threadpool" THEN {"handle", "mempool"}
  ELSE IF p = "mempool" THEN {"handle"}
  ELSE {}

(* tn_infer_create, when making p fails.  The optional parts exist already  *)
(* when the array of models, the last step, fails.                          *)
CreateFails(p, optional) ==
  /\ has = {}
  /\ optional # {} => p = "models"
  /\ lost' = lost \cup ((MadeBefore(p) \cup optional) \ Undo(p))
  /\ UNCHANGED <<has, models, models_, metrics, recorded>>

-----------------------------------------------------------------------------
(* The slots with a name; the search takes the first one. *)
Named(n) == {i \in DOMAIN models : models[i].name = n}

(* ModelLoader::Load of a name that is not loaded, with success *)
Loads(path, n, map) ==
  /\ ModelSize[path] <= max_model_size
  /\ map = [m \in DOMAIN models_ \cup {n} |-> IF m = n THEN path ELSE models_[m]]

Room == Len(models) < max_models

(* The slots once tn_infer_load has found or taken the one for n, and its   *)
(* index there                                                              *)
Slots(n) ==
  IF Named(n) # {} THEN models
  ELSE Append(models, [name |-> Empty, path |-> Empty, loaded |-> FALSE, size |-> 0])
Slot(n) == IF Named(n) # {} THEN Min(Named(n)) ELSE Len(models) + 1

(* tn_infer_load with success: the file is loaded, or the name is already   *)
(* known to the loader, or there is no loader.                              *)
Load(path, n) ==
  /\ has # {}
  /\ Named(n) # {} \/ Room
  /\ IF "loader" \in has /\ n \notin DOMAIN models_
     THEN Loads(path, n, models_')
     ELSE UNCHANGED models_
  /\ models' = [Slots(n) EXCEPT ![Slot(n)] =
                  [name |-> Cut[n], path |-> path, loaded |-> TRUE,
                   size |-> IF "loader" \in has THEN ModelSize[models_'[n]] ELSE @.size]]
  /\ UNCHANGED <<has, lost, metrics, recorded>>

(* tn_infer_load when the loader fails: a new slot stays taken. *)
LoadFails(n) ==
  /\ has # {}
  /\ Named(n) # {} \/ Room
  /\ "loader" \in has /\ n \notin DOMAIN models_
  /\ models' = Slots(n)
  /\ UNCHANGED <<has, lost, models_, metrics, recorded>>

(* ModelLoader::Unload *)
Without(names) == [m \in DOMAIN models_ \ names |-> models_[m]]

(* Mutant: the slot still says that the model is loaded. *)
Unload_FlagStays(n) ==
  /\ has # {}
  /\ Named(n) # {} /\ models[Min(Named(n))].loaded
  /\ models_' = IF "loader" \in has THEN Without({n}) ELSE models_
  /\ UNCHANGED <<has, lost, models, metrics, recorded>>

(* tn_infer_unload *)
Unload(n) ==
  /\ has # {}
  /\ Named(n) # {} /\ models[Min(Named(n))].loaded
  /\ models_' = IF "loader" \in has THEN Without({n}) ELSE models_
  /\ models' = [models EXCEPT ![Min(Named(n))].loaded = FALSE]
  /\ UNCHANGED <<has, lost, metrics, recorded>>

(* Mutant: the last slot is left out. *)
StillLoaded_NotLast == {i \in 1..(Len(models) - 1) : models[i].loaded}

(* The slots whose models tn_infer_destroy unloads *)
StillLoaded == {i \in DOMAIN models : models[i].loaded}

(* tn_infer_destroy.  It does not release the loader. *)
Destroy ==
  /\ has # {}
  /\ models_' = IF "loader" \in has
                THEN Without({models[i].name : i \in StillLoaded})
                ELSE models_
  /\ lost' = lost \cup (has \cap {"loader"})
  /\ has' = {}
  /\ models' = <<>>
  /\ metrics' = Fresh
  /\ recorded' = <<>>

-----------------------------------------------------------------------------
(* MetricsCollector::Record of a successful request *)
Record(l) ==
  metrics' = [metrics EXCEPT
    !.samples[metrics.head % History] = l,
    !.head = @ + 1,
    !.count = IF @ < History THEN @ + 1 ELSE @,
    !.total_requests = @ + 1,
    !.success_count = @ + 1,
    !.latency_sum = @ + l,
    !.latency_min = IF l < @ THEN l ELSE @,
    !.latency_max = IF l > @ THEN l ELSE @]

(* tn_infer with success; it asks the loader, not the slots.  Requests that *)
(* fail are not recorded.                                                   *)
Run(n, l) ==
  /\ "loader" \in has /\ n \in DOMAIN models_
  /\ "metrics" \in has
  /\ Len(recorded) < MaxRequests
  /\ Record(l)
  /\ recorded' = Append(recorded, l)
  /\ UNCHANGED <<has, lost, models, models_>>

(* MetricsCollector::Collect *)
avg_latency_us ==
  IF metrics.total_requests > 0
  THEN metrics.latency_sum \div metrics.total_requests ELSE 0
min_latency_us == IF metrics.total_requests > 0 THEN metrics.latency_min ELSE 0
max_latency_us == IF metrics.total_requests > 0 THEN metrics.latency_max ELSE 0

Next ==
  \/ \E optional \in SUBSET Optional :
       Create(optional) \/ \E p \in Needed : CreateFails(p, optional)
  \/ Destroy
  \/ \E n \in Name :
       \/ \E path \in Path : Load(path, n)
       \/ LoadFails(n) \/ Unload(n)
       \/ \E l \in Latency : Run(n, l)

Spec == Init /\ [][Next]_vars

-----------------------------------------------------------------------------
(* What tn_infer_list_models tells is what tn_infer finds: with a loader,   *)
(* a name has a model there exactly when a slot of that name is loaded,     *)
(* there is one such slot, and its size is that of the model in use,        *)
(* through failed loads, reloads from another file and unloading.  The      *)
(* slots never outgrow the array that tn_infer_create allocated.            *)
SlotsMatchLoader ==
  /\ Len(models) <= max_models
  /\ "loader" \in has =>
    \A n \in Name :
      /\ Cardinality(Named(n)) <= 1
      /\ n \in DOMAIN models_ <=> \E i \in Named(n) : models[i].loaded
      /\ \A i \in Named(n) : models[i].loaded => models[i].size = ModelSize[models_[n]]

(* Whichever step of tn_infer_create fails, and in tn_infer_destroy, the    *)
(* handle, the pools, the scheduler and the array are released; and         *)
(* tn_infer_destroy frees the memory of all models, though not the loader   *)
(* that held them: without a handle no model is left.                       *)
Released ==
  /\ lost \cap Needed = {}
  /\ has = {} => DOMAIN models_ = {}

(* The metrics are those of the requests recorded: the ring has the last    *)
(* ones, each at its place, and the aggregates are over all of them, with   *)
(* the average between the smallest and the largest.                        *)
MetricsExact ==
  LET k == Len(recorded) IN
  /\ metrics.total_requests = k /\ metrics.success_count + metrics.error_count = k
  /\ metrics.count = Min({k, History})
  /\ \A i \in 1..k : i > k - History => metrics.samples[(i - 1) % History] = recorded[i]
  /\ k > 0 => /\ min_latency_us = Min(Range(recorded))
              /\ max_latency_us = Max(Range(recorded))
  /\ min_latency_us <= avg_latency_us /\ avg_latency_us <= max_latency_us
=============================================================================
