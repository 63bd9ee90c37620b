SPECIFICATION Spec
CONSTANTS
  Name = {a, b, c}
  Empty = Empty
  Cut <- Whole
  Path <- Files
  ModelSize <- Sizes
  max_model_size = 3
  max_models = 2
  History = 2
  Latency = {1, 4}
  Infinity = 99
  MaxRequests = 3
SYMMETRY Names
INVARIANTS   MetricsExact
