SPECIFICATION Spec
CONSTANTS
  Workers = {w1, w2}
  Actions <- ChainActions
  Orders = {}
  Planned <- ChainPlanned
  Spawns <- ChainSpawns
  Delay <- ChainDelay
  Replaces <- ChainReplaces
  Stubborn <- ChainActions
  BatchSize = 2
  MaxTime = 2
  MaxFaults = 1
  Nobody = nobody
SYMMETRY WorkerSymmetry
INVARIANTS SameChronicle
