SPECIFICATION Spec
CONSTANTS
  MaxAgents = 2
  MaxPools = 1
  Machines <- SmallMachines
INVARIANT CoarseTimingIsCoarse
