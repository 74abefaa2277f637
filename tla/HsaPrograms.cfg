SPECIFICATION Spec
CONSTANTS
  MaxAgents = 3
  MaxPools = 2
  Machines <- SmallMachines
INVARIANTS
  TypeOK
  ReadyMeansUsable
  SharedWithTheGpu
  BuffersAsNamed
  SearchesComplete
  NoCrash
