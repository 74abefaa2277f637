SPECIFICATION FairSpec
CONSTANTS
  t1 = t1
  t2 = t2
  Producers <- TwoThreads
  Msgs <- TwoThreads
  Zero = Zero
  Half = Half
  Garbled = Garbled
  QUEUE_DEPTH = 3
  Entries = 4
  Wrap = 8
  WaitForRoom = FALSE
  MayIdle = TRUE
INVARIANTS
  TypeOK
  SlotExclusive
  InOrderPrintsWhole
  PublishedIsFilled
PROPERTIES
  KernelCatchesUp
