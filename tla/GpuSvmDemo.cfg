SPECIFICATION FairSpec
CONSTANTS
  cpu = cpu
  gpu = gpu
  m1 = m1
  m2 = m2
  m3 = m3
  m4 = m4
  m5 = m5
  m6 = m6
  Producers = {cpu, gpu}
  Msgs = {m1, m2, m3, m4, m5}
  Zero = Zero
  Half = Half
  Garbled = Garbled
  QUEUE_DEPTH = 5
  Entries = 8
  Wrap = 32
  WaitForRoom = TRUE
  MayIdle = TRUE
  DrainsInTime = TRUE
  Script <- DemoScript
INVARIANTS
  TypeOK
  SubmitsInOrder
  NoGarbledLine
  PrintedOnce
  WithinPool
PROPERTIES
  TailAdvances
  Prints
  PrintsAll
  EndsUp
