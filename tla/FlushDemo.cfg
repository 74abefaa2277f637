SPECIFICATION FairSpec
CONSTANTS
  cpu = cpu
  gpu = gpu
  m1 = m1
  m2 = m2
  m3 = m3
  m4 = m4
  m5 = m5
  m6 = m6
  m7 = m7
  m8 = m8
  m9 = m9
  MaxOps = 5
  MaxFails = 2
  Producers = {cpu, gpu}
  Msgs = {m1, m2, m3, m4, m5, m6, m7, m8, m9}
  Zero = Zero
  Half = Half
  Garbled = Garbled
  QUEUE_DEPTH = 4
  Entries = 4
  Wrap = 8
  WaitForRoom = FALSE
  MayIdle = TRUE
  ShortWait = FALSE
  Programs <- AllPrograms
INVARIANTS
  TypeOK
  HeldUntilFlush
  WholeLines
  NeverReapsAhead
  FlushSettles
  RoundsPrintWhole
PROPERTIES
  EndsUp
  AllPrinted
  Prints
