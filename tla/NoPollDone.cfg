SPECIFICATION Spec
CONSTANTS
  cpu = cpu
  gpu = gpu
  m1 = m1
  m2 = m2
  m3 = m3
  m4 = m4
  m5 = m5
  m6 = m6
  m7 = m7
  m8 = m8
  m9 = m9
  MaxOps = 5
  MaxFails = 0
  Producers = {cpu, gpu}
  Msgs = {m1, m2, m3, m4, m5, m6, m7, m8, m9}
  Zero = Zero
  Half = Half
  Garbled = Garbled
  QUEUE_DEPTH = 12
  Entries = 16
  Wrap = 64
  WaitForRoom = FALSE
  MayIdle = TRUE
  ShortWait = TRUE
  Programs <- OnlyNoPoll
INVARIANTS
  AllCompleted
\* A flush that waits although nothing is outstanding waits for ever.
CHECK_DEADLOCK FALSE
