\* A caller may spin for ever on a full ring whose polling thread is asleep.
CHECK_DEADLOCK FALSE
SPECIFICATION FairSpec
CONSTANTS
  cpu = cpu
  gpu = gpu
  m1 = m1
  m2 = m2
  m3 = m3
  m4 = m4
  m5 = m5
  m6 = m6
  Producers = {cpu, gpu}
  Msgs = {m1, m2, m3, m4, m5, m6}
  Zero = Zero
  Half = Half
  Garbled = Garbled
  QUEUE_DEPTH = 2
  Entries = 2
  Wrap = 4
  WaitForRoom = TRUE
  MayIdle = TRUE
  DrainsInTime = FALSE
  Script <- LapScript
INVARIANTS
  SubmitsInOrder
  NeverOverfull
  PrintedOnce
PROPERTIES
  TailAdvances
  CallsReturn
