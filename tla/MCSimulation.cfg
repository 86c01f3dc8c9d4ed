CONSTANTS
  Addrs = {main_addr, a}
  MainAddr = main_addr
  Latencies = {1, 2}
  Durations = {0, 1}
  Paths = {p}
  Buffers <- MCBuffers
  Offsets = {0, 2}
  Budgets <- MCBudgets
SPECIFICATION FairSpec
INVARIANTS SimTypeOK NothingOverslept NoMessageStranded DeadlockIsReal OneLifeAtATime FilesHoldWhatWasWritten
PROPERTIES ClockNeverGoesBack NetworkSpec BlockOnComesToAnEnd
CHECK_DEADLOCK FALSE
