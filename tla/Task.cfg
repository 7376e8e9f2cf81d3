\* Two user slots for three tasks, so that a slot is reused.
SPECIFICATION FairSpec
CONSTANTS
  MaxTasks = 3
  MaxId = 3
  MaxSleep = 1
  MaxFdFailures = 1
  ExitCodes = {0}
  Stacks = {k1, k2}
  NoStack = NoStack
  NoCode = NoCode
INVARIANTS OneRunning NoLostWakeup Cr3IsCurrent NothingSharedOrLeaked WaitAnswers
PROPERTIES ReadyRuns WaiterReturns SleepEnds
