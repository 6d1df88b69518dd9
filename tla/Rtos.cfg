CONSTANTS
  t1 = t1  t2 = t2  s = s  m = m
  Tasks = {t1, t2}
  Early = {t1}
  Priority <- MCPriority
  NewPriorities <- MCNewPriorities
  CreatesAbove = FALSE
  Semaphores = {s}
  InitialCount <- MCInitialCount
  Mutexes = {m}
  Interrupts <- MCInterrupts
  InterruptLevel <- MCInterruptLevel
  SignalledBy <- MCSignalledBy
  TimerSignals <- MCTimerSignals
  Period = 1
  Periodic = TRUE
  MaxTicks = 1
  Delays = {1}
  INVALID_TASK_ID = 3
  Main = Main  Idle = Idle  TimerTask = TimerTask  None = None
SPECIFICATION Spec
INVARIANT TypeOK NoAssertionFails HighestPriorityRuns KnowsItself NoWakeUpLost StoppedTimerIsSilent
PROPERTY NoPriorityInversion
