CONSTANTS
  t1 = t1  t2 = t2  s = s  m = m
  Tasks = {t1, t2}
  Early = {t2}
  Priority <- MCPriority
  NewPriorities <- MCNewPriorities
  CreatesAbove = TRUE
  Semaphores = {s}
  InitialCount <- MCInitialCount
  Mutexes = {m}
  Interrupts <- MCInterrupts
  InterruptLevel <- MCInterruptLevel
  SignalledBy <- MCSignalledBy
  TimerSignals <- MCTimerSignals
  Period = 1
  Periodic = FALSE
  MaxTicks = 1
  Delays = {1}
  INVALID_TASK_ID = 3
  Main = Main  Idle = Idle  TimerTask = TimerTask  None = None
SPECIFICATION Spec
INVARIANT KnowsItself
