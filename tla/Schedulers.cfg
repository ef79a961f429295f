SPECIFICATION Spec
CONSTANTS
  Desc = {idle, main, w1, w2}
  Idle = idle
  Proc = {kp, p1}
  KernelProc = kp
  NULL = NULL
  PRIO_LEVELS = 4
  WORD = 2
  MAX_RESOURCES = 12
  WBITS = 4
  edf_ready = edf_ready
  edf_wait = edf_wait
  sem = sem
  AlarmAddr = {a1, a2, a3, a4, a5, a6}
  WaitQueue <- MCWaitQueue
  TIME_SLICE <- MCSlice
  RR_THRESHOLD <- MCThreshold
  MaxHandlerId = 0
  MaxTurns = 8
  NSEC = 10
  FREQ = 10
  COUNT_MIN = 2
  COUNT_MAX = 6
  Main = main
  MainProc = p1
  MainPrio = 2
  Workers <- Both
  WorkerPrio = {1}
  NewPrio = {3}
  Delays = {4}
  Jobs <- MCJobs
  MaxTime = 5
  MaxThreads = 4
INVARIANTS SchedulersTypeOK SchedulingConsistent SliceAlarmIsCurrent EarliestDeadlineSelected
SYMMETRY Symmetry
CHECK_DEADLOCK FALSE
