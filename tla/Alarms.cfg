SPECIFICATION Spec
CONSTANTS
  Desc = {idle, main, d1}
  Idle = idle
  Proc = {kp, p1}
  KernelProc = kp
  NULL = NULL
  PRIO_LEVELS = 3
  WORD = 2
  MAX_RESOURCES = 12
  WBITS = 4
  AlarmAddr = {rr, a1, a2}
  WaitQueue <- MCWaitQueue
  NSEC = 10
  FREQ = 5
  COUNT_MIN = 2
  COUNT_MAX = 3
  Main = main
  MainProc = p1
  MainPrio = 1
  Delays = {3, 10}
  Kinds <- MCKinds
  MaxHandlerId = 3
  MaxTurns = 8
  MaxTime = 10
  OwnersOnly = TRUE
INVARIANTS AlarmsTypeOK AlarmListExact NoOverdueAlarm SleepersHaveAlarm
PROPERTY SleepsLongEnough
CHECK_DEADLOCK FALSE
