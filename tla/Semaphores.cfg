CONSTANTS
  NULL = NULL
  Desc = {idle, main, t1, t2}
  Idle = idle
  Main = main
  Proc = {kproc, p1}
  KernelProc = kproc
  MainProc = p1
  WaitQueue = {s1}
  Sem = {s1}
  InitialValue <- InitialValues
  MaxValue = 2
  MAX_RESOURCES = 9
  WBITS = 4
  PRIO_LEVELS = 6
  WORD = 4
  UserPrio = {1, 9}
  THR_DEFAULT_PRIO = 1
  ExitStatus = {7}
  MaxIds = 5
  CancelUsed = TRUE
  MaxJoiners = 1
SPECIFICATION SemSpec
SYMMETRY Symmetry
INVARIANTS SemTypeOK NoLostWakeup
PROPERTY ImplementsSemaphore
CHECK_DEADLOCK FALSE
