CONSTANTS
  NULL = NULL
  Desc = {idle, main, t1, t2}
  Idle = idle
  Main = main
  Proc = {kproc, p1, p2}
  KernelProc = kproc
  MainProc = p1
  WaitQueue = {}
  MAX_RESOURCES = 9
  WBITS = 4
  PRIO_LEVELS = 6
  WORD = 4
  UserPrio = {1, 9}
  THR_DEFAULT_PRIO = 1
  ExitStatus = {7}
  MaxIds = 5
  CancelUsed = FALSE
  MaxJoiners = 4
SPECIFICATION FairSpec
INVARIANTS ProcessOutlivesThreads ThreadsCounted FinishedHasCollector
PROPERTY WaiterReturns
