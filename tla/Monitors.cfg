CONSTANTS
  NULL = NULL
  Desc = {idle, main, t1, t2}
  Idle = idle
  Main = main
  Proc = {kproc, p1}
  KernelProc = kproc
  MainProc = p1
  WaitQueue = {m1, m2, c1}
  Mon = {m1, m2}
  Cond = {c1}
  MAX_RESOURCES = 9
  WBITS = 4
  PRIO_LEVELS = 2
  WORD = 1
  UserPrio = {9}
  THR_DEFAULT_PRIO = 1
  ExitStatus = {7}
  MaxIds = 4
  CancelUsed = FALSE
  MaxJoiners = 0
SPECIFICATION MonSpec
SYMMETRY Symmetry
INVARIANTS MonTypeOK NobodyAtOpenMonitor MutualExclusion
CHECK_DEADLOCK FALSE
