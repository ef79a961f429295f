CONSTANTS
  NULL = NULL
  Desc = {idle, main, t1, t2}
  Idle = idle
  Main = main
  Proc = {kproc, p1}
  KernelProc = kproc
  MainProc = p1
  WaitQueue <- WaitQueues
  MsgQ = {g1}
  MsgType = {1}
  RecvType = {0}
  Size = {1}
  BufSize = {1}
  MinPrio = {0}
  SignalUsed = TRUE
  MaxMessages = 2
  MAX_RESOURCES = 9
  WBITS = 4
  PRIO_LEVELS = 3
  WORD = 1
  UserPrio = {1}
  THR_DEFAULT_PRIO = 1
  ExitStatus = {7}
  MaxIds = 5
  CancelUsed = TRUE
  MaxJoiners = 0
SPECIFICATION MsgSpec
SYMMETRY Symmetry
INVARIANTS MsgTypeOK NoStrandedReceiver NobodyAtDeletedQueue IdsInUse
CHECK_DEADLOCK FALSE
