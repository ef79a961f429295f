CONSTANTS
  NULL = NULL
  Desc = {idle, main, t1, t2}
  Idle = idle
  Main = main
  Proc = {kproc, p1}
  KernelProc = kproc
  MainProc = p1
  WaitQueue = {"VGA_TXT", "COM1", "i8042"}
  MAX_RESOURCES = 9
  WBITS = 4
  PRIO_LEVELS = 6
  WORD = 4
  UserPrio = {1, 9}
  THR_DEFAULT_PRIO = 1
  ExitStatus = {7}
  MaxIds = 4
  CancelUsed = TRUE
  MaxJoiners = 1
  Device = {"VGA_TXT", "COM1", "i8042"}
  NotShared = {}
  KEYB_BUFF_SIZE = 2
  keyb_codes <- Plain
  keyb_codes_shift <- Shifted
  Keys <- KeyCodes
  BootCodes <- Boot
  MaxPressed = 1
  PushedBack <- Pushed
  GetFlags <- Flags
  BUFFER_SIZE = 2
  UART_FIFO = 1
  Byte = {"x", "0"}
  NewLine = "x"
  Terminator = "0"
  Texts <- SendTexts
  SendFlags = {"PRINTSTRING", "CLEAR", "raw"}
  RecvSizes = {0, 1}
  ConfModes = {"UART_BYTE", "other"}
SPECIFICATION DevSpec
SYMMETRY Symmetry
INVARIANTS DevTypeOK LockHeldByOne HeldKeysTracked
PROPERTY BuffersInOrder
CHECK_DEADLOCK FALSE
