------------------------------- MODULE Devices -------------------------------
(***************************************************************************)
(* The device layer (kernel/devices.c) with its drivers, their hardware,   *)
(* and the threads that use them.  Drivers share no state with each other  *)
(* or with the locks of devices, so a behaviour exercises one part, chosen *)
(* at the beginning; all parts are there in each.                          *)
(***************************************************************************)
EXTENDS Threads, Keyboard, Uart, Interrupts

CONSTANTS
  Device,        \* the devices of DEVICES_DEV, by name
  NotShared,     \* those of type DEV_TYPE_NOTSHARED
  Keys,          \* Keys[k]: the scan codes of pressing and of releasing k
  BootCodes,     \* codes the keyboard may have sent before the kernel starts
  MaxPressed,    \* bound: special keys held at the same time
  PushedBack,    \* what programs push back into the keyboard's buffer
  GetFlags,      \* sets of flags they read keystrokes with
  Texts,         \* what they send to the serial port
  SendFlags, RecvSizes, ConfModes

ASSUME DevicesAssumption ==
  /\ {"COM1", "i8042"} \subseteq Device /\ NotShared \subseteq Device
  /\ Device \subseteq WaitQueue
  /\ MaxPressed \in Nat
  /\ PushedBack \subseteq Seq(Keystroke) /\ Texts \subseteq Seq(Byte) /\ RecvSizes \subseteq Nat

\* A key's codes are one, or E0 and one more; of a special key, they say what it does.
ScanCodes(c) ==
  /\ c \in Seq(STRING)
  /\ \/ Len(c) = 1 /\ c[1] # "E0"
     \/ Len(c) = 2 /\ c[1] = "E0"

EventOf(c) ==
  LET Table == IF Len(c) = 1 THEN Special ELSE SpecialE0
  IN  IF c[Len(c)] \in DOMAIN Table THEN Table[c[Len(c)]] ELSE NoEvent

\* The codes are those the tables of i8042.c are for; Caps Lock is toggled when it
\* is released.
ASSUME KeysAssumption ==
  \A name \in DOMAIN Keys :
    LET press == Keys[name].press  release == Keys[name].release
    IN  /\ ScanCodes(press) /\ ScanCodes(release)
        /\ EventOf(press) = IF name \in SpecKeys \ {"CAPSL"} THEN <<name, "down">> ELSE NoEvent
        /\ EventOf(release) = IF name = "CAPSL" THEN <<name, "toggle">>
                              ELSE IF name \in SpecKeys THEN <<name, "up">> ELSE NoEvent

\* The keys held when the kernel starts are those the codes sent before say.
ASSUME BootAssumption ==
  \A boot \in BootCodes :
    LET d == Decoded(KeyboardBefore, boot.codes)
    IN  boot.codes \in Seq(STRING) /\ d.down = boot.pressed \cap SpecKeys /\ ~d.multi_code

VARIABLES
  exercised,   \* "i8042", "COM1", "lock" or "names"
  kdev,        \* open and locked of each kdevice_t; thrq is wait_q(device)
  std,         \* u_stdin and u_stdout
  ic,          \* the interrupt subsystem
  kb, codes,   \* the keyboard driver, the codes in the keyboard's controller
  pressed,     \* special keys that are down, and "CAPSL" while Caps Lock is on
  key,         \* what the call returned, after a read of the keyboard
  kcall,       \* history: what the last call asked the keyboard for, if it was the last step
  astray,      \* history: the driver has read beyond its array
  up, chip,    \* the serial driver's arch_uart_t; the chip
  latched,     \* IRQ_COM1 waits in the interrupt controller
  spins,       \* the kernel is in the loop of uart_interrupt_handler
  got, sent,   \* what the call returned, after a receive; gave to the chip, after a send
  ucall,       \* history: what the last call asked the port for, if it was the last step
  locking      \* threads that have called lock and not yet unlock

threadVars   == <<k, handles, joining, locking>>
keyboardVars == <<kb, codes, pressed, key, kcall, astray>>
uartVars     == <<up, chip, latched, spins, got, sent, ucall>>
layerVars    == <<kdev, std>>
devVars == <<exercised, threadVars, keyboardVars, uartVars, layerVars, ic>>

NoDevice == "NULL"

NoKeyboardCall == [flags |-> {}, keys |-> <<>>]
NoPortCall     == [set |-> FALSE, bytes |-> <<>>]

\* A system call is an interrupt like others, without end-of-interrupt.
ThroughInterrupt(irq) == ic' = Left(Entered(ic, irq), irq)
Call(part) ==
  /\ exercised = part /\ FreeToCall /\ ~ic.halted /\ ~spins
  /\ ThroughInterrupt(SOFTWARE_INTERRUPT)
  /\ UNCHANGED exercised

-----------------------------------------------------------------------------
(***************************************************************************)
(* k_startup: handlers of calls and faults, the timer, then the devices    *)
(* (k_devices_init, k_device_add, k_device_init), each initialised before  *)
(* its interrupt is enabled; then the standard devices are opened.         *)
(***************************************************************************)
Registered(s, e) == arch_register_interrupt_handler(s, e[1], e[2])

k_startup_interrupts ==
  FoldLeft(Registered, arch_init_interrupts,
           << <<SOFTWARE_INTERRUPT, "k_syscall">>, <<INT_STF, "k_memory_fault">>,
              <<INT_GPF, "k_memory_fault">>, <<IRQ_TIMER, "arch_timer_handler">> >>)

k_device_init(s, irq, handler) ==
  i8259_irq_enable(arch_register_interrupt_handler(s, irq, handler), irq)

k_devices_init(s) ==
  k_device_init(k_device_init(s, IRQ_COM1, "uart_interrupt_handler"),
                IRQ_KEYBOARD, "i8042_interrupt_handler")

UartBefore ==
  [uart_type |-> "UNDEFINED", mode |-> "UART_BYTE",
   inbuff  |-> [i \in BufferIndex |-> Terminator], inf  |-> 0, inl  |-> 0, insz  |-> 0,
   outbuff |-> [i \in BufferIndex |-> Terminator], outf |-> 0, outl |-> 0, outsz |-> 0]
ChipBefore == [rx |-> <<>>, ier |-> FALSE, busy |-> FALSE, empty |-> FALSE]

DevInit ==
  /\ Init
  /\ exercised \in {"i8042", "COM1", "lock", "names"}
  /\ kdev = [d \in Device |-> [open |-> d = "COM1", locked |-> FALSE]]
  /\ std = [stdin |-> "COM1", stdout |-> "COM1"]
  /\ ic = k_devices_init(k_startup_interrupts)
  /\ \E boot \in BootCodes :
       LET r == i8042_init(boot.codes)
       IN  kb = r.kb /\ codes = r.codes /\ pressed = boot.pressed
  /\ key = NoKey /\ kcall = NoKeyboardCall /\ astray = FALSE
  /\ LET r == uart_init(UartBefore, ChipBefore) IN up = r.u /\ chip = r.chip
  /\ latched = FALSE /\ spins = FALSE
  /\ got = <<>> /\ sent = <<>> /\ ucall = NoPortCall
  /\ locking = [d \in Device |-> {}]

-----------------------------------------------------------------------------
(***************************************************************************)
(* Names: sys__device_open, sys__device_close, sys__set_default_stdin/out. *)
(***************************************************************************)
k_device_open(name) ==
  IF name \in Device /\ ~(name \in NotShared /\ kdev[name].open) THEN name ELSE NoDevice

Opened(dev) == IF dev = NoDevice THEN kdev ELSE [kdev EXCEPT ![dev].open = TRUE]

sys__device_open ==
  /\ Call("names")
  /\ \E name \in Device \cup {NoDevice} : kdev' = Opened(k_device_open(name))
  /\ UNCHANGED <<std, threadVars, keyboardVars, uartVars>>

sys__device_close ==
  /\ Call("names")
  /\ \E dev \in Device : kdev' = [kdev EXCEPT ![dev].open = FALSE]
  /\ UNCHANGED <<std, threadVars, keyboardVars, uartVars>>

sys__set_default ==
  /\ Call("names")
  /\ \E name \in Device \cup {NoDevice}, s \in {"stdin", "stdout"} :
       LET dev == k_device_open(name)
       IN  /\ kdev' = Opened(dev)
           /\ std' = IF dev = NoDevice THEN std ELSE [std EXCEPT ![s] = dev]
  /\ UNCHANGED <<threadVars, keyboardVars, uartVars>>

-----------------------------------------------------------------------------
(***************************************************************************)
(* Locks.  Programs unlock what they have locked, and lock it once.        *)
(***************************************************************************)
Waits(s, t, d) == t \in ToSet(s.q[wait_q(d)])
Inside(d)      == {t \in locking[d] : ~Waits(k, t, d)}

\* Mutation: the lock is free although it was handed to a waiting thread.
k_device_unlock_free(d) ==
  /\ k' = kthreads_schedule(kthreadq_release(k, wait_q(d)))
  /\ kdev' = [kdev EXCEPT ![d].locked = FALSE]

k_device_lock(d, wait) ==
  IF kdev[d].locked /\ ~wait THEN UNCHANGED <<k, kdev, locking>>
  ELSE /\ k' = IF kdev[d].locked THEN kthreads_schedule(kthread_enqueue(k, Self, wait_q(d)))
                                 ELSE k
       /\ kdev' = [kdev EXCEPT ![d].locked = TRUE]
       /\ locking' = [locking EXCEPT ![d] = @ \cup {Self}]

k_device_unlock(d) ==
  IF k.q[wait_q(d)] # <<>>
  THEN k' = kthreads_schedule(kthreadq_release(k, wait_q(d))) /\ UNCHANGED kdev
  ELSE k' = k /\ kdev' = [kdev EXCEPT ![d].locked = FALSE]

sys__device_lock ==
  /\ Call("lock")
  /\ \E wait \in BOOLEAN : Self \notin locking["COM1"] /\ k_device_lock("COM1", wait)
  /\ UNCHANGED <<handles, joining, std, keyboardVars, uartVars>>

sys__device_unlock ==
  /\ Call("lock")
  /\ Self \in locking["COM1"] /\ k_device_unlock("COM1")
  /\ locking' = [locking EXCEPT !["COM1"] = @ \ {Self}]
  /\ UNCHANGED <<handles, joining, std, keyboardVars, uartVars>>

\* Threads that have ended lock nothing, though their locks stay locked.
InSystem(s, t) == t = s.active_thread \/ \E Q \in Queue : t \in ToSet(s.q[Q])
StillLocking == [d \in Device |-> {t \in locking[d] : InSystem(k', t)}]

ThreadCall ==
  /\ exercised = "lock" /\ ~ic.halted
  /\ Next
  /\ ThroughInterrupt(SOFTWARE_INTERRUPT)
  /\ locking' = StillLocking
  /\ UNCHANGED <<exercised, layerVars, keyboardVars, uartVars>>

\* k_memory_fault ends the thread, unless it takes the fault for the kernel's own:
\* before the first call or interrupt the mode is still KERNEL_MODE.
k_memory_fault ==
  /\ exercised = "lock" /\ FreeToCall /\ ~ic.halted
  /\ IF arch_prev_mode(Entered(ic, INT_GPF)) = KERNEL_MODE
     THEN ic' = [Entered(ic, INT_GPF) EXCEPT !.halted = TRUE] /\ UNCHANGED <<k, locking>>
     ELSE /\ \E status \in ExitStatus : k' = kthread_cancel(k, Self, status)
          /\ ThroughInterrupt(INT_GPF)
          /\ locking' = StillLocking
  /\ UNCHANGED <<exercised, handles, joining, layerVars, keyboardVars, uartVars>>

-----------------------------------------------------------------------------
(***************************************************************************)
(* The keyboard: a user's hands, the interrupt, and calls.                 *)
(***************************************************************************)
\* Bound: a key sends its codes when those of the last one have been read.
Sent(c) == codes = <<>> /\ codes' = c

PressKey ==
  /\ exercised = "i8042"
  /\ \E name \in DOMAIN Keys :
       /\ Cardinality((pressed \ {"CAPSL"}) \cup ({name} \cap SpecKeys)) <= MaxPressed
       /\ Sent(Keys[name].press)
       /\ pressed' = IF name = "CAPSL" THEN pressed ELSE pressed \cup ({name} \cap SpecKeys)
  /\ key' = NoKey /\ kcall' = NoKeyboardCall
  /\ UNCHANGED <<exercised, ic, kb, astray, threadVars, uartVars, layerVars>>

ReleaseKey ==
  /\ exercised = "i8042"
  /\ \E name \in DOMAIN Keys :
       /\ Sent(Keys[name].release)
       /\ IF name = "CAPSL"
          THEN pressed' = (pressed \ {name}) \cup ({name} \ pressed)
          ELSE (name \in SpecKeys => name \in pressed) /\ pressed' = pressed \ {name}
  /\ key' = NoKey /\ kcall' = NoKeyboardCall
  /\ UNCHANGED <<exercised, ic, kb, astray, threadVars, uartVars, layerVars>>

\* Codes that arrive while the handler loops are read by it too.
KeyboardInterrupt ==
  /\ exercised = "i8042" /\ MayInterrupt(ic, IRQ_KEYBOARD) /\ ~ic.halted
  /\ \E n \in 1 .. Len(codes) :
       /\ kb' = i8042_interrupt_handler(kb, SubSeq(codes, 1, n))
       /\ codes' = SubSeq(codes, n + 1, Len(codes))
  /\ key' = NoKey /\ kcall' = NoKeyboardCall
  /\ ThroughInterrupt(IRQ_KEYBOARD)
  /\ UNCHANGED <<exercised, pressed, astray, threadVars, uartVars, layerVars>>

KeyboardRecv ==
  /\ Call("i8042")
  /\ \E flags \in GetFlags, beyond \in {NoKey, CHAR("K_RCTRL_UP")} :
       LET r      == i8042_get(kb, flags, beyond)
           Beyond == kb.size > 0 /\ ReadFirst(kb, flags).first = KEYB_BUFF_SIZE
       IN  /\ kb' = r.kb /\ key' = r.key
           /\ kcall' = [NoKeyboardCall EXCEPT !.flags = flags \cup {"READ"}]
           /\ astray' = (Beyond \/ (astray /\ ~("CLEAR_BUFFER" \in flags /\ kb.size > 0)))
  /\ UNCHANGED <<codes, pressed, threadVars, uartVars, layerVars>>

KeyboardSend ==
  /\ Call("i8042")
  /\ \E keys \in PushedBack :
       /\ kb' = i8042_send(kb, keys)
       /\ kcall' = [NoKeyboardCall EXCEPT !.keys = keys]
  /\ key' = NoKey
  /\ UNCHANGED <<codes, pressed, astray, threadVars, uartVars, layerVars>>

-----------------------------------------------------------------------------
(***************************************************************************)
(* The serial port: the chip, its interrupt, and calls.                    *)
(***************************************************************************)
Latches == latched' = (latched \/ (InterruptAsked(chip') /\ ~InterruptAsked(chip)))

\* A byte arrives; the chip loses it when it is full.
ByteArrives ==
  /\ exercised = "COM1"
  /\ \E b \in Byte :
       chip' = IF Len(chip.rx) < UART_FIFO THEN [chip EXCEPT !.rx = Append(@, b)] ELSE chip
  /\ Latches /\ got' = <<>> /\ sent' = <<>> /\ ucall' = NoPortCall
  /\ UNCHANGED <<exercised, ic, up, spins, threadVars, keyboardVars, layerVars>>

TransmitterEmpty ==
  /\ exercised = "COM1" /\ chip.busy
  /\ chip' = [chip EXCEPT !.busy = FALSE, !.empty = TRUE]
  /\ Latches /\ got' = <<>> /\ sent' = <<>> /\ ucall' = NoPortCall
  /\ UNCHANGED <<exercised, ic, up, spins, threadVars, keyboardVars, layerVars>>

\* The handler is entered, or reads IIR once more.
UartInterrupt ==
  /\ exercised = "COM1" /\ ~ic.halted
  /\ spins \/ (latched /\ MayInterrupt(ic, IRQ_COM1))
  /\ LET r == uart_interrupt_handler(chip)
         s == IF spins THEN ic ELSE Entered(ic, IRQ_COM1)
     IN  /\ chip' = r.chip
         /\ spins' = r.spins
         /\ ic' = IF r.spins THEN s ELSE Left(s, IRQ_COM1)
         /\ latched' = (spins /\ latched)
  /\ got' = <<>> /\ sent' = <<>> /\ ucall' = NoPortCall
  /\ UNCHANGED <<exercised, up, threadVars, keyboardVars, layerVars>>

UartSend ==
  /\ Call("COM1")
  /\ \E data \in Texts, flags \in SendFlags :
       /\ LET u1 == uart_send(up, data, flags)
          IN  \E n \in 0 .. u1.outsz :
                LET r == uart_write(u1, chip, n)
                IN  up' = r.u /\ chip' = r.chip /\ sent' = r.out
       /\ ucall' = [NoPortCall EXCEPT !.bytes = Payload(data, flags)]
  /\ Latches /\ got' = <<>>
  /\ UNCHANGED <<spins, threadVars, keyboardVars, layerVars>>

UartSetConf ==
  /\ Call("COM1")
  /\ \E mode \in ConfModes :
       LET r == uart_config(up, chip, mode) IN up' = r.u /\ chip' = r.chip
  /\ Latches /\ got' = <<>> /\ sent' = <<>> /\ ucall' = [NoPortCall EXCEPT !.set = TRUE]
  /\ UNCHANGED <<spins, threadVars, keyboardVars, layerVars>>

UartRecv ==
  /\ Call("COM1")
  /\ \E size \in RecvSizes :
       LET r == uart_read(up, chip)
           v == uart_recv(r.u, size)
       IN  up' = v.u /\ chip' = r.chip /\ got' = v.data
  /\ Latches /\ sent' = <<>> /\ ucall' = NoPortCall
  /\ UNCHANGED <<spins, threadVars, keyboardVars, layerVars>>

DevNext ==
  \/ sys__device_open \/ sys__device_close \/ sys__set_default
  \/ sys__device_lock \/ sys__device_unlock \/ ThreadCall \/ k_memory_fault
  \/ PressKey \/ ReleaseKey \/ KeyboardInterrupt \/ KeyboardRecv \/ KeyboardSend
  \/ ByteArrives \/ TransmitterEmpty \/ UartInterrupt
  \/ UartSend \/ UartSetConf \/ UartRecv

DevSpec == DevInit /\ [][DevNext]_devVars

-----------------------------------------------------------------------------
DevTypeOK ==
  /\ TypeOK
  /\ kdev \in [Device -> [open : BOOLEAN, locked : BOOLEAN]]
  /\ std \in [{"stdin", "stdout"} -> Device]
  /\ ic \in IcState({"k_syscall", "k_memory_fault", "arch_timer_handler",
                     "uart_interrupt_handler", "i8042_interrupt_handler"})
  /\ kb \in KeyboardState /\ key \in Keystroke
  /\ up \in UartState /\ chip \in ChipState
  /\ locking \in [Device -> SUBSET Desc]

(***************************************************************************)
(* A device's lock is held by one thread: it is handed over with the       *)
(* device still locked, and nobody waits for a free device, whatever       *)
(* threads end or are cancelled in between (k_device_lock,                 *)
(* k_device_unlock).                                                       *)
(***************************************************************************)
LockHeldByOne ==
  \A d \in Device :
    /\ Cardinality(Inside(d)) <= 1
    /\ locking[d] # {} => kdev[d].locked

(***************************************************************************)
(* When the codes that have arrived are read, the driver's spec_keys_down  *)
(* is the set of special keys that are down and the state of Caps Lock,    *)
(* wherever between two codes of a key an interrupt came                   *)
(* (i8042_prepare_char, the static multi_code, the loop of i8042_init).    *)
(***************************************************************************)
HeldKeysTracked ==
  exercised = "i8042" =>
    LET d == Decoded(kb, codes)
    IN  d.down = pressed \cap SpecKeys /\ ~d.multi_code

(***************************************************************************)
(* Keystrokes and bytes are read, and bytes transmitted, in the order they *)
(* came, each once.  Lost are only: the oldest of a full input buffer, by  *)
(* those that come; bytes an output buffer has no room for; what setting   *)
(* up the port (UART_SETCONF) empties; and keystrokes that a read asks to  *)
(* pass over: those before the last (ONLY_LAST) or before the first that   *)
(* is a character (ONLY_ASCII), and those behind (CLEAR_BUFFER).  Nothing  *)
(* is said of the keyboard from where ONLY_LAST makes it read beyond its   *)
(* array to where a later read clears its buffer (the circular buffers of  *)
(* i8042.c and uart.c).                                                    *)
(***************************************************************************)
KeyboardBuffer ==
  INSTANCE KeyQueue WITH
    Capacity <- KEYB_BUFF_SIZE, Overwrites <- TRUE, Short <- ASCII_KEY, Nothing <- NoKey,
    set_up <- FALSE, offered <- Stamped(kb, kcall.keys), asked <- kcall.flags,
    line <- Arriving(kb, codes), queue <- Keystrokes(kb),
    given <- IF key = NoKey THEN <<>> ELSE <<key>>

InputBuffer ==
  INSTANCE RingBuffer WITH
    Capacity <- BUFFER_SIZE, Overwrites <- TRUE,
    set_up <- ucall.set, offered <- <<>>,
    line <- chip.rx, queue <- InBytes(up), given <- got

OutputBuffer ==
  INSTANCE RingBuffer WITH
    Capacity <- BUFFER_SIZE, Overwrites <- FALSE,
    set_up <- ucall.set, offered <- ucall.bytes,
    line <- <<>>, queue <- OutBytes(up), given <- sent

BuffersInOrder ==
  [][/\ astray \/ astray' \/ [KeyboardBuffer!KeyNext]_(KeyboardBuffer!vars)
     /\ [InputBuffer!Next]_(InputBuffer!vars)
     /\ [OutputBuffer!Next]_(OutputBuffer!vars)]_devVars
=============================================================================
