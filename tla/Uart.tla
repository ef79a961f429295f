-------------------------------- MODULE Uart --------------------------------
(***************************************************************************)
(* The serial port driver (arch/i386/arch/devices/uart.c) as operators on  *)
(* arch_uart_t, and what it needs of the 16550 chip: bytes received and    *)
(* not read, whether interrupts are enabled, and those it signals.  Bytes  *)
(* leave the chip at any time, so how many uart_write can hand over is     *)
(* anyone's guess.                                                         *)
(***************************************************************************)
EXTENDS Integers, SequencesExt

CONSTANTS
  BUFFER_SIZE,
  UART_FIFO,      \* bytes the chip keeps
  Byte, NewLine, Terminator

ASSUME UartAssumption ==
  /\ BUFFER_SIZE \in Nat \ {0} /\ UART_FIFO \in Nat \ {0}
  /\ {NewLine, Terminator} \subseteq Byte

BufferIndex == 0 .. BUFFER_SIZE - 1

UartState ==
  [uart_type : {"UNDEFINED", "UT16550A"},
   mode      : {"UART_BYTE", "UART_STREAM"},
   inbuff    : [BufferIndex -> Byte], inf  : BufferIndex, inl  : BufferIndex,
   insz      : 0 .. BUFFER_SIZE,
   outbuff   : [BufferIndex -> Byte], outf : BufferIndex, outl : BufferIndex,
   outsz     : 0 .. BUFFER_SIZE]

ChipState ==
  [rx    : BoundedSeq(Byte, UART_FIFO),   \* received bytes (RBR)
   ier   : BOOLEAN,                       \* interrupts enabled (IER_DEFAULT)
   busy  : BOOLEAN,                       \* bytes are being transmitted
   empty : BOOLEAN]                       \* THR_EMPTY is signalled

INC_MOD(x) == IF x + 1 < BUFFER_SIZE THEN x + 1 ELSE 0

\* The chip asks for an interrupt: IIR_INT_PENDING, bit 0 of IIR, is then 0.
InterruptAsked(chip) == chip.ier /\ (chip.rx # <<>> \/ chip.empty)

\* Mutation: room for one byte more than there is.
PutIn_onceMore(u, b) ==
  LET full == u.insz > BUFFER_SIZE
  IN  [u EXCEPT !.inbuff[u.inl] = b, !.inl = INC_MOD(@),
                !.insz = IF u.insz = BUFFER_SIZE THEN @ ELSE @ + 1,
                !.inf  = IF full THEN INC_MOD(@) ELSE @]

\* The body of uart_read's loop: the oldest byte makes room.
PutIn(u, b) ==
  LET full == u.insz = BUFFER_SIZE
  IN  [u EXCEPT !.inbuff[u.inl] = b, !.inl = INC_MOD(@),
                !.insz = IF full THEN @ ELSE @ + 1,
                !.inf  = IF full THEN INC_MOD(@) ELSE @]

uart_read(u, chip) == [u |-> FoldLeft(PutIn, u, chip.rx), chip |-> [chip EXCEPT !.rx = <<>>]]

InBytes(u)  == [i \in 1 .. u.insz |-> u.inbuff[(u.inf + i - 1) % BUFFER_SIZE]]
OutBytes(u) == [i \in 1 .. u.outsz |-> u.outbuff[(u.outf + i - 1) % BUFFER_SIZE]]

\* n bytes go out: the transmitter was empty that often.
uart_write(u, chip, n) ==
  [u    |-> [u EXCEPT !.outf = (@ + n) % BUFFER_SIZE, !.outsz = @ - n],
   chip |-> [chip EXCEPT !.busy = @ \/ n > 0],
   out  |-> SubSeq(OutBytes(u), 1, n)]

-----------------------------------------------------------------------------
\* identify_UART: the chip of the machine is a 16550A.
identify_UART(u) == [u EXCEPT !.uart_type = IF @ = "UNDEFINED" THEN "UT16550A" ELSE @]

(***************************************************************************)
(* uart_config.  Of its checks only the one of the mode can fail.  What it *)
(* computes for LCR is not written; IER is.                                *)
(***************************************************************************)
uart_config(u, chip, mode) ==
  IF mode \notin {"UART_BYTE", "UART_STREAM"} THEN [u |-> u, chip |-> chip]
  ELSE [u    |-> [u EXCEPT !.mode = mode,
                           !.inf = 0, !.inl = 0, !.insz = 0,
                           !.outf = 0, !.outl = 0, !.outsz = 0],
        chip |-> [chip EXCEPT !.rx = <<>>, !.ier = TRUE, !.empty = TRUE]]

\* identify_UART has set the type, so the port is never configured here.
uart_init(u, chip) ==
  LET u1 == identify_UART(u)
  IN  IF u1.uart_type # "UNDEFINED" THEN [u |-> u1, chip |-> chip]
      ELSE uart_config(u1, chip, "UART_BYTE")

-----------------------------------------------------------------------------
\* The bytes uart_send copies: those of a string up to its end.
Payload(data, flags) ==
  CASE flags = "PRINTSTRING" ->
         IF Terminator \in ToSet(data)
         THEN SubSeq(data, 1, (CHOOSE i \in 1 .. Len(data) :
                                 data[i] = Terminator /\ \A j \in 1 .. i - 1 : data[j] # Terminator) - 1)
         ELSE data
    [] flags \in {"CLEAR", "GOTOXY"} -> <<NewLine>>
    [] OTHER -> data

PutOut(u, b) ==
  [u EXCEPT !.outbuff[u.outl] = b, !.outl = INC_MOD(@), !.outsz = @ + 1]

\* Mutation: the test of the room is missing.
Room_unlimited(u, bytes) == Len(bytes)

Room(u, bytes) ==
  IF Len(bytes) <= BUFFER_SIZE - u.outsz THEN Len(bytes) ELSE BUFFER_SIZE - u.outsz

uart_send(u, data, flags) ==
  LET bytes == Payload(data, flags)
  IN  FoldLeft(PutOut, u, SubSeq(bytes, 1, Room(u, bytes)))

\* After uart_read; a call for the parameters (UART_GETCONF) changes nothing.
uart_recv(u, size) ==
  LET n == IF size < u.insz THEN size ELSE u.insz
  IN  [u    |-> [u EXCEPT !.inf = (@ + n) % BUFFER_SIZE, !.insz = @ - n],
       data |-> SubSeq(InBytes(u), 1, n)]

(***************************************************************************)
(* uart_interrupt_handler reads IIR until its bit 0 is 0: it returns when  *)
(* an interrupt is pending, having served nothing.  When none is, IIR has  *)
(* no other bit of those it tests, and it reads on: "spins".               *)
(***************************************************************************)
uart_interrupt_handler(chip) ==
  [spins |-> ~InterruptAsked(chip),
   chip  |-> IF InterruptAsked(chip) /\ chip.rx = <<>> THEN [chip EXCEPT !.empty = FALSE]
                                                      ELSE chip]
=============================================================================
