----------------------------- MODULE Interrupts ------------------------------
(***************************************************************************)
(* Interrupt handlers and the interrupt controller (arch/interrupts.c,     *)
(* devices/i8259.c) as operators on a record ic: for every interrupt the   *)
(* list of its handlers, the lines enabled and those in service, and the   *)
(* modes by which k_memory_fault knows whose fault it is.                  *)
(***************************************************************************)
EXTENDS Integers, SequencesExt

KERNEL_MODE == 0
USER_MODE   == -1

IRQ_OFFSET         == 32
IRQ_TIMER          == IRQ_OFFSET
IRQ_KEYBOARD       == IRQ_OFFSET + 1
IRQ_SLAVE_PIC      == IRQ_OFFSET + 2
IRQ_COM1           == IRQ_OFFSET + 4
HW_INTERRUPTS      == IRQ_OFFSET + 16
SOFTWARE_INTERRUPT == HW_INTERRUPTS
INT_STF            == 12
INT_GPF            == 13
INTERRUPTS         == HW_INTERRUPTS + 1

IcState(Handler) ==
  [ihandlers  : [0 .. INTERRUPTS - 1 -> Seq(Handler)],
   enabled    : SUBSET (IRQ_OFFSET .. HW_INTERRUPTS - 1),
   in_service : SUBSET (IRQ_OFFSET .. HW_INTERRUPTS - 1),
   new_mode   : {KERNEL_MODE, USER_MODE},
   prev_mode  : {KERNEL_MODE, USER_MODE},
   halted     : BOOLEAN]

\* Everything is masked but the line of the second controller.
i8259_init == {IRQ_SLAVE_PIC}

arch_init_interrupts ==
  [ihandlers  |-> [i \in 0 .. INTERRUPTS - 1 |-> <<>>],
   enabled    |-> i8259_init, in_service |-> {},
   new_mode   |-> KERNEL_MODE, prev_mode |-> KERNEL_MODE, halted |-> FALSE]

arch_register_interrupt_handler(ic, inum, handler) ==
  IF inum < INTERRUPTS THEN [ic EXCEPT !.ihandlers[inum] = Append(@, handler)]
                       ELSE [ic EXCEPT !.halted = TRUE]

i8259_irq_enable(ic, irq) == [ic EXCEPT !.enabled = @ \cup {irq}]

\* The processor is interrupted by an enabled line that is not in service.
MayInterrupt(ic, irq) == irq \in ic.enabled \ ic.in_service

i8259_at_exit(ic, irq) == [ic EXCEPT !.in_service = @ \ {irq}]

(***************************************************************************)
(* arch_interrupt_handler up to the handlers, whose effects are in other   *)
(* variables, and from there.  An interrupt without a handler halts.       *)
(***************************************************************************)
Entered(ic, irq) ==
  [ic EXCEPT !.prev_mode  = ic.new_mode,
             !.new_mode   = KERNEL_MODE,
             !.in_service = IF IRQ_OFFSET <= irq /\ irq < HW_INTERRUPTS THEN @ \cup {irq} ELSE @,
             !.halted     = @ \/ ic.ihandlers[irq] = <<>>]

Left(ic, irq) ==
  [i8259_at_exit(ic, irq) EXCEPT !.prev_mode = ic.new_mode, !.new_mode = USER_MODE]

arch_prev_mode(ic) == ic.prev_mode
=============================================================================
