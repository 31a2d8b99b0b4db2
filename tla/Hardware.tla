------------------------------- MODULE Hardware -------------------------------
(***************************************************************************)
(* What the drivers of the sound cards share: the interrupt controllers,   *)
(* the interrupt vectors, the DMA controller (dma.c), and the DPMI calls   *)
(* for locked memory and for the stack of the handler.                     *)
(*                                                                         *)
(* All operators are on a record m, the machine:                           *)
(*   masked    the lines that the interrupt controllers hold back,         *)
(*   vector    who has the vector of each interrupt: "dos" or "driver",    *)
(*   dma       for each DMA channel the bytes it goes round in, where in   *)
(*             them it is (pos), and whether to play or to record,         *)
(*   stacks    stacks of the handler that are allocated,                   *)
(*   locked    the driver's memory is locked,                              *)
(*   task      the driver's task is scheduled (Disney only),               *)
(*   fault     what goes wrong in this call of the library,                *)
(*   exposed   a handler could run without its stack or its locked memory, *)
(* and what every driver keeps: installed, irq, saved (the masks at its    *)
(* initialization), old (the vector at that time), status, callback,       *)
(* playing ("off", "play" or "record"), mode (bits and channels), rate,    *)
(* length (TransferLength), current (CurrentDMABuffer, from the beginning  *)
(* of the buffer).                                                         *)
(***************************************************************************)
EXTENDS Integers

CONSTANT TotalBufferSize

Undefined == -1
Idle      == [size |-> 0, pos |-> 0, to |-> "off"]
Mono8     == [bits |-> 8, channels |-> 1]

MinOf(a, b) == IF a < b THEN a ELSE b
MaxOf(a, b) == IF a > b THEN a ELSE b

Ok(m)     == [m EXCEPT !.status = "ok"]
Failed(m) == [m EXCEPT !.status = "error"]

-------------------------------------------------------------------------------
(* Interrupts.  The lines of the second controller arrive through line 2   *)
(* of the first.                                                           *)

\* The lines that the drivers have a vector for.
ValidIrq(irq) == irq \in {2, 3, 5, 7, 10, 11, 12, 15}

Lines(irq) == IF irq < 8 THEN {irq} ELSE {irq, 2}

Reaches(m, irq) == Lines(irq) \cap m.masked = {}

\* The handler switches to its own stack, and reads memory that must not be paged out,
\* as a task does on the stack of the task manager.
Watched(m) ==
    [m EXCEPT !.exposed = \/ @
                          \/ m.task /\ ~m.locked
                          \/ \E irq \in DOMAIN m.vector :
                                 /\ m.vector[irq] = "driver" /\ Reaches(m, irq)
                                 /\ m.stacks = 0 \/ ~m.locked]

SaveMasks(m) == [m EXCEPT !.saved = m.masked]

EnableInterrupt(m) == Watched([m EXCEPT !.masked = @ \ Lines(m.irq)])

\* As it was when the driver was initialized.
DisableInterrupt(m) ==
    Watched([m EXCEPT !.masked = (@ \ Lines(m.irq)) \cup (m.saved \cap Lines(m.irq))])

ReplaceInterrupt(m) ==
    Watched([m EXCEPT !.old = m.vector[m.irq], !.vector[m.irq] = "driver"])

RestoreInterrupt(m) == [m EXCEPT !.vector[m.irq] = m.old]

-------------------------------------------------------------------------------
(* DMA.                                                                    *)

VerifyChannel(channel) == channel \in {0, 1, 3, 5, 6, 7}

\* The second controller counts words.
Words(channel) == channel > 3

SetupTransfer(m, channel, size, direction) ==
    IF VerifyChannel(channel)
    THEN Ok([m EXCEPT !.dma[channel] = [size |-> size, pos |-> 0, to |-> direction]])
    ELSE Failed(m)

EndTransfer(m, channel) ==
    IF VerifyChannel(channel) THEN [m EXCEPT !.dma[channel] = Idle] ELSE m

\* The card has moved the bytes; the channel begins again by itself.
Transferred(m, channel, bytes) ==
    [m EXCEPT !.dma[channel].pos = (@ + bytes) % m.dma[channel].size]

\* What the handlers of all cards do with their place in the buffer.
NextPage(m) ==
    [m EXCEPT !.current = IF @ + m.length >= TotalBufferSize THEN 0 ELSE @ + m.length]

-------------------------------------------------------------------------------
(* DPMI.                                                                   *)

UnlockMemory(m) == Watched([m EXCEPT !.locked = FALSE])

LockMemory(m) ==
    IF m.fault = "lock" THEN Failed(UnlockMemory(m)) ELSE Ok([m EXCEPT !.locked = TRUE])

AllocateStack(m) ==
    IF m.fault = "stack" THEN Failed(m) ELSE Ok([m EXCEPT !.stacks = @ + 1])

\* Only a selector that is not 0.
DeallocateStack(m) == Watched([m EXCEPT !.stacks = IF @ > 0 THEN @ - 1 ELSE 0])

\* (Mutant: without a stack the memory stays locked.)
ReserveLocked(m) ==
    LET locked == LockMemory(m)
    IN  IF locked.status = "error" THEN locked ELSE AllocateStack(locked)

\* How BLASTER_Init, PAS_Init and SOUNDSCAPE_Init take hold of their memory, each thing
\* given back if the next is not to be had.
Reserve(m) ==
    LET locked == LockMemory(m)
        stack  == AllocateStack(locked)
    IN  IF locked.status = "error" THEN Failed(UnlockMemory(locked))
        ELSE IF stack.status = "error" THEN Failed(UnlockMemory(stack))
        ELSE stack

\* (Mutant: the stack is given back in front of the vector.)
ReleaseStackFirst(m) == UnlockMemory(RestoreInterrupt(DeallocateStack(m)))

\* The end of BLASTER_Shutdown and its kind.
Release(m) ==
    LET quiet == [RestoreInterrupt(m) EXCEPT !.playing = "off", !.callback = "none"]
    IN  [DeallocateStack(UnlockMemory(quiet)) EXCEPT !.installed = FALSE]
===============================================================================
