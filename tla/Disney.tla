-------------------------------- MODULE Disney ---------------------------------
(***************************************************************************)
(* sndsrc.c: the driver of the Disney and the Tandy Sound Source, as       *)
(* operators on the machine of Hardware.  This device hangs on a printer   *)
(* port and has neither an interrupt nor a DMA channel: a task of the task *)
(* manager (SS_ServiceInterrupt) fills its FIFO.  It adds                  *)
(*   wired, takes  the port (1 to 3, or none) that the device hangs on,    *)
(*                 and the command on whose lines it takes a sample,       *)
(*   tandy         the program asks for a Tandy Sound Source,              *)
(*   selected      the port that the user has chosen, or Undefined,        *)
(*   power         the device is on (the last command to the port was 4)   *)
(* and the driver port (SS_Port) and off (SS_OffCommand).                  *)
(***************************************************************************)
EXTENDS Hardware

Ports      == 1..3
SampleRate == 7000

\* The device takes samples until its FIFO is full, and then says so.
Hears(m, port) == port = m.wired /\ m.off = m.takes

--------------------------------------------------------------------------------

\* SS_TestSoundSource gives 32 samples to a port that has room for one, and looks for a
\* full FIFO; it leaves the port switched off.
DetectSoundSource(m) ==
    LET found  == {port \in Ports : Hears(m, port)}
        tested == [m EXCEPT !.power = FALSE]
    IN  IF m.selected # Undefined THEN Ok([m EXCEPT !.port = m.selected])
        ELSE IF found = {} THEN Failed(tested)
        ELSE Ok([tested EXCEPT !.port = CHOOSE port \in found : \A p \in found : port <= p])

StopPlayback(m) ==
    IF m.playing = "off" THEN m
    ELSE [m EXCEPT !.task = FALSE, !.power = TRUE, !.playing = "off"]

\* SS_SetMixMode: whatever is asked for.
SetMixMode(m) == [m EXCEPT !.mode = Mono8]

\* Whether there is memory for the task is not looked at.
BeginBuffered(m, divisions, callback) ==
    Ok(Watched([StopPlayback(m) EXCEPT !.callback = callback,
                                       !.length   = TotalBufferSize \div divisions,
                                       !.current  = 0,
                                       !.playing  = "play",
                                       !.task     = m.fault # "task"]))

Shutdown(m) ==
    LET still == [StopPlayback(m) EXCEPT !.power = FALSE, !.callback = "none"]
    IN  [UnlockMemory(still) EXCEPT !.installed = FALSE]

Init(m) ==
    LET down  == IF m.installed THEN Shutdown(m) ELSE m
        found == DetectSoundSource([down EXCEPT !.off = IF m.tandy THEN 14 ELSE 12])
        held  == LockMemory(found)
    IN  IF found.status = "error" THEN found
        ELSE IF held.status = "error" THEN Failed(UnlockMemory(held))
        ELSE [held EXCEPT !.power = TRUE, !.playing = "off", !.callback = "none",
                          !.installed = TRUE]

\* What the device does, as long as the task feeds it.
Does(m) ==
    [run      |-> IF m.task THEN "play" ELSE "off",
     bits     |-> 8,
     channels |-> 1,
     bytes    |-> m.length,
     rate     |-> SampleRate,
     channel  |-> Undefined,
     asks     |-> m.task,
     line     |-> FALSE]
================================================================================
