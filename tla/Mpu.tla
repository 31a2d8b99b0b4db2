---------------------------------- MODULE Mpu ----------------------------------
(***************************************************************************)
(* The setting up of mpu401.c, as operators on the machine of Hardware.    *)
(* The interface that music is sent to is the field                        *)
(*   interface  "none" (nothing answers at the address), "intelligent" (as *)
(*              it comes up), or "uart" (it passes bytes on).              *)
(***************************************************************************)
EXTENDS Hardware

\* In UART mode the reset is obeyed, but not acknowledged.
Answered(m, to) ==
    CASE m.interface = "none" -> Failed(m)
      [] m.interface = "intelligent" -> Ok([m EXCEPT !.interface = to])
      [] m.interface = "uart" ->
             Failed(IF to = "intelligent" THEN [m EXCEPT !.interface = to] ELSE m)

Reset(m)     == Answered(m, "intelligent")
EnterUART(m) == Answered(m, "uart")

\* Four times at most, until it is acknowledged.
ResetAgain(m) == IF m.status = "ok" THEN m ELSE Reset(m)

Init(m) ==
    LET last == ResetAgain(ResetAgain(ResetAgain(Reset(m))))
    IN  IF last.status = "ok" THEN EnterUART(last) ELSE last
===============================================================================
