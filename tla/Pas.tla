---------------------------------- MODULE Pas ----------------------------------
(***************************************************************************)
(* pas16.c: the driver of the Pro AudioSpectrum, as operators on the       *)
(* machine of Hardware, to which this card adds                            *)
(*   present   its resident driver MVSOUND answers,                        *)
(*   wide      it can play 16 bits,                                        *)
(*   channel   the DMA channel (PAS_DMAChannel), as MVSOUND says,          *)
(*   flag      the card interrupts at the end of a page,                   *)
(*   cross     the cross-channel control register: dma (asks for data),    *)
(*             run (PCM on), dac (plays and does not record), mono,        *)
(*   sixteen   the sample size in its register, in bits,                   *)
(*   interval  the sample rate timer, and timeInterval (PAS_TimeInterval)  *)
(*             what it is to be,                                           *)
(*   count     the sample buffer counter, in bytes or words,               *)
(*   gates     the two timers count,                                       *)
(*   unmuted   the output is on,                                           *)
(*   pcm, fm   the volumes <<left, right>> of the mixer, in percent,       *)
(* and the driver func (PAS_Func, and with it PAS_State, is known) and     *)
(* volume (the volumes to give back).                                      *)
(***************************************************************************)
EXTENDS Hardware

Clock == 1193180

\* PAS_CheckForDriver, PAS_GetStateTable and PAS_GetFunctionTable: MVSOUND answers.
GetFunctionTable(m) == IF m.present THEN Ok([m EXCEPT !.func = TRUE]) ELSE Failed(m)

GetCardSettings(m) == IF ValidIrq(m.irq) /\ VerifyChannel(m.channel) THEN Ok(m) ELSE Failed(m)

FindCard(m) ==
    LET answered == GetFunctionTable(m)
    IN  IF answered.status = "error" THEN answered ELSE GetCardSettings(answered)

EnableCard(m) == EnableInterrupt([m EXCEPT !.flag = TRUE])

DisableCard(m) == DisableInterrupt([m EXCEPT !.flag = FALSE])

--------------------------------------------------------------------------------
(* Rates.  The timer counts the samples of both channels.                  *)

Interval(m, rate) ==
    (Clock \div MaxOf(4000, MinOf(44000, rate))) \div m.mode.channels

SetPlaybackRate(m, rate) ==
    [m EXCEPT !.timeInterval = Interval(m, rate),
              !.rate = (Clock \div Interval(m, rate)) \div m.mode.channels]

SetMixMode(m, mode) ==
    LET fit == [mode EXCEPT !.bits = IF m.wide THEN @ ELSE 8]
    IN  SetPlaybackRate([m EXCEPT !.mode = fit], m.rate)

--------------------------------------------------------------------------------
(* Transfers.                                                              *)

StopPlayback(m) ==
    LET still == [DisableCard(m) EXCEPT !.cross.dma = FALSE, !.cross.run = FALSE,
                                        !.sixteen = 8]
    IN  [EndTransfer(still, m.channel) EXCEPT !.playing = "off"]

\* The card may ask for data before the channel is there.
SetupDMABuffer(m, direction) ==
    LET setup == SetupTransfer([m EXCEPT !.cross.dma = TRUE], m.channel,
                               TotalBufferSize, direction)
    IN  IF setup.status = "ok" THEN [setup EXCEPT !.current = 0] ELSE setup

\* PAS_SetSampleRateTimer and PAS_SetSampleBufferCount close their gates.
BeginTransfer(m, run) ==
    LET timed == [m EXCEPT !.interval = m.timeInterval,
                           !.count = IF Words(m.channel) THEN m.length \div 2 ELSE m.length,
                           !.gates = FALSE]
    IN  [EnableCard(timed) EXCEPT
            !.sixteen = IF m.wide THEN m.mode.bits ELSE @,
            !.cross   = [dma |-> TRUE, run |-> TRUE, dac |-> run = "play",
                         mono |-> m.mode.channels = 1],
            !.gates   = TRUE,
            !.unmuted = (run = "play"),
            !.playing = run]

\* PAS_BeginBufferedPlayback, PAS_BeginBufferedRecord.
BeginBuffered(m, run, divisions, rate, mode, callback) ==
    LET set    == SetPlaybackRate(SetMixMode(StopPlayback(m), mode), rate)
        buffer == SetupDMABuffer([set EXCEPT !.length   = TotalBufferSize \div divisions,
                                             !.callback = callback], run)
    IN  IF buffer.status = "error" THEN buffer ELSE BeginTransfer(buffer, run)

\* What the card does.
Does(m) ==
    [run      |-> IF ~m.cross.run \/ ~m.gates THEN "off"
                  ELSE IF m.cross.dac THEN "play" ELSE "record",
     bits     |-> m.sixteen,
     channels |-> IF m.cross.mono THEN 1 ELSE 2,
     bytes    |-> IF Words(m.channel) THEN 2 * m.count ELSE m.count,
     rate     |-> (Clock \div m.interval) \div (IF m.cross.mono THEN 1 ELSE 2),
     channel  |-> m.channel,
     asks     |-> m.cross.dma,
     line     |-> m.flag]

--------------------------------------------------------------------------------
(* The mixer, through the functions of MVSOUND.                            *)

\* (Mutant: the volume is taken for a percentage.)
NoPercent(volume) == MaxOf(0, MinOf(100, volume))

Percent(volume) == (MaxOf(0, MinOf(255, volume)) * 100) \div 255

\* PAS_SetPCMVolume, PAS_SetFMVolume.
SetPCMVolume(m, volume) == [m EXCEPT !.pcm = <<Percent(volume), Percent(volume)>>]
SetFMVolume(m, volume) ==
    IF m.func THEN [m EXCEPT !.fm = <<Percent(volume), Percent(volume)>>] ELSE m

GetPCMVolume(m) == IF m.func THEN (((m.pcm[1] + m.pcm[2]) \div 2) * 255) \div 100 ELSE Undefined

\* The music may come without the sound effects: PAS_SaveMusicVolume looks for the card.
SaveMusicVolume(m) ==
    LET found == IF m.installed THEN Ok(m) ELSE FindCard(m)
    IN  IF found.status = "error" THEN found
        ELSE [found EXCEPT !.volume.fm = m.fm,
                           !.unmuted = IF m.installed THEN @ ELSE TRUE]

RestoreMusicVolume(m) == IF m.func THEN [m EXCEPT !.fm = m.volume.fm] ELSE m

--------------------------------------------------------------------------------

Shutdown(m) ==
    IF m.installed THEN [Release(StopPlayback(m)) EXCEPT !.pcm = m.volume.pcm] ELSE m

Init(m) ==
    LET found == FindCard(SaveMasks(m))
        held  == Reserve([found EXCEPT !.volume.pcm = m.pcm, !.playing = "off",
                                       !.callback = "none"])
        set   == SetPlaybackRate([ReplaceInterrupt(held) EXCEPT !.unmuted = TRUE], 11000)
    IN  IF m.installed THEN Ok(m)
        ELSE IF found.status = "error" THEN found
        ELSE IF held.status = "error" THEN held
        ELSE [SetMixMode(set, Mono8) EXCEPT !.installed = TRUE]

\* What PAS_GetCardInfo says; it looks for MVSOUND by itself.
GetCardInfo(m) == [bits |-> IF m.wide THEN 16 ELSE 8, channels |-> 2]
================================================================================
