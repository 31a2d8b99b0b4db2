------------------------------ MODULE Soundscape -------------------------------
(***************************************************************************)
(* sndscape.c: the driver of the Soundscape, as operators on the machine   *)
(* of Hardware, to which this card adds                                    *)
(*   present   the file SNDSCAPE.INI and the card are there,               *)
(*   chip      "ODIE", "OPUS" or "MMIC",                                   *)
(*   ini       what the file says: irq, channel, sbemul (the card is a     *)
(*             Sound Blaster for others),                                  *)
(*   run       the codec plays (AD_CONFIG),                                *)
(*   format    how: rate, bits, channels (AD_FORMAT),                      *)
(*   count     the samples that it counts between two interrupts,          *)
(*   pin       the codec interrupts (AD_PINCTRL),                          *)
(*   codec     the wave interrupt and the DMA channel are the codec's      *)
(*             (GA_CDCFG),                                                 *)
(*   sbline    the Sound Blaster emulation has its interrupt (GA_INTCFG),  *)
(* and the driver found (SOUNDSCAPE_FoundCard), channel, and cdrom         *)
(* (GA_CDCFG as it was found).                                             *)
(***************************************************************************)
EXTENDS Hardware

\* Line 2 is looked for in the table as 9, which has no vector there.
WaveIrq(irq) == IF irq = 2 THEN 9 ELSE irq
HasVector(irq) == irq \in {2, 5, 7, 10}

\* What SNDSCAPE.INI has to say.
Listed(m) == m.present /\ VerifyChannel(m.ini.channel) /\ HasVector(WaveIrq(m.ini.irq))

\* Once found, the card is not looked for again.
FindCard(m) ==
    IF m.found THEN Ok(m)
    ELSE IF ~Listed(m) THEN Failed(m)
    ELSE Ok([m EXCEPT !.irq = WaveIrq(m.ini.irq), !.channel = m.ini.channel,
                      !.cdrom = m.codec, !.found = TRUE])

\* The codec has all modes.
GetCardInfo(m) == [bits |-> 16, channels |-> 2]

--------------------------------------------------------------------------------

\* pcm_format
Format(m) == [m EXCEPT !.format = [rate |-> m.rate, bits |-> m.mode.bits,
                                   channels |-> m.mode.channels]]

SetPlaybackRate(m, rate) ==
    Format([m EXCEPT !.rate = IF rate < 20000 THEN 11025
                              ELSE IF rate < 30000 THEN 22050 ELSE 44100])

SetMixMode(m, mode) == Format([m EXCEPT !.mode = mode])

StopPlayback(m) ==
    LET still == [DisableInterrupt(m) EXCEPT !.run = FALSE]
    IN  [EndTransfer(still, m.channel) EXCEPT !.playing = "off"]

SetupDMABuffer(m, direction) ==
    LET setup == SetupTransfer(m, m.channel, TotalBufferSize, direction)
    IN  IF setup.status = "ok" THEN [setup EXCEPT !.current = 0] ELSE setup

\* The codec counts samples, of both channels as one.
SampleLength(m, length) ==
    LET samples == IF m.mode.bits = 16 THEN length \div 2 ELSE length
    IN  IF m.mode.channels = 2 THEN samples \div 2 ELSE samples

BeginPlayback(m) ==
    [EnableInterrupt([m EXCEPT !.count = SampleLength(m, m.length)])
        EXCEPT !.run = TRUE, !.playing = "play"]

BeginBuffered(m, run, divisions, rate, mode, callback) ==
    LET stopped == IF m.playing # "off" THEN StopPlayback(m) ELSE m
        buffer  == SetupDMABuffer(SetMixMode(stopped, mode), run)
        ready   == [SetPlaybackRate(buffer, rate) EXCEPT !.callback = callback]
    IN  IF buffer.status = "error" THEN buffer
        ELSE BeginPlayback([EnableInterrupt(ready) EXCEPT
                                !.length = TotalBufferSize \div divisions])

\* What the card does.
Does(m) ==
    [run      |-> IF m.run THEN "play" ELSE "off",
     bits     |-> m.format.bits,
     channels |-> m.format.channels,
     bytes    |-> m.count * m.format.channels * (m.format.bits \div 8),
     rate     |-> m.format.rate,
     channel  |-> m.channel,
     asks     |-> m.run,
     line     |-> m.pin /\ m.codec]

--------------------------------------------------------------------------------

\* The line is open from here on, before anything is played.
Setup(m) ==
    LET quiet == DisableInterrupt(m)
        still == IF m.run THEN StopPlayback(quiet) ELSE quiet
        ours  == IF m.chip = "MMIC" THEN still
                 ELSE [still EXCEPT !.codec = TRUE, !.sbline = FALSE]
    IN  EnableInterrupt([ReplaceInterrupt(ours) EXCEPT !.pin = TRUE])

\* The chip OPUS has no CD to give the lines back to.
Shutdown(m) ==
    LET still == [StopPlayback(m) EXCEPT !.pin = FALSE]
        given == [still EXCEPT !.codec  = IF m.chip = "ODIE" THEN m.cdrom ELSE FALSE,
                               !.sbline = IF m.ini.sbemul THEN TRUE ELSE @]
    IN  Release(IF m.chip = "MMIC" THEN still ELSE given)

Init(m) ==
    LET down  == SaveMasks(IF m.installed THEN Shutdown(m) ELSE m)
        found == FindCard([down EXCEPT !.playing = "off", !.callback = "none"])
        held  == Reserve(found)
        set   == SetPlaybackRate(Setup([held EXCEPT !.installed = TRUE]), 11000)
    IN  IF found.status = "error" THEN found
        ELSE IF held.status = "error" THEN held
        ELSE SetMixMode(set, Mono8)
================================================================================
