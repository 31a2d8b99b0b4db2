-------------------------------- MODULE Blaster --------------------------------
(***************************************************************************)
(* blaster.c: the driver of the Sound Blaster, as operators on the machine *)
(* of Hardware, to which this card adds                                    *)
(*   dsp       the version of its DSP: 100, 200, 201, 300 or 400,          *)
(*   card      what the DSP does: run, bits, channels, bytes between two   *)
(*             interrupts, fast (high-speed mode),                         *)
(*   clock     the rate it is programmed for,                              *)
(*   stereo    the output setting of an SBPro,                             *)
(*   mix       the volumes in the mixer, <<left, right>> of each source,   *)
(*   mpu       the interrupts of the MPU-401 pass (a bit in the mixer);    *)
(* and the driver                                                          *)
(*   config    BLASTER_Config: type, dma8, dma16, address, present         *)
(*             (whether there is a card at the address),                   *)
(*   version, mixer, halt, packet, channel, volume, state: BLASTER_Version,*)
(*             _MixerType, _HaltTransferCommand (0 is a reset),            *)
(*             _SamplePacketSize, _DMAChannel, _Original...Volume,         *)
(*             _WaveBlasterState.                                          *)
(***************************************************************************)
EXTENDS Hardware

Silent == [run |-> "off", bits |-> 8, channels |-> 1, bytes |-> 0, fast |-> FALSE]

\* BLASTER_GetDSPVersion: what the generations can do.
MaxMixMode(m) ==
    [bits |-> IF m.version >= 400 THEN 16 ELSE 8, channels |-> IF m.version >= 300 THEN 2 ELSE 1]
MinSamplingRate(m) == IF m.version >= 400 THEN 5000 ELSE 4000
MaxSamplingRate(m) == IF m.version >= 300 THEN 44100 ELSE 23000

MixerOf(version) == IF version >= 400 THEN "SB16" ELSE IF version >= 300 THEN "SBPro" ELSE "none"

GetDSPVersion(m) == [m EXCEPT !.version = m.dsp, !.mixer = MixerOf(m.dsp)]

\* In its high-speed mode the DSP takes no commands.
Listens(m) == m.card.run = "off" \/ ~m.card.fast

\* A reset ends whatever the DSP does.
ResetDSP(m) ==
    IF m.config.present THEN Ok([m EXCEPT !.card = Silent]) ELSE Failed(m)

--------------------------------------------------------------------------------
(* Rates.                                                                  *)

CalcTimeConstant(rate, packet) == (65536 - 256000000 \div (packet * rate)) \div 256
CalcSamplingRate(constant)     == 256000000 \div (65536 - constant * 256)

\* The whole of the samples of both channels is kept within the limits.
InLimits(m, rate) ==
    IF rate * m.packet < MinSamplingRate(m) THEN MinSamplingRate(m) \div m.packet
    ELSE IF rate * m.packet > MaxSamplingRate(m) THEN MaxSamplingRate(m) \div m.packet
    ELSE rate

SetPlaybackRate(m, rate) ==
    LET constant == CalcTimeConstant(InLimits(m, rate), m.packet)
        clock    == CalcSamplingRate(constant)
        limited  == MinOf(MaxOf(rate, MinSamplingRate(m)), MaxSamplingRate(m))
        actual   == IF m.version < 400 THEN clock ELSE limited
    IN  [m EXCEPT !.rate  = IF m.version < 400 THEN clock \div m.packet ELSE limited,
                  !.clock = IF Listens(m) THEN actual ELSE @]

\* A mode that the card does not have loses what it lacks.  The output of an SBPro is
\* switched if the environment says that the card is one.
SetMixMode(m, mode) ==
    LET max  == MaxMixMode(m)
        fit  == [bits |-> MinOf(mode.bits, max.bits),
                 channels |-> MinOf(mode.channels, max.channels)]
        set  == [m EXCEPT !.mode = fit, !.packet = (fit.bits \div 8) * fit.channels]
    IN  IF m.config.type = "SBPro"
        THEN SetPlaybackRate([set EXCEPT !.stereo = (fit.channels = 2)], set.rate)
        ELSE set

--------------------------------------------------------------------------------
(* Transfers.                                                              *)

\* Only a reset ends the high-speed mode, and each width has its own halt command.
Halted(m) ==
    \/ m.halt = 0
    \/ Listens(m) /\ m.halt = m.card.bits

ChannelOf(m) == IF m.mode.bits = 16 THEN m.config.dma16 ELSE m.config.dma8

StopPlayback(m) ==
    LET still  == [DisableInterrupt(m) EXCEPT !.card = IF Halted(m) THEN Silent ELSE @]
    IN  [EndTransfer(still, ChannelOf(m)) EXCEPT !.playing = "off"]

SetupDMABuffer(m, direction) ==
    LET setup == SetupTransfer(m, ChannelOf(m), TotalBufferSize, direction)
    IN  IF setup.status = "ok"
        THEN [setup EXCEPT !.channel = ChannelOf(m), !.current = 0] ELSE setup

HighSpeed(m) == m.version >= 201 /\ m.rate * m.packet > 22000

\* (Mutant: the high-speed mode is to be halted like the others.)
HaltOfSlow(m, run) == IF m.version >= 400 /\ run = "play" THEN m.mode.bits ELSE 8

\* The command that ends it.
HaltOf(m, run) ==
    IF m.version \in 200..399 /\ HighSpeed(m) THEN 0
    ELSE IF m.version >= 400 /\ run = "play" THEN m.mode.bits ELSE 8

\* What BLASTER_DSP1xx_, DSP2xx_ and DSP4xx_BeginPlayback or _BeginRecord command: only a
\* DSP of 4.00 is told the width and the number of channels, to record always the least.
Commanded(m, run) ==
    LET told == m.version >= 400 /\ run = "play"
    IN  [run      |-> run,
         bits     |-> IF told THEN m.mode.bits ELSE 8,
         channels |-> IF told THEN m.mode.channels
                      ELSE IF MixerOf(m.dsp) = "SBPro" /\ m.stereo THEN 2 ELSE 1,
         bytes    |-> m.length,
         fast     |-> m.version \in 200..399 /\ HighSpeed(m)]

DSPBegin(m, run) ==
    [m EXCEPT !.card = IF Listens(m) THEN Commanded(m, run) ELSE @,
              !.halt = HaltOf(m, run),
              !.playing = run]

\* BLASTER_BeginBufferedPlayback and BLASTER_BeginBufferedRecord up to the command.
Prepared(m, run, divisions, rate, mode, callback) ==
    LET buffer == SetupDMABuffer(SetMixMode(StopPlayback(m), mode), run)
    IN  IF buffer.status = "error" THEN buffer
        ELSE EnableInterrupt([SetPlaybackRate(buffer, rate) EXCEPT
                                 !.callback = callback,
                                 !.length   = TotalBufferSize \div divisions])

BeginBuffered(m, run, divisions, rate, mode, callback) ==
    LET ready == Prepared(m, run, divisions, rate, mode, callback)
    IN  IF ready.status = "error" THEN ready ELSE DSPBegin(ready, run)

\* What the card does: the channel that it asks for data, and the samples of each side
\* that it plays in a second.
Does(m) ==
    [run      |-> m.card.run,
     bits     |-> m.card.bits,
     channels |-> m.card.channels,
     bytes    |-> m.card.bytes,
     rate     |-> IF m.dsp >= 400 THEN m.clock ELSE m.clock \div m.card.channels,
     channel  |-> IF m.card.bits = 16 THEN m.config.dma16 ELSE m.config.dma8,
     asks     |-> m.card.run # "off",
     line     |-> TRUE]

\* A DSP before 2.00 stops after every page, and the handler starts it again.
PageDone(m) == IF m.dsp < 200 THEN [m EXCEPT !.card.run = "off"] ELSE m

ServiceInterrupt(m) ==
    LET next == NextPage(m)
    IN  IF m.version < 200 /\ m.playing # "off" THEN DSPBegin(next, m.playing) ELSE next

--------------------------------------------------------------------------------
(* The mixer: `source` is the voice or the midi volume.  An SBPro has four *)
(* bits for a side, an SB16 five.                                          *)

CardHasMixer(m) == m.version >= 300

Byte(volume) == MaxOf(0, MinOf(255, volume))

Quantized(m, volume) ==
    LET step == IF m.mixer = "SBPro" THEN 16 ELSE 8 IN (volume \div step) * step

SetMixer(m, source, volume) ==
    IF m.mixer = "none" THEN m
    ELSE [m EXCEPT !.mix[source] = <<Quantized(m, Byte(volume)), Quantized(m, Byte(volume))>>]

GetMixer(m, source) ==
    IF m.mixer = "none" THEN Undefined ELSE (m.mix[source][1] + m.mix[source][2]) \div 2

\* With the registers of another kind of mixer nothing, or something else, is saved.
SaveVolume(m, source) ==
    IF m.mixer = "none" THEN m
    ELSE [m EXCEPT !.volume[source] = IF m.mixer = MixerOf(m.dsp) THEN m.mix[source]
                                      ELSE <<Undefined, Undefined>>]

RestoreVolume(m, source) ==
    IF m.mixer = "none" THEN m ELSE [m EXCEPT !.mix[source] = m.volume[source]]

\* BLASTER_SetupWaveBlaster
SetupWaveBlaster(m) == IF m.mixer = "SB16" THEN [m EXCEPT !.state = m.mpu, !.mpu = FALSE] ELSE m
ShutdownWaveBlaster(m) == IF m.mixer = "SB16" THEN [m EXCEPT !.mpu = m.state] ELSE m

\* What MUSIC_InitFM and MUSIC_InitMidi do with the mixer.
MusicInit(m) == IF CardHasMixer(m) THEN SaveVolume(m, "midi") ELSE m

--------------------------------------------------------------------------------
(* The environment variable and the settings.  A variable is a sequence of *)
(* parameters <<letter, value>>; the value Undefined is no number.         *)

Given(env, letter) == {i \in DOMAIN env : env[i][1] = letter}

\* The last one counts; one without a number ends the search.
GetEnv(env) ==
    LET Value(letter) ==
            IF Given(env, letter) = {} THEN Undefined
            ELSE env[CHOOSE i \in Given(env, letter) :
                         \A j \in Given(env, letter) : j <= i][2]
    IN  [address |-> Value("A"), irq |-> Value("I"), dma8 |-> Value("D"),
         dma16 |-> Value("H"), type |-> Value("T")]

BadEnv(env) == env = <<>> \/ \E i \in DOMAIN env : env[i][2] = Undefined

TypeOf(number) ==
    IF number \in {2, 4} THEN "SBPro" ELSE IF number = 6 THEN "SB16" ELSE "none"

Shutdown(m) ==
    LET quiet == ResetDSP(RestoreVolume(StopPlayback(m), "voice"))
    IN  Release(quiet)

SetCardSettings(m, config, present) ==
    LET down == IF m.installed THEN Shutdown(m) ELSE m
    IN  [down EXCEPT !.config = [type |-> TypeOf(config.type), dma8 |-> config.dma8,
                                 dma16 |-> config.dma16, address |-> config.address,
                                 present |-> present],
                     !.irq = config.irq, !.mixer = TypeOf(config.type)]

BadChannels(m) ==
    \E channel \in {m.config.dma8, m.config.dma16} \ {Undefined} : ~VerifyChannel(channel)

Init(m) ==
    LET down  == IF m.installed THEN Shutdown(m) ELSE m
        reset == ResetDSP(SaveMasks(down))
        found == GetDSPVersion([SaveVolume(reset, "voice") EXCEPT !.playing = "off",
                                                                  !.callback = "none"])
        set   == SetMixMode(SetPlaybackRate(found, 11000), Mono8)
        held  == Reserve(set)
    IN  IF m.config.address = Undefined THEN Failed(down)
        ELSE IF reset.status = "error" THEN reset
        ELSE IF BadChannels(set) \/ ~ValidIrq(set.irq) THEN Failed(set)
        ELSE IF held.status = "error" THEN held
        ELSE [ReplaceInterrupt(held) EXCEPT !.installed = TRUE]

\* What BLASTER_GetCardInfo says.
GetCardInfo(m) == MaxMixMode(m)
================================================================================
