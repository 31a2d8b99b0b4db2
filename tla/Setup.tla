--------------------------------- MODULE Setup ---------------------------------
(***************************************************************************)
(* fx_man.c, the setting up and taking down in multivoc.c, and what        *)
(* music.c does with the mixers and the MIDI interface, over the drivers   *)
(* of four kinds of card (blaster.c, pas16.c, sndscape.c and sndsrc.c) and *)
(* that of the interface (mpu401.c).                                       *)
(*                                                                         *)
(*   m     the machine: the card and its driver (see Hardware and the      *)
(*         modules of the drivers), and kind (which driver), wired (the    *)
(*         interrupt line of the card), env (the variable BLASTER),        *)
(*         devices (what music may be played on), user (what has to be     *)
(*         given back), unpaired (MPU-401 interrupts were disabled by a    *)
(*         MUSIC_Init that no MUSIC_Shutdown answers),                     *)
(*   mv    the variables MV_... of multivoc.c,                             *)
(*   fx    FX_Installed, whether LL_LockMemory is in force, and the volume *)
(*         that was asked for,                                             *)
(*   music the device of MUSIC_Init, or "off",                             *)
(*   pc    what the call in progress does next.                            *)
(*                                                                         *)
(* A call of the library is an action, or a few where it waits for the     *)
(* card or lets go of things one by one; the card interrupts between them. *)
(* That a handler does not run too early or too late within an action is   *)
(* watched by Hardware!Watched.                                            *)
(***************************************************************************)
EXTENDS Hardware, FiniteSets

CONSTANTS MixBufferSize, \* samples of a page
          NumberOfBuffers,
          Machines,      \* the computers and cards
          Requests,      \* what FX_Init may ask for: rate, mode
          Rates,         \* of a recording
          Volumes,
          Faults,        \* what may go wrong in FX_SetupCard and FX_Init
          NoBlasterEnv   \* the configuration before BLASTER_SetCardSettings

\* A page of any mode is a part of the buffer, and of words if it is a word wide.
ASSUME SizesAssumption ==
    /\ MixBufferSize \in Nat \ {0} /\ MixBufferSize % 2 = 0
    /\ NumberOfBuffers \in Nat \ {0} /\ NumberOfBuffers % 4 = 0
    /\ TotalBufferSize = MixBufferSize * NumberOfBuffers

B == INSTANCE Blaster
P == INSTANCE Pas
S == INSTANCE Soundscape
D == INSTANCE Disney
U == INSTANCE Mpu

VARIABLES m, mv, fx, music, pc

vars == <<m, mv, fx, music, pc>>

MaxTotalVolume == 255

Recordable == m.kind \in {"SB", "PAS"}

Modes == [bits : {8, 16}, channels : {1, 2}]

\* A computer on which nothing of the library has run.
Fresh(c) ==
    /\ c.kind \in {"SB", "PAS", "SS", "DSS"}
    /\ c.vector = [irq \in {i \in 0..15 : ValidIrq(i)} |-> "dos"]
    /\ c.dma = [channel \in 0..7 |-> Idle]
    /\ c.masked = c.user.masked /\ c.stacks = 0 /\ c.callback = "none" /\ c.playing = "off"
    /\ c.locked = FALSE /\ c.task = FALSE /\ c.exposed = FALSE /\ c.installed = FALSE
    /\ c.status = "ok" /\ c.fault = "none"
    /\ c.interface \in {"none", "intelligent", "uart"} /\ (c.interface = "uart" => c.user.uart)
    /\ "off" \notin c.devices /\ ("SoundScape" \in c.devices => c.kind = "SS")

\* BLASTER_Config is empty, and the mixer has the user's volumes.
FreshBlaster(c) ==
    /\ c.config = NoBlasterEnv /\ c.dsp \in Nat /\ c.version = 0 /\ c.mixer = "none"
    /\ c.card = B!Silent
    /\ DOMAIN c.mix = {"voice", "midi"} /\ DOMAIN c.volume = {"voice", "midi"}
    /\ c.mix.voice = c.user.voice /\ c.mix.midi = c.user.midi
    /\ c.mpu = TRUE /\ c.state \in BOOLEAN /\ c.unpaired \in BOOLEAN

\* The functions of the card are not known yet, and nothing is transferred.
FreshPas(c) ==
    /\ c.wide \in BOOLEAN /\ c.present \in BOOLEAN /\ c.func = FALSE
    /\ c.cross \in [dma : {FALSE}, run : BOOLEAN, dac : BOOLEAN, mono : BOOLEAN]
    /\ DOMAIN c.volume = {"pcm", "fm"} /\ c.pcm = c.user.voice /\ c.fm = c.user.midi

\* Of the chip OPUS nobody but this driver makes use of the codec.
FreshSoundscape(c) ==
    /\ c.found = FALSE /\ c.run = FALSE /\ c.codec = c.user.codec /\ c.sbline = c.ini.sbemul
    /\ c.ini.sbemul \in BOOLEAN /\ c.chip \in {"ODIE", "OPUS", "MMIC"}
    /\ c.chip = "OPUS" => c.codec = FALSE

\* The Sound Source is switched off; it knows one rate and no DMA channel.
FreshDisney(c) == c.power = FALSE /\ c.channel = Undefined /\ c.rate = D!SampleRate

\* The library is loaded once, before it has done anything to the computer.
ASSUME MachinesAssumption ==
    \A c \in Machines :
        /\ Fresh(c)
        /\ c.kind = "SB"  => FreshBlaster(c)
        /\ c.kind = "PAS" => FreshPas(c)
        /\ c.kind = "SS"  => FreshSoundscape(c)
        /\ c.kind = "DSS" => FreshDisney(c)

\* What the program may pass, and the initializer of BLASTER_Config.
ASSUME ArgumentsAssumption ==
    /\ Requests # {} /\ \A request \in Requests : request.mode \in Modes
    /\ Volumes \subseteq 0..MaxTotalVolume
    /\ NoBlasterEnv.address = Undefined /\ NoBlasterEnv.type = "none"

--------------------------------------------------------------------------------
(* The drivers behind one name, as in the switches of fx_man.c and         *)
(* multivoc.c.                                                             *)

NoDevice == [bits |-> 0, channels |-> 0]

CardInit(c) ==
    CASE c.kind = "SB"  -> B!Init(c)
      [] c.kind = "PAS" -> P!Init(c)
      [] c.kind = "SS"  -> S!Init(c)
      [] c.kind = "DSS" -> D!Init(c)

CardShutdown(c) ==
    CASE c.kind = "SB"  -> B!Shutdown(c)
      [] c.kind = "PAS" -> P!Shutdown(c)
      [] c.kind = "SS"  -> S!Shutdown(c)
      [] c.kind = "DSS" -> D!Shutdown(c)

\* BLASTER_GetCardInfo, PAS_GetCardInfo and SOUNDSCAPE_GetCardInfo, if the card is there;
\* of the Sound Source FX_SetupCard knows it.
CardInfo(c) ==
    IF c.status = "error" THEN NoDevice
    ELSE CASE c.kind = "SB"  -> B!GetCardInfo(c)
           [] c.kind = "PAS" -> P!GetCardInfo(c)
           [] c.kind = "SS"  -> S!GetCardInfo(c)
           [] c.kind = "DSS" -> Mono8

CardSetMixMode(c, mode) ==
    CASE c.kind = "SB"  -> B!SetMixMode(c, mode)
      [] c.kind = "PAS" -> P!SetMixMode(c, mode)
      [] c.kind = "SS"  -> S!SetMixMode(c, mode)
      [] c.kind = "DSS" -> D!SetMixMode(c)

CardStop(c) ==
    CASE c.kind = "SB"  -> B!StopPlayback(c)
      [] c.kind = "PAS" -> P!StopPlayback(c)
      [] c.kind = "SS"  -> S!StopPlayback(c)
      [] c.kind = "DSS" -> D!StopPlayback(c)

CardBegin(c, run, divisions, rate, mode, callback) ==
    CASE c.kind = "SB"  -> B!BeginBuffered(c, run, divisions, rate, mode, callback)
      [] c.kind = "PAS" -> P!BeginBuffered(c, run, divisions, rate, mode, callback)
      [] c.kind = "SS"  -> S!BeginBuffered(c, run, divisions, rate, mode, callback)
      [] c.kind = "DSS" -> D!BeginBuffered(c, divisions, callback)

CardDoes(c) ==
    CASE c.kind = "SB"  -> B!Does(c)
      [] c.kind = "PAS" -> P!Does(c)
      [] c.kind = "SS"  -> S!Does(c)
      [] c.kind = "DSS" -> D!Does(c)

CardPageDone(c) == IF c.kind = "SB" THEN B!PageDone(c) ELSE c

CardService(c) == IF c.kind = "SB" THEN B!ServiceInterrupt(c) ELSE NextPage(c)

--------------------------------------------------------------------------------
(* Multivoc.                                                               *)

NoMV == [installed |-> FALSE, locked |-> FALSE, voices |-> FALSE, buffer |-> FALSE,
         mode |-> Mono8, page |-> 0, rate |-> 0, requested |-> 0, channel |-> Undefined,
         recording |-> FALSE, asked |-> Mono8, volume |-> MaxTotalVolume]

SampleSize(mode)      == mode.channels * (mode.bits \div 8)
BufferSize(mode)      == MixBufferSize * SampleSize(mode)
MV_NumberOfBuffers(v) == TotalBufferSize \div BufferSize(v.mode)

\* What MV_StartPlayback tells the card.
Started(c, v) ==
    CardBegin(c, "play", MV_NumberOfBuffers(v), v.requested, v.mode, "MV_ServiceVoc")

\* The variables that MV_StartPlayback leaves, c being the card that it has started.
Playing(c, v) == [v EXCEPT !.page = 1, !.rate = c.rate, !.channel = c.channel]

MV_StopRecord(c, v) == Started(CardStop(c), v)

\* MV_Shutdown up to the freeing of memory: c is the card.
MV_Shutdown(c, v) ==
    CardShutdown(CardStop(IF v.recording THEN MV_StopRecord(c, v) ELSE c))

--------------------------------------------------------------------------------

Init ==
    /\ m \in Machines
    /\ mv = NoMV
    /\ fx = [installed |-> FALSE, locked |-> FALSE, asked |-> Undefined, last |-> "none",
             device |-> NoDevice]
    /\ music = "off"
    /\ pc = "idle"

Broken(fault) == [m EXCEPT !.fault = fault]
Done(c)       == [c EXCEPT !.fault = "none", !.status = "ok"]

\* FX_SetupCard.  A Soundscape is only looked for, and a Sound Source let go of again.
FX_SetupCard(fault) ==
    /\ pc = "idle" /\ ~fx.installed
    /\ LET found == IF m.kind = "SS" THEN S!FindCard(m) ELSE CardInit(Broken(fault))
           given == IF m.kind = "DSS" /\ found.status = "ok" THEN D!Shutdown(found) ELSE found
       IN  /\ m' = Done(given)
           /\ fx' = [fx EXCEPT !.last = "setup", !.device = CardInfo(found)]
    /\ UNCHANGED <<mv, music, pc>>

\* FX_GetBlasterSettings, and FX_SetupSoundBlaster with these.
FX_SetupSoundBlaster(fault) ==
    /\ pc = "idle" /\ ~fx.installed
    /\ m.kind = "SB" /\ ~B!BadEnv(m.env)
    /\ LET found == B!Init(B!SetCardSettings(Broken(fault), B!GetEnv(m.env), m.present))
       IN  /\ m' = Done(found)
           /\ fx' = [fx EXCEPT !.last = "setup", !.device = CardInfo(found)]
    /\ UNCHANGED <<mv, music, pc>>

--------------------------------------------------------------------------------
(* The card moves a page to or from its buffer, and interrupts: if the     *)
(* interrupt comes through, the handler calls MV_ServiceVoc, which mixes   *)
(* the page after, or MV_ServiceRecord, which hands on the page recorded.  *)

Heard(c) == IF c.kind = "DSS" THEN D!Hears(c, c.port) ELSE c.wired = c.irq

Moves(c) ==
    LET d == CardDoes(c)
    IN  /\ d.run # "off" /\ d.asks
        /\ IF c.kind = "DSS" THEN Heard(c) ELSE c.dma[d.channel].to = d.run

Serviced(c) ==
    \/ c.task
    \/ /\ Heard(c) /\ CardDoes(c).line
       /\ c.vector[c.irq] = "driver" /\ Reaches(c, c.irq)

--------------------------------------------------------------------------------
(* FX_Init locks the lists and calls MV_Init, which locks its memory, gets *)
(* the voices and the buffer, and initializes the card; what has been got  *)
(* is given back if the next thing fails.  Of an installed library it is   *)
(* FX_Shutdown first.  The fault "memory" is that of any of the four calls *)
(* of MV_Init for memory.                                                  *)

\* LL_LockMemory, or something in MV_Init before the card, fails.
FailsEarly(fault) == fault \in {"lists", "memory"}

\* The code and the data of multivoc.c that the interrupt uses, all of it or, if a part
\* cannot be locked, nothing.
MV_LockMemory(v)   == [v EXCEPT !.locked = TRUE]
MV_UnlockMemory(v) == [v EXCEPT !.locked = FALSE]

\* The variables after MV_Init has set the card, c, to the mode asked for.
MV_Init(c, request) ==
    [MV_LockMemory(NoMV) EXCEPT
        !.installed = TRUE, !.voices = TRUE, !.buffer = TRUE,
        !.asked = request.mode, !.mode = c.mode, !.requested = request.rate]

FX_Init(request, fault) ==
    /\ pc = "idle" /\ ~fx.installed
    /\ LET ready == IF FailsEarly(fault) THEN m ELSE CardInit(Broken(fault))
           set   == CardSetMixMode(ready, request.mode)
           fails == FailsEarly(fault) \/ ready.status = "error"
           before == IF fault = "lists" THEN mv ELSE MV_UnlockMemory(mv)
       IN  /\ m' = Done(IF fails THEN ready ELSE set)
           /\ mv' = IF fails THEN before ELSE MV_Init(set, request)
           /\ fx' = [fx EXCEPT !.locked = ~fails, !.asked = Undefined, !.last = "init"]
           /\ pc' = IF fails THEN "idle" ELSE "start"
    /\ UNCHANGED music

\* Without playback MV_Init takes everything down again.
MV_StartPlayback(fault) ==
    /\ pc = "start"
    /\ LET begun == Started(Broken(fault), mv)
       IN  IF begun.status = "ok"
           THEN /\ m' = Done(begun)
                /\ mv' = Playing(begun, mv)
                /\ pc' = "test"
           ELSE /\ m' = Done(MV_Shutdown(begun, mv))
                /\ mv' = [mv EXCEPT !.installed = FALSE]
                /\ pc' = "free"
    /\ UNCHANGED <<fx, music>>

\* It waits for another page, for two seconds.
MV_TestPlayback ==
    /\ pc = "test"
    /\ \/ /\ mv.page # 1
          /\ fx' = [fx EXCEPT !.installed = TRUE]
          /\ pc' = "idle"
          /\ UNCHANGED <<m, mv>>
       \/ /\ mv.page = 1 /\ ~(Moves(m) /\ Serviced(m))
          /\ m' = Done(MV_Shutdown(m, mv))
          /\ mv' = [mv EXCEPT !.installed = FALSE]
          /\ pc' = "free"
          /\ UNCHANGED fx
    /\ UNCHANGED music

\* FX_Shutdown: MV_Shutdown, of which the first part is with interrupts disabled.
FX_Shutdown ==
    /\ pc = "idle" /\ fx.installed
    /\ m' = Done(MV_Shutdown(m, mv))
    /\ mv' = [mv EXCEPT !.installed = FALSE]
    /\ pc' = "free"
    /\ UNCHANGED <<fx, music>>

MV_Free ==
    /\ pc = "free"
    /\ mv' = [mv EXCEPT !.voices = FALSE, !.buffer = FALSE]
    /\ fx' = [fx EXCEPT !.installed = FALSE, !.locked = FALSE, !.asked = Undefined,
                        !.last = "shutdown"]
    /\ pc' = "idle"
    /\ UNCHANGED <<m, music>>

--------------------------------------------------------------------------------
(* Recording: a page of one byte a sample, whatever is played otherwise.   *)

\* Playing is stopped first, and stays so if the card does not record.
MV_StartRecording(c, rate) ==
    CardBegin(CardStop(c), "record", NumberOfBuffers, rate, Mono8, "MV_ServiceRecord")

FX_StartRecording(rate) ==
    /\ pc = "idle" /\ fx.installed /\ Recordable
    /\ LET begun == MV_StartRecording(m, rate)
       IN  /\ m' = Done(begun)
           /\ mv' = [mv EXCEPT !.page = 0, !.recording = @ \/ begun.status = "ok"]
    /\ UNCHANGED <<fx, music, pc>>

FX_StopRecord ==
    /\ pc = "idle" /\ fx.installed /\ Recordable
    /\ m' = MV_StopRecord(m, mv)
    /\ mv' = [Playing(m', mv) EXCEPT !.recording = FALSE]
    /\ UNCHANGED <<fx, music, pc>>

--------------------------------------------------------------------------------
(* Volumes: that of the card if it has a mixer, else that of Multivoc.     *)

FX_SetVolume(volume) ==
    /\ pc = "idle" /\ fx.installed
    /\ fx' = [fx EXCEPT !.asked = volume]
    /\ \/ /\ m.kind = "SB" /\ B!CardHasMixer(m)
          /\ m' = B!SetMixer(m, "voice", volume)
          /\ UNCHANGED mv
       \/ /\ m.kind = "PAS"
          /\ m' = P!SetPCMVolume(m, volume)
          /\ UNCHANGED mv
       \/ /\ m.kind \in {"SS", "DSS"} \/ (m.kind = "SB" /\ ~B!CardHasMixer(m))
          /\ mv' = [mv EXCEPT !.volume = MaxOf(0, MinOf(volume, MaxTotalVolume))]
          /\ UNCHANGED m
    /\ UNCHANGED <<music, pc>>

FX_GetVolume ==
    IF m.kind = "SB" /\ B!CardHasMixer(m) THEN B!GetMixer(m, "voice")
    ELSE IF m.kind = "PAS" /\ m.func THEN P!GetPCMVolume(m)
    ELSE mv.volume

\* MUSIC_InitFM, as far as it concerns the mixer.
MUSIC_InitFM ==
    IF m.kind = "SB" THEN B!MusicInit(m)
    ELSE IF m.kind = "PAS" THEN P!SaveMusicVolume(m) ELSE m

\* The devices on whose account BLASTER_SetupWaveBlaster is called; of these MUSIC_Shutdown
\* undoes it for the WaveBlaster alone, and a MUSIC_Init that fails for none.
Daughterboards == {"WaveBlaster", "GenMidi"}

MUSIC_InitMidi(device) ==
    LET quiet == IF device \in Daughterboards /\ m.kind = "SB"
                 THEN B!SetupWaveBlaster(m) ELSE m
        found == IF device = "SoundScape" THEN S!FindCard(quiet) ELSE quiet
        ready == IF found.status = "error" THEN found ELSE U!Init(found)
        lasts == device = "GenMidi" \/ ready.status = "error"
        noted == IF m.kind = "SB" /\ lasts THEN [ready EXCEPT !.unpaired = ~ready.mpu]
                 ELSE ready
    IN  IF device = "WaveBlaster" /\ m.kind = "SB" /\ ready.status = "ok"
        THEN B!MusicInit(noted) ELSE noted

MUSIC_Init(device) ==
    /\ pc = "idle" /\ music = "off"
    /\ m.kind = "SB" => m.version # 0
    /\ LET started == IF device = "FM" THEN MUSIC_InitFM ELSE MUSIC_InitMidi(device)
           works   == device = "FM" \/ started.status = "ok"
       IN  /\ m' = Done(started)
           /\ music' = IF works THEN device ELSE "off"
    /\ UNCHANGED <<mv, fx, pc>>

MUSIC_SetVolume(volume) ==
    /\ pc = "idle" /\ music \in {"FM", "WaveBlaster"}
    /\ m' = IF m.kind = "SB" /\ B!CardHasMixer(m) THEN B!SetMixer(m, "midi", volume)
            ELSE IF m.kind = "PAS" /\ music = "FM" THEN P!SetFMVolume(m, volume) ELSE m
    /\ UNCHANGED <<mv, fx, music, pc>>

MUSIC_Shutdown ==
    /\ pc = "idle" /\ music # "off"
    /\ LET board == IF music = "WaveBlaster" /\ m.kind = "SB"
                    THEN B!ShutdownWaveBlaster(m) ELSE m
           reset == IF music = "FM" THEN board ELSE U!Reset(board)
       IN  m' = Done(IF m.kind = "SB" /\ music \in {"FM", "WaveBlaster"}
                     THEN B!RestoreVolume(reset, "midi")
                     ELSE IF m.kind = "PAS" /\ music = "FM" THEN P!RestoreMusicVolume(reset)
                     ELSE reset)
    /\ music' = "off"
    /\ UNCHANGED <<mv, fx, pc>>

--------------------------------------------------------------------------------
Pages(callback) ==
    IF callback = "MV_ServiceRecord" THEN NumberOfBuffers ELSE MV_NumberOfBuffers(mv)

Interrupt ==
    /\ Moves(m)
    /\ LET does  == CardDoes(m)
           moved == CardPageDone(IF does.channel = Undefined THEN m
                                 ELSE Transferred(m, does.channel, does.bytes))
       IN  IF Serviced(m)
           THEN /\ m' = CardService(moved)
                /\ mv' = IF m.callback = "none" THEN mv
                         ELSE [mv EXCEPT !.page = (@ + 1) % Pages(m.callback)]
           ELSE m' = moved /\ UNCHANGED mv
    /\ UNCHANGED <<fx, music, pc>>

\* Faults where they matter; an initialization that fails fails for any request.
Next ==
    \/ \E fault \in Faults \cap {"none", "lock", "stack"} :
          FX_SetupCard(fault) \/ FX_SetupSoundBlaster(fault)
    \/ \E request \in Requests : FX_Init(request, "none")
    \/ \E fault \in Faults \ {"none", "task"} : FX_Init(CHOOSE r \in Requests : TRUE, fault)
    \/ \E fault \in Faults \cap {"none", "task"} : MV_StartPlayback(fault)
    \/ MV_TestPlayback \/ FX_Shutdown \/ MV_Free
    \/ \E rate \in Rates : FX_StartRecording(rate)
    \/ FX_StopRecord
    \/ \E volume \in Volumes : FX_SetVolume(volume) \/ MUSIC_SetVolume(volume)
    \/ \E device \in m.devices : MUSIC_Init(device)
    \/ MUSIC_Shutdown
    \/ Interrupt

Spec == Init /\ [][Next]_vars

-------------------------------------------------------------------------------
(* Properties.                                                             *)

TypeOK ==
    /\ pc \in {"idle", "start", "test", "free"}
    /\ m.playing \in {"off", "play", "record"} /\ m.status = "ok" /\ m.fault = "none"
    /\ mv.page \in 0..NumberOfBuffers

\* A handler never runs without what it needs: its stack and the driver's locked memory
\* (watched in every step of a call), and the voices and the buffer if it is to call
\* Multivoc, whatever fails in between.
InterruptsSafe ==
    /\ ~m.exposed
    /\ m.callback # "none" /\ (m.task \/ (m.vector[m.irq] = "driver" /\ Reaches(m, m.irq)))
        => mv.voices /\ mv.buffer

\* The environment tells the truth about the mixer of a Sound Blaster Pro.
TypeFits(c) == c.kind = "SB" => c.config.type = B!MixerOf(c.dsp)

\* The channels that transfer.
Busy(c) == {channel \in DOMAIN c.dma : c.dma[channel] # Idle}

\* A mode loses what FX_SetupCard said that the card does not have, and nothing else.
Promised(asked, mode, device) ==
    device # NoDevice => mode = [bits     |-> MinOf(asked.bits, device.bits),
                                 channels |-> MinOf(asked.channels, device.channels)]

\* While it plays, the card does what Multivoc mixes for: so many bits and channels, a
\* page of Multivoc's between two interrupts, at the rate that Multivoc steps through its
\* sounds with, from the only DMA channel that is open, which is the one MV_DMAChannel
\* says.  A recording is of one byte a sample in pages of MixBufferSize.  That there was no
\* memory for the task of a Sound Source MV_TestPlayback finds out.
CardAgrees ==
    /\ pc \in {"idle", "test"} /\ Heard(m) /\ TypeFits(m) /\ m.playing # "off"
    /\ pc = "test" /\ m.kind = "DSS" => m.task
    =>  LET does  == CardDoes(m)
            mode  == IF m.playing = "record" THEN Mono8 ELSE mv.mode
            opens == {does.channel} \ {Undefined}
        IN  /\ does.run = m.playing
            /\ <<does.bits, does.channels>> = <<mode.bits, mode.channels>>
            /\ m.playing = "play" => Promised(mv.asked, mode, fx.device)
            /\ does.bytes = BufferSize(mode)
            /\ does.rate = m.rate /\ (m.playing = "play" => does.rate = mv.rate)
            /\ Busy(m) = opens
            /\ \A channel \in opens :
                   m.dma[channel].size = TotalBufferSize /\ m.dma[channel].to = m.playing
            /\ m.playing = "play" => mv.channel = does.channel

\* At rest, and with nothing playing, the card asks for no data and no channel is open;
\* and its line is held back as it was when the driver was initialized.
Quiet ==
    pc = "idle" /\ m.playing = "off" =>
        /\ ~CardDoes(m).asks /\ Busy(m) = {}
        /\ m.installed /\ fx.installed => m.masked = m.saved

\* What a driver that is not installed has left of the computer.
AsFound ==
    /\ \A irq \in DOMAIN m.vector : m.vector[irq] = "dos"
    /\ m.masked = m.user.masked /\ m.stacks = 0 /\ ~m.locked
    /\ m.kind = "SB" /\ TypeFits(m) => m.mix.voice = m.user.voice
    /\ m.kind = "PAS" => m.pcm = m.user.voice
    /\ m.kind = "DSS" => ~m.task /\ ~m.power
    /\ m.kind = "SS" => m.codec = m.user.codec /\ m.sbline = m.ini.sbemul

\* Whatever fails on the way, the computer is given back as it was found, but for one thing:
\* after FX_Shutdown, and after an initialization that did not succeed, the interrupt vectors
\* and masks, the stack, the voices, the buffer, the locked memory of the driver and of the
\* lists, and the volumes of the user are what they were.  The code and the data that MV_Init
\* locks stay locked: MV_Shutdown (multivoc.c:3459), which is to restore any resources
\* allocated by Multivoc, never calls MV_UnlockMemory.
GivesBack ==
    pc = "idle" =>
        /\ Quiet
        /\ ~m.installed => AsFound
        /\ ~fx.installed => ~mv.voices /\ ~mv.buffer /\ ~fx.locked
        /\ fx.last = "shutdown" => ~m.installed /\ mv.locked
        /\ music = "off" /\ m.kind = "SB" /\ TypeFits(m) =>
               /\ m.mix.midi = m.user.midi
               /\ m.mpu \/ m.unpaired
        /\ music = "off" => (m.interface = "uart" => m.user.uart)
        /\ music = "off" /\ m.kind = "PAS" /\ P!GetCardSettings(m).status = "ok" =>
               m.fm = m.user.midi

\* A volume that was set is the one that is read back, but for what the mixer of the card
\* rounds, whichever of the two mixers it went to; and a recording in between does not
\* change it.
VolumeKept ==
    pc = "idle" /\ fx.asked # Undefined =>
        LET volume == FX_GetVolume IN volume \in (fx.asked - 15)..(fx.asked + 15)
===============================================================================
