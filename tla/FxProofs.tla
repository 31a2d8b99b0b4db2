------------------------------- MODULE FxProofs -------------------------------
(***************************************************************************)
(* Theorems of Setup, for any cards, sizes, modes, volumes and faults that *)
(* satisfy its assumptions: what the library holds of the computer, what   *)
(* the card does while it plays, and what is given back; and of Effect,    *)
(* for any priorities, lengths and range of handles.                       *)
(*                                                                         *)
(* The invariant has a part for the machine with each of the four drivers  *)
(* (HoldInv and SBInv, PasInv, SoundscapeInv, DisneyInv), for the music,   *)
(* for the phase that the library is in and for the mode of Multivoc.      *)
(* Each driver function is a lemma of its own (what it keeps, what it      *)
(* leaves), the functions that choose a driver combine those of the four,  *)
(* and each action of Setup then is a step of a few of them.               *)
(***************************************************************************)
EXTENDS Setup, Effect, TLAPS

\* The vectors that the drivers may take, and what they are when none of them has.
Vectored  == {2, 3, 5, 7, 10, 11, 12, 15}
NoVectors == [irq \in Vectored |-> "dos"]

Channels == 0..7

NoneOpen(c)     == DOMAIN c.dma = Channels /\ \A channel \in Channels : c.dma[channel] = Idle
OnlyOpen(c, ch) ==
    /\ DOMAIN c.dma = Channels /\ VerifyChannel(ch)
    /\ c.dma[ch].size = TotalBufferSize /\ c.dma[ch].to = c.playing
    /\ \A channel \in Channels \ {ch} : c.dma[channel] = Idle

\* A driver that is not installed holds nothing of the computer.
LetGo(c) ==
    /\ c.vector = NoVectors /\ c.masked = c.user.masked /\ c.stacks = 0
    /\ c.locked = FALSE /\ c.callback = "none" /\ c.playing = "off"

\* One that is has its vector, a stack and its memory, and its line is open while it plays.
Hooked(c) ==
    /\ c.irq \in Vectored /\ c.vector = [NoVectors EXCEPT ![c.irq] = "driver"]
    /\ c.old = "dos" /\ c.stacks = 1 /\ c.locked = TRUE
    /\ c.saved = c.user.masked /\ c.masked \ Lines(c.irq) = c.saved \ Lines(c.irq)

\* The Sound Source has a task instead.
Fed(c) ==
    /\ c.vector = NoVectors /\ c.masked = c.user.masked /\ c.stacks = 0
    /\ c.locked = TRUE

Runs == {"play", "record"}

HoldInv(c) ==
    /\ c.kind \in {"SB", "PAS", "SS", "DSS"} /\ c.exposed = FALSE
    /\ c.installed \in BOOLEAN /\ c.task \in BOOLEAN
    /\ c.playing \in Runs \cup {"off"}
    /\ c.installed = FALSE => LetGo(c)
    /\ c.installed = TRUE /\ c.kind # "DSS" => Hooked(c)
    /\ c.installed = TRUE /\ c.kind = "DSS" => Fed(c)
    /\ c.task = TRUE => c.kind = "DSS" /\ c.playing = "play"
    /\ c.kind # "DSS" /\ c.playing # "off" => Reaches(c, c.irq)
    /\ c.kind \in {"SB", "PAS"} /\ c.installed = TRUE /\ c.playing = "off" =>
           c.masked = c.saved

--------------------------------------------------------------------------------
\* What each driver has its card do.

SBPlays(c) ==
    /\ c.card.run = c.playing \/ (c.card.run = "off" /\ c.wired # c.irq)
    /\ c.card.bits = c.mode.bits /\ c.card.bytes = c.length /\ B!Halted(c)
    /\ c.mode \in Modes /\ (c.dsp < 400 => c.mode.bits = 8)
    /\ (c.dsp < 300 => c.mode.channels = 1)
    /\ c.playing = "record" => c.mode = Mono8
    /\ TypeFits(c) => c.card.channels = c.mode.channels
    /\ TypeFits(c) /\ B!MixerOf(c.dsp) = "SBPro" => c.stereo = (c.mode.channels = 2)
    /\ c.packet = (c.mode.bits \div 8) * c.mode.channels
    /\ c.rate = IF c.dsp < 400 THEN c.clock \div c.packet ELSE c.clock
    /\ OnlyOpen(c, B!ChannelOf(c)) /\ c.channel = B!ChannelOf(c)

EnvType(c) == B!TypeOf(B!GetEnv(c.env).type)

\* Before BLASTER_SetCardSettings, and after it.
Unset(c) ==
    /\ c.config.type = "none" /\ c.config.address = Undefined
    /\ c.version = 0 /\ c.mixer = "none" /\ c.installed = FALSE
    /\ c.mix.voice = c.user.voice /\ c.mix.midi = c.user.midi /\ c.mpu = TRUE

SetOnce(c) ==
    /\ c.config.type = EnvType(c) /\ c.mixer \in {c.config.type, B!MixerOf(c.dsp)}

SBVoice(c) ==
    IF c.installed = TRUE /\ c.mixer # "none" THEN c.volume.voice = c.user.voice
    ELSE c.mix.voice = c.user.voice

SBInv(c) ==
    /\ c.dsp \in Nat /\ c.version \in {0, c.dsp}
    /\ DOMAIN c.mix = {"voice", "midi"} /\ DOMAIN c.volume = {"voice", "midi"}
    /\ c.mpu \in BOOLEAN /\ c.state \in BOOLEAN /\ c.unpaired \in BOOLEAN
    /\ Unset(c) \/ SetOnce(c)
    /\ TypeFits(c) => SBVoice(c)
    /\ c.installed = TRUE => c.version = c.dsp /\ c.mixer = B!MixerOf(c.dsp)
    /\ c.playing = "off" => c.card.run = "off" /\ NoneOpen(c)
    /\ c.playing # "off" => SBPlays(c)

PasPlays(c) ==
    /\ c.cross = [dma |-> TRUE, run |-> TRUE, dac |-> c.playing = "play",
                  mono |-> c.mode.channels = 1]
    /\ c.gates = TRUE /\ c.sixteen = c.mode.bits /\ c.mode \in Modes
    /\ (c.wide = FALSE => c.mode.bits = 8)
    /\ c.count = IF Words(c.channel) THEN c.length \div 2 ELSE c.length
    /\ c.rate = (P!Clock \div c.interval) \div c.mode.channels
    /\ OnlyOpen(c, c.channel)

Crossings == [dma : BOOLEAN, run : BOOLEAN, dac : BOOLEAN, mono : BOOLEAN]

PasInv(c) ==
    /\ c.cross \in Crossings
    /\ c.wide \in BOOLEAN /\ c.func \in BOOLEAN /\ c.present \in BOOLEAN
    /\ DOMAIN c.volume = {"pcm", "fm"}
    /\ c.func = TRUE => c.present = TRUE
    /\ c.installed = TRUE =>
           c.func = TRUE /\ VerifyChannel(c.channel) /\ c.volume.pcm = c.user.voice
    /\ c.installed = FALSE => c.pcm = c.user.voice
    /\ c.playing = "off" => c.cross.dma = FALSE /\ NoneOpen(c)
    /\ c.playing # "off" => PasPlays(c)

SoundscapePlays(c) ==
    /\ c.run = TRUE /\ c.playing = "play" /\ c.mode \in Modes
    /\ c.format = [rate |-> c.rate, bits |-> c.mode.bits, channels |-> c.mode.channels]
    /\ c.count = S!SampleLength(c, c.length)
    /\ OnlyOpen(c, c.channel)

SoundscapeHas(c) ==
    /\ c.chip \in {"ODIE", "OPUS", "MMIC"} /\ c.ini.sbemul \in BOOLEAN
    /\ c.found \in BOOLEAN
    /\ c.chip = "OPUS" => c.user.codec = FALSE
    /\ c.found = TRUE =>
           /\ c.irq = S!WaveIrq(c.ini.irq) /\ c.channel = c.ini.channel
           /\ S!Listed(c) /\ c.cdrom = c.user.codec
    /\ c.installed = TRUE => c.found = TRUE
    /\ c.installed = FALSE \/ c.chip = "MMIC" =>
           c.codec = c.user.codec /\ c.sbline = c.ini.sbemul
    /\ c.installed = TRUE /\ c.chip # "MMIC" => c.sbline = FALSE

SoundscapeInv(c) ==
    /\ SoundscapeHas(c)
    /\ c.playing = "off" => c.run = FALSE /\ NoneOpen(c)
    /\ c.playing # "off" => SoundscapePlays(c)

DisneyInv(c) ==
    /\ c.channel = Undefined /\ c.rate = D!SampleRate /\ NoneOpen(c)
    /\ c.installed = FALSE => c.power = FALSE
    /\ c.playing # "off" => c.playing = "play"

CardInv(c) ==
    /\ HoldInv(c)
    /\ c.kind = "SB"  => SBInv(c)
    /\ c.kind = "PAS" => PasInv(c)
    /\ c.kind = "SS"  => SoundscapeInv(c)
    /\ c.kind = "DSS" => DisneyInv(c)

--------------------------------------------------------------------------------
\* What music leaves of the mixers and of the interface.
SBMusic(c, dev) ==
    /\ dev # "off" => c.version # 0
    /\ TypeFits(c) =>
           /\ IF dev \in {"FM", "WaveBlaster"} /\ c.mixer # "none"
              THEN c.volume.midi = c.user.midi ELSE c.mix.midi = c.user.midi
           /\ IF dev = "WaveBlaster" /\ c.mixer = "SB16"
              THEN c.state = TRUE \/ c.unpaired = TRUE ELSE c.mpu = TRUE \/ c.unpaired = TRUE

PasMusic(c, dev) ==
    P!GetCardSettings(c).status = "ok" =>
        /\ dev = "FM" /\ c.present = TRUE => c.func = TRUE
        /\ IF dev = "FM" /\ c.func = TRUE THEN c.volume.fm = c.user.midi
           ELSE c.fm = c.user.midi

Music(c, dev) ==
    /\ c.kind = "SB"  => SBMusic(c, dev)
    /\ c.kind = "PAS" => PasMusic(c, dev)
    /\ c.interface \in {"none", "intelligent", "uart"}
    /\ dev \in {"off", "FM"} => (c.interface = "uart" => c.user.uart)

MusicInv ==
    /\ Music(m, music)
    /\ "off" \notin m.devices /\ ("SoundScape" \in m.devices => m.kind = "SS")

--------------------------------------------------------------------------------
\* The best mode of a card, and what becomes of one that is asked for.
Able(c) ==
    CASE c.kind = "SB"  -> [bits     |-> IF c.dsp >= 400 THEN 16 ELSE 8,
                            channels |-> IF c.dsp >= 300 THEN 2 ELSE 1]
      [] c.kind = "PAS" -> [bits |-> IF c.wide = TRUE THEN 16 ELSE 8, channels |-> 2]
      [] c.kind = "SS"  -> [bits |-> 16, channels |-> 2]
      [] c.kind = "DSS" -> Mono8

Fit(c, mode) == [bits     |-> MinOf(mode.bits, Able(c).bits),
                 channels |-> MinOf(mode.channels, Able(c).channels)]

\* The library has its voices, its buffer and its card; and it plays or records.
Up   == pc \in {"start", "test"} \/ (pc = "idle" /\ fx.installed)
Going == pc = "test" \/ (pc = "idle" /\ fx.installed)

PhaseInv ==
    /\ pc \in {"idle", "start", "test", "free"} /\ fx.installed \in BOOLEAN
    /\ pc \in {"start", "test"} => ~fx.installed
    /\ Up => m.installed /\ mv.voices /\ mv.buffer
    /\ pc = "free" => ~m.installed
    /\ pc = "idle" /\ ~fx.installed => ~mv.voices /\ ~mv.buffer /\ ~fx.locked
    /\ ~Going => m.playing = "off" /\ m.callback = "none"
    /\ fx.last = "shutdown" => ~m.installed /\ pc = "idle" /\ ~fx.installed
    /\ fx.asked # Undefined /\ pc = "idle" => fx.installed
    /\ pc \in {"start", "test"} => fx.asked = Undefined

ModeInv ==
    /\ fx.device \in {NoDevice, Able(m)}
    /\ Up => mv.asked \in Modes /\ mv.mode = Fit(m, mv.asked)
    /\ Going /\ m.playing = "play" =>
           /\ m.kind # "DSS" => m.mode = mv.mode
           /\ m.length = BufferSize(mv.mode) /\ mv.rate = m.rate /\ mv.channel = m.channel
    /\ m.playing = "record" => m.mode = Mono8 /\ m.length = MixBufferSize
    /\ Going /\ ~Recordable => m.playing = "play"
    /\ Going /\ m.kind = "DSS" /\ (pc = "test" => mv.page # 1) => m.task

IInv == CardInv(m) /\ MusicInv /\ PhaseInv /\ ModeInv /\ VolumeKept

\* What MV_Init locks stays locked, up to an initialization that fails.
Locks == pc # "idle" \/ fx.installed \/ fx.last = "shutdown" => mv.locked = TRUE

\* What no call changes, and what playing and recording leave alone.
Fixed(c, d) ==
    /\ d.kind = c.kind /\ d.user = c.user /\ d.wired = c.wired /\ d.devices = c.devices
    /\ d.dsp = c.dsp /\ d.env = c.env /\ d.present = c.present /\ d.wide = c.wide
    /\ d.ini = c.ini /\ d.chip = c.chip

Settings(c, d) ==
    /\ Fixed(c, d) /\ d.interface = c.interface /\ d.irq = c.irq
    /\ d.config = c.config /\ d.version = c.version /\ d.mixer = c.mixer
    /\ d.mix = c.mix /\ d.volume = c.volume /\ d.mpu = c.mpu /\ d.unpaired = c.unpaired
    /\ d.state = c.state /\ d.func = c.func /\ d.pcm = c.pcm /\ d.fm = c.fm
    /\ d.found = c.found

Kept(c, d) == Settings(c, d) /\ d.installed = c.installed

\* What the card does, and what its driver keeps of that.
Works(c, d) ==
    /\ d.dma = c.dma /\ d.card = c.card /\ d.cross = c.cross /\ d.run = c.run
    /\ d.channel = c.channel /\ d.mode = c.mode /\ d.rate = c.rate /\ d.length = c.length
    /\ d.clock = c.clock /\ d.packet = c.packet /\ d.stereo = c.stereo /\ d.halt = c.halt
    /\ d.codec = c.codec /\ d.sbline = c.sbline /\ d.cdrom = c.cdrom /\ d.power = c.power
    /\ d.format = c.format /\ d.count = c.count /\ d.gates = c.gates
    /\ d.sixteen = c.sixteen /\ d.interval = c.interval

--------------------------------------------------------------------------------
\* What a driver holds of the computer.
Held(c, d) ==
    /\ d.vector = c.vector /\ d.old = c.old /\ d.stacks = c.stacks /\ d.locked = c.locked
    /\ d.saved = c.saved /\ d.task = c.task

\* A change of what does not matter to any invariant of the machine.
Same(c, d) ==
    /\ Kept(c, d) /\ Held(c, d) /\ d.masked = c.masked /\ d.exposed = c.exposed
    /\ d.playing = c.playing /\ d.callback = c.callback /\ d.dma = c.dma /\ d.card = c.card
    /\ d.cross = c.cross /\ d.run = c.run

\* What a driver holds does not depend on the rest of the machine.
LEMMA HoldSame == ASSUME NEW c, NEW d, HoldInv(c), Same(c, d) PROVE HoldInv(d)
BY DEF HoldInv, Hooked, LetGo, Fed, Same, Kept, Settings, Fixed, Held, Reaches

\* A driver that has stopped has its line closed again, and still holds what it held.
LEMMA HoldStopped ==
    ASSUME NEW c, NEW d, HoldInv(c), Kept(c, d), Held(c, d), c.installed = TRUE,
           c.kind # "DSS",
           d.masked = c.saved, d.exposed = FALSE, d.playing = "off"
    PROVE  HoldInv(d)
BY DEF HoldInv, Hooked, LetGo, Kept, Settings, Fixed, Held

\* A driver that has started has its line open, and holds what it held.
LEMMA HoldStarted ==
    ASSUME NEW c, NEW d, HoldInv(c), Kept(c, d), Held(c, d), c.installed = TRUE,
           c.kind # "DSS",
           d.masked = c.masked \ Lines(c.irq), d.exposed = FALSE, d.playing \in Runs
    PROVE  HoldInv(d)
<1>1. Reaches(d, d.irq)
  BY DEF Reaches, Kept, Settings
<1>2. QED BY <1>1 DEF HoldInv, Hooked, LetGo, Kept, Settings, Fixed, Held, Runs

\* What the functions that begin to play or to record leave.
Underway(d, run, divisions, mode, callback) ==
    /\ d.status = "ok" /\ d.playing = run /\ d.mode = mode /\ d.callback = callback
    /\ d.length = TotalBufferSize \div divisions

Refused(c, d) == d.status = "error" /\ d.playing = "off" /\ d.callback = c.callback

SameChannel(c, d) == d.channel = c.channel

Tasked(c, d) == c.fault # "task" => d.task = TRUE

--------------------------------------------------------------------------------
\* The drivers have the operators of Hardware each under a name of its own.
LEMMA Copies ==
    ASSUME NEW c
    PROVE  /\ B!DisableInterrupt(c) = DisableInterrupt(c)
           /\ P!DisableInterrupt(c) = DisableInterrupt(c)
           /\ S!DisableInterrupt(c) = DisableInterrupt(c)
           /\ B!EnableInterrupt(c) = EnableInterrupt(c)
           /\ P!EnableInterrupt(c) = EnableInterrupt(c)
           /\ S!EnableInterrupt(c) = EnableInterrupt(c)
           /\ B!ReplaceInterrupt(c) = ReplaceInterrupt(c)
           /\ P!ReplaceInterrupt(c) = ReplaceInterrupt(c)
           /\ S!ReplaceInterrupt(c) = ReplaceInterrupt(c)
<1>1. /\ B!DisableInterrupt(c) = DisableInterrupt(c)
      /\ P!DisableInterrupt(c) = DisableInterrupt(c)
      /\ S!DisableInterrupt(c) = DisableInterrupt(c)
  BY DEF B!DisableInterrupt, P!DisableInterrupt, S!DisableInterrupt, DisableInterrupt,
         B!Watched,
         P!Watched, S!Watched, Watched, B!Reaches, P!Reaches, S!Reaches, Reaches,
         B!Lines, P!Lines, S!Lines, Lines
<1>2. /\ B!EnableInterrupt(c) = EnableInterrupt(c)
      /\ P!EnableInterrupt(c) = EnableInterrupt(c)
      /\ S!EnableInterrupt(c) = EnableInterrupt(c)
  BY DEF B!EnableInterrupt, P!EnableInterrupt, S!EnableInterrupt, EnableInterrupt, B!Watched,
         P!Watched, S!Watched, Watched, B!Reaches, P!Reaches, S!Reaches, Reaches,
         B!Lines, P!Lines, S!Lines, Lines
<1>3. /\ B!ReplaceInterrupt(c) = ReplaceInterrupt(c)
      /\ P!ReplaceInterrupt(c) = ReplaceInterrupt(c)
      /\ S!ReplaceInterrupt(c) = ReplaceInterrupt(c)
  BY DEF B!ReplaceInterrupt, P!ReplaceInterrupt, S!ReplaceInterrupt, ReplaceInterrupt,
         B!Watched, P!Watched, S!Watched, Watched, B!Reaches, P!Reaches, S!Reaches, Reaches,
         B!Lines, P!Lines, S!Lines, Lines
<1>4. QED BY <1>1, <1>2, <1>3

\* The same for those that are made of other operators.
LEMMA LongCopies ==
    ASSUME NEW c
    PROVE  /\ B!Reserve(c) = Reserve(c) /\ B!Release(c) = Release(c)
           /\ P!Reserve(c) = Reserve(c) /\ P!Release(c) = Release(c)
           /\ S!Reserve(c) = Reserve(c) /\ S!Release(c) = Release(c)
<1> USE
       DEF LockMemory, UnlockMemory, AllocateStack, DeallocateStack, RestoreInterrupt, Ok,
           Failed,
    Watched, Reaches, Lines
<1>1. B!Reserve(c) = Reserve(c) /\ B!Release(c) = Release(c)
  BY DEF Reserve, Release, B!Reserve, B!Release, B!LockMemory, B!UnlockMemory, B!AllocateStack,
    B!DeallocateStack, B!RestoreInterrupt, B!Ok, B!Failed, B!Watched, B!Reaches, B!Lines
<1>2. P!Reserve(c) = Reserve(c) /\ P!Release(c) = Release(c)
  BY DEF Reserve, Release, P!Reserve, P!Release, P!LockMemory, P!UnlockMemory, P!AllocateStack,
    P!DeallocateStack, P!RestoreInterrupt, P!Ok, P!Failed, P!Watched, P!Reaches, P!Lines
<1>3. S!Reserve(c) = Reserve(c) /\ S!Release(c) = Release(c)
  BY DEF Reserve, Release, S!Reserve, S!Release, S!LockMemory, S!UnlockMemory, S!AllocateStack,
    S!DeallocateStack, S!RestoreInterrupt, S!Ok, S!Failed, S!Watched, S!Reaches, S!Lines
<1>4. QED BY <1>1, <1>2, <1>3

\* DisableInterrupt gives the masks back that the driver found, and EnableInterrupt
\* opens the lines of the card among them.
LEMMA Interrupts ==
    ASSUME NEW c, HoldInv(c), c.installed = TRUE, c.kind # "DSS"
    PROVE  /\ DisableInterrupt(c).masked = c.saved
           /\ EnableInterrupt(c).masked = c.masked \ Lines(c.irq)
           /\ DisableInterrupt(c).exposed = FALSE /\ EnableInterrupt(c).exposed = FALSE
<1>1. /\ c.irq \in DOMAIN c.vector /\ c.stacks # 0 /\ c.locked = TRUE /\ c.task = FALSE
      /\ c.exposed = FALSE
  BY DEF HoldInv, Hooked, NoVectors, Vectored
<1>2. (c.masked \ Lines(c.irq)) \cup (c.saved \cap Lines(c.irq)) = c.saved
  BY DEF HoldInv, Hooked
<1>3. QED BY <1>1, <1>2 DEF DisableInterrupt, EnableInterrupt, Watched, Lines

\* What the drivers take hold of, and let go of.
LEMMA Reserves ==
    ASSUME NEW c, c.exposed = FALSE, c.vector = NoVectors, c.stacks = 0, c.task = FALSE
    PROVE  LET d == Reserve(c)
           IN  /\ Kept(c, d) /\ Works(c, d) /\ d.vector = c.vector /\ d.old = c.old
               /\ d.saved = c.saved /\ d.task = FALSE /\ d.masked = c.masked
               /\ d.exposed = FALSE /\ d.playing = c.playing /\ d.callback = c.callback
               /\ \/ d.status = "ok" /\ d.stacks = 1 /\ d.locked = TRUE
                  \/ d.status = "error" /\ d.stacks = 0 /\ d.locked = FALSE
<1> DEFINE d == Reserve(c)
<1>1. \A irq \in DOMAIN c.vector : c.vector[irq] # "driver"
  BY DEF NoVectors
<1>2. Kept(c, d) /\ Works(c, d)
  <2> DEFINE K(x, y) == Kept(x, y) /\ Works(x, y)
             locked == LockMemory(c)
             stack  == AllocateStack(locked)
  <2>1. \A x : K(x, Failed(x)) /\ K(x, Ok(x))
    BY DEF Kept, Settings, Fixed, Works, Ok, Failed
  <2>2. \A x : K(x, UnlockMemory(x))
    BY DEF Kept, Settings, Fixed, Works, UnlockMemory, Watched
  <2>3. \A x, n : K(x, [x EXCEPT !.locked = TRUE]) /\ K(x, [x EXCEPT !.stacks = n])
    BY DEF Kept, Settings, Fixed, Works
  <2>4. \A x, y, z : K(x, y) /\ K(y, z) => K(x, z)
    BY DEF Kept, Settings, Fixed, Works
  <2> HIDE DEF K
  <2>5. K(c, locked)
    BY <2>1, <2>2, <2>3, <2>4 DEF LockMemory
  <2> HIDE DEF locked
  <2>6. K(c, stack)
    BY <2>1, <2>3, <2>4, <2>5 DEF AllocateStack
  <2>7. \/ d = Failed(UnlockMemory(locked)) \/ d = Failed(UnlockMemory(stack)) \/ d = stack
    BY DEF Reserve, locked
  <2> HIDE DEF stack, d
  <2>8. K(c, d)
    BY <2>1, <2>2, <2>4, <2>5, <2>6, <2>7
  <2>9. QED BY <2>8 DEF K
<1> USE DEF Reserve, LockMemory, UnlockMemory, AllocateStack, Ok, Failed, Watched
<1>3. /\ d.vector = c.vector /\ d.old = c.old /\ d.saved = c.saved /\ d.task = FALSE
      /\ d.masked = c.masked /\ d.playing = c.playing /\ d.callback = c.callback
  OBVIOUS
<1>4. d.exposed = FALSE
  <2>1. CASE c.fault = "lock"
    <3> DEFINE x == Failed(UnlockMemory(c))
    <3>1. x.exposed = FALSE /\ x.task = FALSE /\ x.vector = c.vector
      BY <1>1
    <3>2. d = Failed(UnlockMemory(x))
      BY <2>1
    <3> HIDE DEF x, d
    <3>3. QED BY <1>1, <3>1, <3>2
  <2>2. CASE c.fault # "lock" /\ c.fault = "stack"
    BY <1>1, <2>2
  <2>3. CASE c.fault # "lock" /\ c.fault # "stack"
    BY <1>1, <2>3
  <2>4. QED BY <2>1, <2>2, <2>3
<1>5. \/ d.status = "ok" /\ d.stacks = 1 /\ d.locked = TRUE
      \/ d.status = "error" /\ d.stacks = 0 /\ d.locked = FALSE
  OBVIOUS
<1> HIDE DEF d
<1>6. QED BY <1>2, <1>3, <1>4, <1>5 DEF d

\* A driver that shuts down lets go of all that it holds.
LEMMA Releases ==
    ASSUME NEW c, HoldInv(c), c.installed = TRUE, c.kind # "DSS", c.masked = c.saved
    PROVE  LET d == Release(c)
           IN  /\ Settings(c, d) /\ Works(c, d) /\ HoldInv(d) /\ d.installed = FALSE
               /\ d.saved = c.saved /\ d.status = c.status /\ d.fault = c.fault
<1> DEFINE d == Release(c)
<1>1. /\ c.irq \in DOMAIN c.vector /\ c.task = FALSE /\ c.exposed = FALSE /\ c.stacks = 1
      /\ c.old = "dos" /\ c.masked = c.user.masked
  BY DEF HoldInv, Hooked, NoVectors, Vectored
<1>2. [c.vector EXCEPT ![c.irq] = c.old] = NoVectors
  BY <1>1 DEF HoldInv, Hooked, NoVectors
<1>3. Settings(c, d) /\ Works(c, d)
  <2> DEFINE q == [RestoreInterrupt(c) EXCEPT !.playing = "off", !.callback = "none"]
             u == UnlockMemory(q)
  <2>1. Settings(c, q) /\ Works(c, q)
    BY DEF Settings, Fixed, Works, RestoreInterrupt
  <2>2. d = [DeallocateStack(u) EXCEPT !.installed = FALSE]
    BY DEF Release
  <2> HIDE DEF q
  <2>3. Settings(q, u) /\ Works(q, u)
    BY DEF Settings, Fixed, Works, UnlockMemory, Watched
  <2> HIDE DEF u, d
  <2>4. Settings(u, d) /\ Works(u, d)
    BY <2>2 DEF Settings, Fixed, Works, DeallocateStack, Watched
  <2>5. QED BY <2>1, <2>3, <2>4 DEF Settings, Fixed, Works
<1> USE DEF Release, UnlockMemory, DeallocateStack, RestoreInterrupt, Watched
<1>4. Settings(c, d)
  BY <1>3
<1>5. Works(c, d)
  BY <1>3
<1>6. d.vector = NoVectors
  BY <1>2
<1>7. \A irq \in DOMAIN NoVectors : NoVectors[irq] # "driver"
  BY DEF NoVectors
<1>8. d.exposed = FALSE
  <2> DEFINE x == UnlockMemory([RestoreInterrupt(c) EXCEPT !.playing = "off",
                                                            !.callback = "none"])
  <2>1. x.exposed = FALSE /\ x.task = FALSE /\ x.vector = NoVectors
    BY <1>1, <1>2, <1>7
  <2>2. d = [DeallocateStack(x) EXCEPT !.installed = FALSE]
    OBVIOUS
  <2> HIDE DEF x, d
  <2>3. QED BY <1>7, <2>1, <2>2
<1>9. /\ d.task = FALSE /\ d.playing = "off" /\ d.installed = FALSE /\ d.masked = c.masked
      /\ d.stacks = 0 /\ d.locked = FALSE /\ d.callback = "none"
  BY <1>1
<1> HIDE DEF d
<1>10. LetGo(d) /\ d.task = FALSE /\ d.playing = "off" /\ d.installed = FALSE
  BY <1>1, <1>4, <1>6, <1>9 DEF LetGo, Settings, Fixed
<1> USE DEF d
<1>11. d.saved = c.saved /\ d.status = c.status /\ d.fault = c.fault
  OBVIOUS
<1> HIDE DEF d
<1>12. HoldInv(d)
  BY <1>4, <1>8, <1>10 DEF HoldInv, Settings, Fixed
<1>13. QED BY <1>4, <1>5, <1>10, <1>11, <1>12 DEF d

\* BLASTER_StopPlayback closes the channel and the line, and the card does nothing.
LEMMA BlasterStop ==
    ASSUME NEW c, c.kind = "SB", HoldInv(c), SBInv(c), c.installed = TRUE
    PROVE  LET d == B!StopPlayback(c)
           IN  /\ HoldInv(d) /\ SBInv(d) /\ Kept(c, d) /\ d.playing = "off"
               /\ d.mode = c.mode /\ d.callback = c.callback /\ d.status = c.status
<1> DEFINE d  == B!StopPlayback(c)
           ch == B!ChannelOf(c)
<1>1. Kept(c, d)
  BY DEF Kept, Settings, Fixed, B!StopPlayback, B!EndTransfer, B!DisableInterrupt, B!Watched
<1>2. /\ d.playing = "off" /\ d.mode = c.mode /\ d.callback = c.callback
      /\ d.status = c.status /\ Held(c, d)
  BY DEF Held, B!StopPlayback, B!EndTransfer, B!DisableInterrupt, B!Watched
<1>3. /\ d.masked = B!DisableInterrupt(c).masked /\ d.exposed = B!DisableInterrupt(c).exposed
  BY DEF B!StopPlayback, B!EndTransfer, B!DisableInterrupt, B!Watched
<1>4. d.masked = c.saved /\ d.exposed = FALSE
  BY <1>3, Interrupts, Copies
<1>5. d.card = IF B!Halted(c) THEN B!Silent ELSE c.card
  BY DEF B!StopPlayback, B!EndTransfer, B!DisableInterrupt, B!Watched
<1>6. d.dma = IF VerifyChannel(ch) THEN [c.dma EXCEPT ![ch] = Idle] ELSE c.dma
  BY DEF B!StopPlayback, B!EndTransfer, B!DisableInterrupt, B!Watched, B!VerifyChannel,
         VerifyChannel, B!Idle, Idle
<1> HIDE DEF d
<1>7. HoldInv(d)
  BY <1>1, <1>2, <1>4, HoldStopped
<1>8. d.card.run = "off"
  BY <1>5 DEF SBInv, SBPlays, B!Silent
<1>9. NoneOpen(d)
  BY <1>6 DEF SBInv, SBPlays, OnlyOpen, NoneOpen, Channels, VerifyChannel
<1>10. SBInv(d)
  BY <1>1, <1>2, <1>8, <1>9
     DEF SBInv, Unset, SetOnce, SBVoice, EnvType, TypeFits, Kept, Settings, Fixed
<1>11. QED BY <1>1, <1>2, <1>7, <1>10 DEF d

\* BLASTER_SetMixMode sets the best mode of the card that is no better than the one
\* asked for.
LEMMA BlasterMode ==
    ASSUME NEW c, NEW mode \in Modes, c.kind = "SB", HoldInv(c), SBInv(c), c.installed = TRUE,
           c.playing = "off"
    PROVE  LET d == B!SetMixMode(c, mode)
           IN  /\ HoldInv(d) /\ SBInv(d) /\ Same(c, d) /\ d.mode = Fit(c, mode)
               /\ d.packet = (d.mode.bits \div 8) * d.mode.channels
               /\ c.config.type = "SBPro" => d.stereo = (d.mode.channels = 2)
               /\ d.status = c.status
<1> DEFINE d == B!SetMixMode(c, mode)
<1>1. B!MaxMixMode(c) = Able(c)
  BY DEF SBInv, B!MaxMixMode, Able
<1>2. d.mode = Fit(c, mode)
  BY <1>1 DEF Fit, B!SetMixMode, B!SetPlaybackRate, B!MinOf, MinOf, Modes
<1>3. Same(c, d)
  <2>1. CASE c.config.type = "SBPro"
    <3>1. Kept(c, d)
      BY <2>1 DEF Kept, Settings, Fixed, B!SetMixMode, B!SetPlaybackRate
    <3>2. QED BY <2>1, <3>1 DEF Same, Held, B!SetMixMode, B!SetPlaybackRate
  <2>2. CASE c.config.type # "SBPro"
    <3>1. Kept(c, d)
      BY <2>2 DEF Kept, Settings, Fixed, B!SetMixMode
    <3>2. QED BY <2>2, <3>1 DEF Same, Held, B!SetMixMode
  <2>3. QED BY <2>1, <2>2
<1>4. d.packet = (d.mode.bits \div 8) * d.mode.channels /\ d.status = c.status
  BY DEF B!SetMixMode, B!SetPlaybackRate
<1>5. c.config.type = "SBPro" => d.stereo = (d.mode.channels = 2)
  BY DEF B!SetMixMode, B!SetPlaybackRate
<1> HIDE DEF d
<1>6. SBInv(d)
  BY <1>3
     DEF SBInv, Unset, SetOnce, SBVoice, EnvType, TypeFits, Same, Kept, Settings, Fixed,
         NoneOpen
<1>7. HoldInv(d)
  BY <1>3, HoldSame
<1>8. QED BY <1>2, <1>3, <1>4, <1>5, <1>6, <1>7 DEF d

\* BLASTER_BeginBufferedPlayback and -Record: the DSP moves what the driver has the
\* DMA controller offer, unless the channel is refused.
LEMMA BlasterBegin ==
    ASSUME NEW c, NEW run \in Runs, NEW divisions, NEW rate, NEW mode \in Modes, NEW callback,
           c.kind = "SB", HoldInv(c), SBInv(c), c.installed = TRUE,
           Fit(c, mode) = mode, run = "record" => mode = Mono8
    PROVE  LET d == B!BeginBuffered(c, run, divisions, rate, mode, callback)
           IN  /\ HoldInv(d) /\ SBInv(d) /\ Kept(c, d)
               /\ Underway(d, run, divisions, mode, callback) \/ Refused(c, d)
<1> DEFINE s  == B!StopPlayback(c)
           t  == B!SetMixMode(s, mode)
           ch == B!ChannelOf(t)
           u  == B!SetupDMABuffer(t, run)
           v  == [B!SetPlaybackRate(u, rate) EXCEPT !.callback = callback,
                                                    !.length = TotalBufferSize \div divisions]
           w  == B!EnableInterrupt(v)
           d  == B!BeginBuffered(c, run, divisions, rate, mode, callback)
<1>1. HoldInv(s) /\ SBInv(s) /\ Kept(c, s) /\ s.playing = "off" /\ s.callback = c.callback
  BY BlasterStop
<1>2. s.kind = "SB" /\ s.installed = TRUE /\ Fit(s, mode) = mode
  BY <1>1 DEF Kept, Settings, Fixed, Fit, Able
<1> HIDE DEF s
<1>3. /\ HoldInv(t) /\ SBInv(t) /\ Same(s, t) /\ t.mode = mode
      /\ t.packet = (mode.bits \div 8) * mode.channels
      /\ t.config.type = "SBPro" => t.stereo = (mode.channels = 2)
  <2>1. /\ HoldInv(t) /\ SBInv(t) /\ Same(s, t) /\ t.mode = Fit(s, mode)
        /\ t.packet = (t.mode.bits \div 8) * t.mode.channels
        /\ s.config.type = "SBPro" => t.stereo = (t.mode.channels = 2)
    BY <1>1, <1>2, BlasterMode
  <2> HIDE DEF t
  <2>2. QED BY <2>1, <1>2 DEF Same, Kept, Settings
<1> HIDE DEF t
<1>4. Kept(c, t) /\ t.playing = "off" /\ t.callback = c.callback
  BY <1>1, <1>3 DEF Same, Kept, Settings, Fixed
<1>5. CASE ~VerifyChannel(ch)
  <2>1. u = [t EXCEPT !.status = "error"]
    BY <1>5 DEF B!SetupDMABuffer, B!SetupTransfer, B!Failed, B!VerifyChannel, VerifyChannel
  <2>2. d = u
    BY <2>1 DEF B!BeginBuffered, B!Prepared, s, t
  <2>3. Same(t, d) /\ d.status = "error"
    BY <2>1, <2>2 DEF Same, Kept, Settings, Held, Fixed
  <2>4. HoldInv(d)
    BY <2>3, <1>3, HoldSame
  <2>5. SBInv(d)
    BY <2>3, <1>3, <1>4
       DEF SBInv, Unset, SetOnce, SBVoice, EnvType, TypeFits, Same, Kept, Settings, Fixed,
           NoneOpen
  <2>6. QED
    BY <2>3, <2>4, <2>5, <1>4 DEF Same, Kept, Settings, Fixed, Refused
<1>6. CASE VerifyChannel(ch)
  <2>1. u = [[t EXCEPT !.dma[ch] = [size |-> TotalBufferSize, pos |-> 0, to |-> run],
                       !.status = "ok"] EXCEPT !.channel = ch, !.current = 0]
    BY <1>6 DEF B!SetupDMABuffer, B!SetupTransfer, B!Ok, B!VerifyChannel, VerifyChannel
  <2>2. /\ Kept(t, u) /\ Held(t, u) /\ u.masked = t.masked /\ u.exposed = t.exposed
        /\ u.playing = "off" /\ u.card = t.card /\ u.status = "ok"
        /\ u.mode = mode /\ u.packet = t.packet /\ u.stereo = t.stereo
        /\ u.channel = ch
        /\ u.dma = [t.dma EXCEPT ![ch] = [size |-> TotalBufferSize, pos |-> 0, to |-> run]]
    BY <2>1, <1>3, <1>4 DEF Kept, Settings, Held, Fixed
  <2> HIDE DEF u
  <2>3. /\ Kept(u, v) /\ Held(u, v) /\ v.masked = u.masked /\ v.exposed = u.exposed
        /\ v.playing = u.playing /\ v.card = u.card /\ v.status = u.status
        /\ v.mode = u.mode /\ v.packet = u.packet /\ v.stereo = u.stereo
        /\ v.channel = u.channel /\ v.dma = u.dma
        /\ v.length = TotalBufferSize \div divisions /\ v.callback = callback
    BY DEF Kept, Settings, Held, Fixed, B!SetPlaybackRate
  <2>4. v.rate = IF v.version < 400 THEN v.clock \div v.packet ELSE v.clock
    BY <2>2, <1>3, <1>4 DEF B!SetPlaybackRate, B!Listens, SBInv
  <2> HIDE DEF v
  <2>5. HoldInv(v) /\ v.card.run = "off" /\ v.playing = "off"
    <3>1. HoldInv(v)
      BY <2>2, <2>3, <1>3, <1>4 DEF HoldInv, Hooked, Kept, Settings, Fixed, Held, LetGo, Fed
    <3>2. QED BY <2>2, <2>3, <1>3, <1>4, <3>1 DEF SBInv
  <2>6. w.masked = v.masked \ Lines(v.irq) /\ w.exposed = FALSE
    <3>1. v.installed = TRUE /\ v.kind = "SB"
      BY <1>1, <1>2, <1>4, <2>2, <2>3 DEF Kept, Settings, Fixed
    <3>2. QED BY <2>5, <3>1, Interrupts, Copies
  <2>7. /\ Kept(v, w) /\ Held(v, w) /\ w.playing = v.playing /\ w.card = v.card
        /\ w.status = v.status
        /\ w.mode = v.mode /\ w.packet = v.packet /\ w.stereo = v.stereo /\ w.rate = v.rate
        /\ w.channel = v.channel /\ w.dma = v.dma /\ w.length = v.length
        /\ w.callback = v.callback
        /\ w.clock = v.clock
    BY DEF Kept, Settings, Held, Fixed, B!EnableInterrupt, B!Watched
  <2>8. d = B!DSPBegin(w, run)
    <3>1. B!Prepared(c, run, divisions, rate, mode, callback) = w
      BY <2>2 DEF B!Prepared, s, t, u, v
    <3>2. w.status # "error"
      BY <2>2, <2>3, <2>7
    <3>3. QED BY <3>1, <3>2 DEF B!BeginBuffered
  <2> HIDE DEF w
  <2>9. /\ Kept(w, d) /\ Held(w, d) /\ d.masked = w.masked /\ d.exposed = w.exposed
        /\ d.playing = run /\ d.status = w.status /\ d.mode = w.mode /\ d.packet = w.packet
        /\ d.stereo = w.stereo /\ d.rate = w.rate /\ d.clock = w.clock /\ d.channel = w.channel
        /\ d.dma = w.dma /\ d.length = w.length /\ d.callback = w.callback
        /\ d.halt = B!HaltOf(w, run)
    BY <2>8 DEF B!DSPBegin, Kept, Settings, Held, Fixed
  <2>10. d.card = B!Commanded(w, run)
    BY <2>8, <2>5, <2>7 DEF B!DSPBegin, B!Listens
  <2> HIDE DEF d
  <2>11. /\ Kept(c, d) /\ d.status = "ok" /\ d.mode = mode /\ d.callback = callback
         /\ d.length = TotalBufferSize \div divisions
    BY <1>4, <2>2, <2>3, <2>7, <2>9 DEF Kept, Settings, Fixed
  <2>12. HoldInv(d)
    <3>1. Kept(v, d) /\ Held(v, d) /\ d.masked = v.masked \ Lines(v.irq) /\ d.exposed = FALSE
      BY <2>6, <2>7, <2>9 DEF Kept, Settings, Fixed, Held
    <3>2. v.installed = TRUE /\ v.kind # "DSS"
      BY <1>4, <2>2, <2>3 DEF Kept, Settings, Fixed
    <3>3. QED BY <3>1, <3>2, <2>5, <2>9, HoldStarted
  <2>13. SBPlays(d)
    <3>1. /\ w.version = d.dsp /\ w.dsp = d.dsp /\ d.dsp \in Nat /\ w.mode = mode
          /\ d.config = w.config /\ w.length = d.length
      BY <1>3, <1>4, <2>2, <2>3, <2>7, <2>9 DEF Kept, Settings, Fixed, SBInv
    <3>2. (d.dsp < 400 => mode.bits = 8) /\ (d.dsp < 300 => mode.channels = 1)
      <4>1. mode.bits \in {8, 16} /\ mode.channels \in {1, 2}
        BY DEF Modes
      <4>2. Fit(d, mode) = mode /\ d.kind = "SB"
        BY <2>11 DEF Fit, Able, Kept, Settings, Fixed
      <4>3. /\ mode.bits = MinOf(mode.bits, Able(d).bits)
            /\ mode.channels = MinOf(mode.channels, Able(d).channels)
        BY <4>2 DEF Fit
      <4>4. QED BY <3>1, <4>1, <4>2, <4>3 DEF Able, MinOf
    <3>3. d.card.run = run /\ d.card.bits = mode.bits /\ d.card.bytes = d.length
      <4>1. mode \in [bits : {8, 16}, channels : {1, 2}]
        BY DEF Modes
      <4>2. CASE run = "play"
        BY <2>10, <3>1, <3>2, <4>1, <4>2 DEF B!Commanded
      <4>3. CASE run = "record"
        BY <2>10, <3>1, <4>3 DEF B!Commanded, Mono8
      <4>4. QED BY <4>2, <4>3 DEF Runs
    <3>4. B!Halted(d)
      <4>1. d.card.fast = (d.dsp \in 200..399 /\ B!HighSpeed(w))
        BY <2>10, <3>1 DEF B!Commanded
      <4>2. d.halt = IF d.dsp \in 200..399 /\ B!HighSpeed(w) THEN 0
                     ELSE IF d.dsp >= 400 /\ run = "play" THEN mode.bits ELSE 8
        BY <2>9, <3>1 DEF B!HaltOf
      <4>3. run = "record" => mode.bits = 8
        BY DEF Mono8
      <4>4. ~(d.dsp \in 200..399 /\ B!HighSpeed(w)) => d.halt = d.card.bits
        BY <3>1, <3>2, <3>3, <4>2, <4>3 DEF Runs
      <4>5. QED BY <4>1, <4>2, <4>4 DEF B!Halted, B!Listens
    <3>5. TypeFits(d) /\ B!MixerOf(d.dsp) = "SBPro" => d.stereo = (mode.channels = 2)
      BY <1>3, <1>4, <2>2, <2>3, <2>7, <2>9, <2>11 DEF TypeFits, Kept, Settings, Fixed
    <3>6. TypeFits(d) => d.card.channels = mode.channels
      <4>1. w.stereo = d.stereo
        BY <2>9
      <4>2. mode \in [bits : {8, 16}, channels : {1, 2}]
        BY DEF Modes
      <4>3. QED
        <5>1. d.card.channels = IF d.dsp >= 400 /\ run = "play" THEN mode.channels
                                ELSE IF B!MixerOf(d.dsp) = "SBPro" /\ d.stereo THEN 2 ELSE 1
          BY <2>10, <3>1, <4>1 DEF B!Commanded
        <5>2. CASE B!MixerOf(d.dsp) = "SBPro"
          <6>1. d.dsp < 400
            BY <3>1, <5>2 DEF B!MixerOf
          <6>2. d.card.channels = IF d.stereo THEN 2 ELSE 1
            BY <3>1, <5>1, <5>2, <6>1
          <6>3. TypeFits(d) => d.stereo = (mode.channels = 2)
            BY <3>5, <5>2
          <6>4. CASE mode.channels = 2
            BY <6>2, <6>3, <6>4
          <6>5. CASE mode.channels = 1
            BY <6>2, <6>3, <6>5
          <6>6. QED BY <4>2, <6>4, <6>5
        <5>3. CASE B!MixerOf(d.dsp) # "SBPro"
          <6>1. run = "record" => mode.channels = 1
            BY DEF Mono8
          <6>2. QED BY <3>1, <3>2, <4>2, <5>1, <5>3, <6>1 DEF B!MixerOf, Runs
        <5>4. QED BY <5>2, <5>3
    <3>7. d.packet = (mode.bits \div 8) * mode.channels
      BY <1>3, <2>2, <2>3, <2>7, <2>9
    <3>8. d.rate = IF d.dsp < 400 THEN d.clock \div d.packet ELSE d.clock
      BY <2>4, <2>7, <2>9, <3>1 DEF Kept, Settings
    <3>9. d.channel = ch /\ B!ChannelOf(d) = ch
      BY <1>3, <1>4, <2>2, <2>3, <2>7, <2>9, <2>11 DEF B!ChannelOf, Kept, Settings
    <3>10. OnlyOpen(d, ch)
      <4>1. NoneOpen(t)
        BY <1>3, <1>4 DEF SBInv
      <4>2. ch \in Channels
        BY <1>6 DEF VerifyChannel, Channels
      <4>3. d.dma = [t.dma EXCEPT ![ch] = [size |-> TotalBufferSize, pos |-> 0, to |-> run]]
        BY <2>2, <2>3, <2>7, <2>9
      <4>4. QED BY <1>6, <2>9, <4>1, <4>2, <4>3 DEF OnlyOpen, NoneOpen
    <3>11. QED
      BY <2>9, <2>11, <3>1, <3>2, <3>3, <3>4, <3>5, <3>6, <3>7, <3>8, <3>9, <3>10 DEF SBPlays
  <2>14. SBInv(d)
    BY <1>3, <1>4, <2>9, <2>11, <2>13
       DEF SBInv, Unset, SetOnce, SBVoice, EnvType, TypeFits, Kept, Settings, Fixed, Runs
  <2>15. QED BY <2>9, <2>11, <2>12, <2>14 DEF d, Underway
<1> HIDE DEF d
<1>7. QED BY <1>5, <1>6 DEF d

\* What a call leaves of the music, whatever plays it.
MusicKept(c, d) == \A dev : Music(c, dev) => Music(d, dev)

\* What no driver function changes of the volumes leaves the music as it is.
LEMMA KeptMusic ==
    ASSUME NEW c, NEW d, Settings(c, d), c.kind = "PAS" => d.channel = c.channel
    PROVE  MusicKept(c, d)
BY DEF MusicKept, Music, SBMusic, PasMusic, TypeFits, Settings, Fixed, P!GetCardSettings,
       P!ValidIrq, P!VerifyChannel, P!Ok, P!Failed

\* BLASTER_Shutdown gives the vector, the stack, the memory and the voice volume back.
LEMMA BlasterShutdown ==
    ASSUME NEW c, c.kind = "SB", HoldInv(c), SBInv(c), c.installed = TRUE
    PROVE  LET d == B!Shutdown(c)
           IN  /\ HoldInv(d) /\ SBInv(d) /\ Fixed(c, d) /\ MusicKept(c, d)
               /\ d.installed = FALSE /\ d.config = c.config /\ d.fault = c.fault
<1> DEFINE s == B!StopPlayback(c)
           r == B!RestoreVolume(s, "voice")
           q == B!ResetDSP(r)
           d == B!Shutdown(c)
<1>1. HoldInv(s) /\ SBInv(s) /\ Kept(c, s) /\ s.playing = "off"
  BY BlasterStop
<1>2. /\ s.masked = s.saved /\ s.card.run = "off"  /\ NoneOpen(s) /\ s.installed = TRUE
      /\ s.kind = "SB"
  BY <1>1 DEF HoldInv, SBInv, Kept, Settings, Fixed
<1>3. s.fault = c.fault
  BY DEF B!StopPlayback, B!EndTransfer, B!DisableInterrupt, B!Watched
<1> HIDE DEF s
<1>4. /\ Fixed(s, q) /\ q.interface = s.interface /\ q.irq = s.irq /\ q.installed = s.installed
      /\ q.config = s.config /\ q.version = s.version /\ q.mixer = s.mixer
      /\ q.volume = s.volume /\ q.mpu = s.mpu /\ q.unpaired = s.unpaired
      /\ q.state = s.state /\ Held(s, q) /\ q.masked = s.masked /\ q.exposed = s.exposed
      /\ q.playing = s.playing /\ q.dma = s.dma /\ q.fault = s.fault
  BY DEF Fixed, Held, B!ResetDSP, B!RestoreVolume, B!Ok, B!Failed
<1>5. /\ q.mix.midi = s.mix.midi
      /\ q.mix.voice = (IF s.mixer = "none" THEN s.mix.voice ELSE s.volume.voice)
      /\ DOMAIN q.mix = DOMAIN s.mix
  BY <1>1 DEF SBInv, B!ResetDSP, B!RestoreVolume, B!Ok, B!Failed
<1>6. q.card.run = "off"
  BY <1>2 DEF B!ResetDSP, B!RestoreVolume, B!Silent, B!Ok, B!Failed
<1>7. d = B!Release(q)
  BY DEF B!Shutdown, s
<1> HIDE DEF q, d
<1>8. HoldInv(q)
  BY <1>1, <1>2, <1>4 DEF HoldInv, Hooked, Fed, LetGo, Fixed, Held, Reaches
<1>9. /\ Settings(q, d) /\ Works(q, d) /\ HoldInv(d) /\ d.installed = FALSE
      /\ d.fault = q.fault
  <2>1. q.installed = TRUE /\ q.kind # "DSS" /\ q.masked = q.saved
    BY <1>2, <1>4 DEF Fixed, Held
  <2>2. d = Release(q)
    BY <1>7, LongCopies
  <2>3. QED BY <1>8, <2>1, <2>2, Releases
<1>10. Fixed(c, d) /\ d.config = c.config /\ d.fault = c.fault
  BY <1>3, <1>1, <1>4, <1>9 DEF Kept, Settings, Fixed
<1>11. SBInv(d)
  <2>1. d.card.run = "off" /\ NoneOpen(d) /\ d.playing = "off"
    BY <1>2, <1>4, <1>6, <1>9 DEF NoneOpen, Works, HoldInv, LetGo
  <2>2. TypeFits(d) => d.mix.voice = d.user.voice
    BY <1>1, <1>2, <1>4, <1>5, <1>9, <1>10 DEF SBInv, SBVoice, TypeFits, Settings, Fixed
  <2>3. SetOnce(d)
    BY <1>1, <1>2, <1>4, <1>9 DEF SBInv, Unset, SetOnce, EnvType, Settings, Fixed
  <2>4. QED BY <1>1, <1>4, <1>5, <1>9, <2>1, <2>2, <2>3 DEF SBInv, SBVoice, Settings, Fixed
<1>12. MusicKept(c, d)
  BY <1>1, <1>2, <1>4, <1>5, <1>9, <1>10
     DEF MusicKept, Music, SBMusic, TypeFits, Kept, Settings, Fixed
<1>13. QED BY <1>9, <1>10, <1>11, <1>12 DEF d

\* The interrupt handler of a driver takes the vector of its card.
LEMMA Replaces ==
    ASSUME NEW c, c.vector = NoVectors, c.stacks = 1, c.locked = TRUE, c.task = FALSE,
           c.exposed = FALSE, c.irq \in Vectored
    PROVE  LET d == ReplaceInterrupt(c)
           IN  /\ Kept(c, d) /\ Works(c, d)
               /\ d.vector = [NoVectors EXCEPT ![c.irq] = "driver"]
               /\ d.old = "dos" /\ d.stacks = 1 /\ d.locked = TRUE /\ d.saved = c.saved
               /\ d.task = FALSE /\ d.masked = c.masked /\ d.exposed = FALSE
               /\ d.playing = c.playing /\ d.callback = c.callback /\ d.status = c.status
<1> DEFINE d == ReplaceInterrupt(c)
<1> USE DEF ReplaceInterrupt, Watched
<1>1. Kept(c, d)
  BY DEF Kept, Settings, Fixed
<1>2. Works(c, d)
  BY DEF Works
<1>3. /\ d.vector = [NoVectors EXCEPT ![c.irq] = "driver"] /\ d.stacks = 1 /\ d.locked = TRUE
      /\ d.saved = c.saved /\ d.task = FALSE /\ d.masked = c.masked
      /\ d.playing = c.playing /\ d.callback = c.callback /\ d.status = c.status
  OBVIOUS
<1>4. d.old = "dos"
  BY DEF NoVectors
<1>5. d.exposed = FALSE
  OBVIOUS
<1> HIDE DEF d
<1>6. QED BY <1>1, <1>2, <1>3, <1>4, <1>5 DEF d

\* The driver and its memory, after all that BLASTER_Init does before it takes hold of them.
BlasterFound(c, d) ==
    /\ Fixed(c, d) /\ d.interface = c.interface /\ d.irq = c.irq /\ d.installed = FALSE
    /\ d.config = c.config /\ d.version = c.dsp /\ d.mixer = B!MixerOf(c.dsp) /\ d.mix = c.mix
    /\ d.mpu = c.mpu /\ d.unpaired = c.unpaired /\ d.state = c.state
    /\ d.volume.midi = c.volume.midi /\ DOMAIN d.volume = DOMAIN c.volume
    /\ c.mixer = B!MixerOf(c.dsp) /\ c.mixer # "none" => d.volume.voice = c.mix.voice
    /\ d.vector = c.vector /\ d.stacks = c.stacks /\ d.locked = c.locked /\ d.task = c.task
    /\ d.saved = c.masked /\ d.masked = c.masked /\ d.exposed = c.exposed
    /\ d.playing = "off" /\ d.callback = "none" /\ d.dma = c.dma /\ d.card.run = "off"

\* A card that BLASTER_Init has only looked at is as it was.
LEMMA BlasterFoundHolds ==
    ASSUME NEW c, NEW d, c.kind = "SB", HoldInv(c), SBInv(c), c.installed = FALSE,
           c.config.address # Undefined, BlasterFound(c, d)
    PROVE  HoldInv(d) /\ SBInv(d) /\ MusicKept(c, d) /\ SetOnce(d)
           /\ (TypeFits(d) /\ d.mixer # "none" => d.volume.voice = d.user.voice)
<1>1. LetGo(c) /\ c.exposed = FALSE /\ c.task = FALSE
  BY DEF HoldInv
<1>2. HoldInv(d)
  BY <1>1 DEF HoldInv, BlasterFound, LetGo, Fixed
<1>3. SetOnce(c)
  BY DEF SBInv, Unset
<1>4. SetOnce(d)
  BY <1>3 DEF SetOnce, BlasterFound, EnvType, Fixed
<1>5. TypeFits(c) => c.mixer = d.mixer
  BY <1>3 DEF SetOnce, TypeFits, BlasterFound
<1>6. NoneOpen(d)
  BY <1>1 DEF SBInv, LetGo, NoneOpen, BlasterFound
<1>7. TypeFits(d) => d.mix.voice = d.user.voice
  BY DEF SBInv, SBVoice, TypeFits, BlasterFound, Fixed
<1>8. SBInv(d)
  BY <1>4, <1>6, <1>7 DEF SBInv, SBVoice, BlasterFound, Fixed
<1>9. TypeFits(d) /\ d.mixer # "none" => d.volume.voice = d.user.voice
  BY <1>5, <1>7 DEF BlasterFound, TypeFits, Fixed
<1>10. MusicKept(c, d)
  BY <1>5 DEF MusicKept, Music, SBMusic, SBInv, TypeFits, BlasterFound, Fixed
<1>11. QED BY <1>2, <1>4, <1>8, <1>9, <1>10

\* BLASTER_Init holds all that it takes, or nothing; it restores the voice volume and
\* saves it again, with its version and its mixer.
LEMMA BlasterInit ==
    ASSUME NEW c, c.kind = "SB", HoldInv(c), SBInv(c), c.playing = "off", c.callback = "none"
    PROVE  LET d == B!Init(c)
           IN  /\ HoldInv(d) /\ SBInv(d) /\ Fixed(c, d) /\ MusicKept(c, d)
               /\ d.playing = "off" /\ d.callback = "none"
               /\ d.status = "error" \/ d.installed = TRUE
<1> DEFINE down  == IF c.installed THEN B!Shutdown(c) ELSE c
           reset == B!ResetDSP(B!SaveMasks(down))
           saved == B!SaveVolume(reset, "voice")
           found == B!GetDSPVersion([saved EXCEPT !.playing = "off", !.callback = "none"])
           set   == B!SetMixMode(B!SetPlaybackRate(found, 11000), B!Mono8)
           held  == B!Reserve(set)
           d     == B!Init(c)
<1>1. /\ HoldInv(down) /\ SBInv(down) /\ Fixed(c, down) /\ MusicKept(c, down)
      /\ down.installed = FALSE /\ down.config = c.config
  <2>1. CASE c.installed = TRUE
    BY <2>1, BlasterShutdown
  <2>2. CASE c.installed = FALSE
    BY <2>2 DEF Fixed, MusicKept
  <2>3. QED BY <2>1, <2>2 DEF HoldInv
<1>2. down.kind = "SB" /\ down.playing = "off" /\ down.callback = "none"
  BY <1>1 DEF HoldInv, LetGo, Fixed
<1>3. /\ c.config.address = Undefined => d = B!Failed(down)
      /\ c.config.address # Undefined /\ reset.status = "error" => d = reset
      /\ c.config.address # Undefined /\ reset.status # "error" =>
             /\ B!BadChannels(set) \/ ~B!ValidIrq(set.irq) => d = B!Failed(set)
             /\ ~B!BadChannels(set) /\ B!ValidIrq(set.irq) =>
                   IF held.status = "error" THEN d = held
                   ELSE d = [B!ReplaceInterrupt(held) EXCEPT !.installed = TRUE]
  BY DEF B!Init, Undefined, B!Undefined
<1> HIDE DEF down, d
<1>4. reset = (IF down.config.present
               THEN [[down EXCEPT !.saved = down.masked]
                        EXCEPT !.card = B!Silent, !.status = "ok"]
               ELSE [[down EXCEPT !.saved = down.masked] EXCEPT !.status = "error"])
  BY DEF B!ResetDSP, B!SaveMasks, B!Ok, B!Failed
<1> HIDE DEF reset
<1>5. saved = (IF reset.mixer = "none" THEN reset
               ELSE [reset EXCEPT !.volume["voice"] = IF reset.mixer = B!MixerOf(reset.dsp)
                                                      THEN reset.mix["voice"]
                                                      ELSE <<Undefined, Undefined>>])
  BY DEF B!SaveVolume, B!Undefined, Undefined
<1> HIDE DEF saved
<1>6. found = [[saved EXCEPT !.playing = "off", !.callback = "none"]
                  EXCEPT !.version = saved.dsp, !.mixer = B!MixerOf(saved.dsp)]
  BY DEF B!GetDSPVersion
<1> HIDE DEF found
<1>7. Same(found, set) /\ set.saved = found.saved
  <2> DEFINE x == B!SetPlaybackRate(found, 11000)
  <2>1. Same(found, x) /\ x.saved = found.saved
    BY DEF Same, Kept, Settings, Fixed, Held, B!SetPlaybackRate
  <2> HIDE DEF x
  <2>2. set = B!SetMixMode(x, B!Mono8)
    BY DEF x
  <2> HIDE DEF set
  <2>3. Same(x, set) /\ set.saved = x.saved
    BY <2>2 DEF Same, Kept, Settings, Fixed, Held, B!SetMixMode, B!SetPlaybackRate
  <2>4. QED BY <2>1, <2>3 DEF Same, Kept, Settings, Fixed, Held
<1> HIDE DEF set
<1>8. held = Reserve(set)
  BY LongCopies
<1> HIDE DEF held
<1>9. CASE c.config.address = Undefined
  <2>1. d = [down EXCEPT !.status = "error"]
    BY <1>9, <1>3 DEF B!Failed
  <2>2. Same(down, d) /\ d.status = "error"
    BY <2>1 DEF Same, Kept, Settings, Fixed, Held
  <2>3. HoldInv(d) /\ SBInv(d)
    BY <1>1, <1>2, <2>2, HoldSame
       DEF SBInv, Unset, SetOnce, SBVoice, EnvType, TypeFits, Same, Kept, Settings, Fixed,
           NoneOpen
  <2>4. MusicKept(down, d)
    BY <1>2, <2>2, KeptMusic DEF Same, Kept
  <2>5. QED BY <1>1, <1>2, <2>2, <2>3, <2>4 DEF Same, Kept, Settings, Fixed, MusicKept, d
<1>10. CASE c.config.address # Undefined /\ reset.status = "error"
  <2>1. d = [[down EXCEPT !.saved = down.masked] EXCEPT !.status = "error"]
    BY <1>10, <1>3, <1>4
  <2>2. /\ Kept(down, d) /\ d.masked = down.masked /\ d.exposed = down.exposed
        /\ d.vector = down.vector /\ d.stacks = down.stacks /\ d.locked = down.locked
        /\ d.task = down.task /\ d.playing = "off" /\ d.callback = "none" /\ d.dma = down.dma
        /\ d.card = down.card /\ d.status = "error"
    BY <1>2, <2>1 DEF Kept, Settings, Fixed
  <2>3. HoldInv(d)
    BY <1>1, <1>2, <2>2 DEF HoldInv, LetGo, Kept, Settings, Fixed
  <2>4. SBInv(d)
    BY <1>1, <1>2, <2>2
       DEF SBInv, Unset, SetOnce, SBVoice, EnvType, TypeFits, Kept, Settings, Fixed, NoneOpen
  <2>5. MusicKept(down, d)
    BY <1>2, <2>2, KeptMusic DEF Kept
  <2>6. QED BY <1>1, <2>1, <2>2, <2>3, <2>4, <2>5 DEF Kept, Settings, Fixed, MusicKept, d
<1>11. CASE c.config.address # Undefined /\ reset.status # "error"
  <2>1. BlasterFound(down, set)
    <3>1. reset = [[down EXCEPT !.saved = down.masked]
                      EXCEPT !.card = B!Silent, !.status = "ok"]
      BY <1>11, <1>4
    <3>2. /\ Fixed(down, found) /\ found.interface = down.interface /\ found.irq = down.irq
          /\ found.installed = FALSE /\ found.config = down.config
          /\ found.version = down.dsp /\ found.mixer = B!MixerOf(down.dsp)
          /\ found.mix = down.mix /\ found.mpu = down.mpu /\ found.unpaired = down.unpaired
          /\ found.state = down.state
      BY <1>1, <1>5, <1>6, <3>1 DEF Fixed
    <3>3. /\ found.vector = down.vector /\ found.stacks = down.stacks
          /\ found.locked = down.locked /\ found.task = down.task
          /\ found.saved = down.masked /\ found.masked = down.masked
          /\ found.exposed = down.exposed /\ found.playing = "off" /\ found.callback = "none"
          /\ found.dma = down.dma /\ found.card.run = "off"
      BY <1>5, <1>6, <3>1 DEF B!Silent
    <3>4. /\ found.volume.midi = down.volume.midi /\ DOMAIN found.volume = DOMAIN down.volume
          /\ down.mixer = B!MixerOf(down.dsp) /\ down.mixer # "none" =>
                found.volume.voice = down.mix.voice
      BY <1>1, <1>5, <1>6, <3>1 DEF SBInv
    <3>5. QED BY <1>7, <3>2, <3>3, <3>4
       DEF BlasterFound, Same, Kept, Settings, Fixed, Held
  <2>2. /\ HoldInv(set) /\ SBInv(set) /\ MusicKept(down, set) /\ SetOnce(set)
        /\ (TypeFits(set) /\ set.mixer # "none" => set.volume.voice = set.user.voice)
    <3>1. down.config.address # Undefined
      BY <1>1, <1>11
    <3>2. QED BY <1>1, <1>2, <2>1, <3>1, BlasterFoundHolds
  <2>3. /\ set.installed = FALSE /\ set.playing = "off" /\ set.callback = "none"
        /\ set.kind = "SB" /\ Fixed(c, set) /\ set.saved = set.masked
    BY <1>1, <1>2, <2>1 DEF BlasterFound, Fixed
  <2>4. CASE B!BadChannels(set) \/ ~B!ValidIrq(set.irq)
    <3>1. d = [set EXCEPT !.status = "error"]
      BY <1>11, <1>3, <2>4 DEF B!Failed
    <3>2. Same(set, d) /\ d.status = "error"
      BY <3>1 DEF Same, Kept, Settings, Fixed, Held
    <3>3. HoldInv(d) /\ SBInv(d)
      BY <2>2, <2>3, <3>2, HoldSame
         DEF SBInv, Unset, SetOnce, SBVoice, EnvType, TypeFits, Same, Kept, Settings, Fixed,
             NoneOpen
    <3>4. MusicKept(set, d)
      BY <2>3, <3>2, KeptMusic DEF Same, Kept
    <3>5. QED BY <1>1, <2>2, <2>3, <3>2, <3>3, <3>4
                 DEF Same, Kept, Settings, Fixed, MusicKept, d
  <2>5. CASE ~B!BadChannels(set) /\ B!ValidIrq(set.irq)
    <3>1. LetGo(set) /\ set.task = FALSE /\ set.exposed = FALSE
      BY <2>2, <2>3 DEF HoldInv
    <3>2. /\ Kept(set, held) /\ Works(set, held) /\ held.vector = NoVectors
          /\ held.saved = set.saved /\ held.task = FALSE /\ held.masked = set.masked
          /\ held.exposed = FALSE /\ held.playing = "off" /\ held.callback = "none"
          /\ \/ held.status = "ok" /\ held.stacks = 1 /\ held.locked = TRUE
             \/ held.status = "error" /\ held.stacks = 0 /\ held.locked = FALSE
      BY <1>8, <2>3, <3>1, Reserves DEF LetGo
    <3>3. MusicKept(set, held)
      BY <2>3, <3>2, KeptMusic DEF Kept
    <3>4. CASE held.status = "error"
      <4>1. d = held
        BY <1>11, <1>3, <2>5, <3>4
      <4>2. HoldInv(d)
        BY <2>2, <2>3, <3>1, <3>2, <3>4, <4>1 DEF HoldInv, LetGo, Kept, Settings, Fixed
      <4>3. SBInv(d)
        BY <2>2, <2>3, <3>2, <4>1 DEF SBInv, Unset, SetOnce, SBVoice, EnvType, TypeFits,
           Kept, Works, Settings, Fixed, NoneOpen
      <4>4. QED BY <1>1, <2>2, <2>3, <3>2, <3>3, <3>4, <4>1, <4>2, <4>3
         DEF Kept, Settings, Fixed, MusicKept, d
    <3>5. CASE held.status # "error"
      <4> DEFINE e == ReplaceInterrupt(held)
      <4>1. d = [e EXCEPT !.installed = TRUE]
        BY <1>11, <1>3, <2>5, <3>5, Copies
      <4>2. held.irq \in Vectored
        BY <2>5, <3>2 DEF B!ValidIrq, Vectored, Kept, Settings
      <4>3. /\ Kept(held, e) /\ Works(held, e)
            /\ e.vector = [NoVectors EXCEPT ![held.irq] = "driver"]
            /\ e.old = "dos" /\ e.stacks = 1 /\ e.locked = TRUE /\ e.saved = held.saved
            /\ e.task = FALSE /\ e.masked = held.masked /\ e.exposed = FALSE
            /\ e.playing = held.playing /\ e.callback = held.callback /\ e.status = held.status
        BY <3>2, <3>5, <4>2, Replaces
      <4> HIDE DEF e
      <4>4. /\ Settings(set, d) /\ Works(set, d)
            /\ d.vector = [NoVectors EXCEPT ![held.irq] = "driver"]
            /\ d.old = "dos" /\ d.stacks = 1 /\ d.locked = TRUE /\ d.saved = set.masked
            /\ d.task = FALSE /\ d.masked = set.masked /\ d.exposed = FALSE
            /\ d.playing = "off" /\ d.callback = "none" /\ d.installed = TRUE
            /\ d.irq = held.irq
        BY <2>3, <3>2, <4>1, <4>3 DEF Kept, Settings, Fixed, Works
      <4>5. HoldInv(d)
        BY <2>3, <3>1, <4>2, <4>4 DEF HoldInv, Hooked, LetGo, Settings, Fixed
      <4>6. SBInv(d)
        <5>1. TypeFits(d) => SBVoice(d)
          BY <2>2, <2>3, <4>4 DEF SBInv, SBVoice, TypeFits, Settings, Fixed
        <5>2. SetOnce(d)
          BY <2>2, <4>4 DEF SetOnce, EnvType, Settings, Fixed
        <5>3. d.version = d.dsp /\ d.mixer = B!MixerOf(d.dsp)
          BY <2>1, <4>4 DEF BlasterFound, Settings, Fixed
        <5>4. d.card.run = "off" /\ NoneOpen(d)
          BY <2>2, <2>3, <4>4 DEF SBInv, NoneOpen, Works
        <5>5. QED
          BY <2>2, <4>4, <5>1, <5>2, <5>3, <5>4 DEF SBInv, Settings, Fixed
      <4>7. MusicKept(set, d)
        BY <2>3, <4>4, KeptMusic
      <4>8. QED BY <1>1, <2>2, <2>3, <4>4, <4>5, <4>6, <4>7 DEF Settings, Fixed, MusicKept, d
    <3>6. QED BY <3>4, <3>5
  <2>6. QED BY <2>4, <2>5
<1>12. QED BY <1>9, <1>10, <1>11

\* BLASTER_SetCardSettings shuts the driver down and takes the type of the
\* environment and the version of the DSP.
LEMMA BlasterSettings ==
    ASSUME NEW c, NEW present, c.kind = "SB", HoldInv(c), SBInv(c), c.playing = "off",
           c.callback = "none"
    PROVE  LET d == B!SetCardSettings(c, B!GetEnv(c.env), present)
           IN  /\ HoldInv(d) /\ SBInv(d) /\ Fixed(c, d) /\ MusicKept(c, d)
               /\ d.playing = "off" /\ d.callback = "none" /\ d.installed = FALSE
<1> DEFINE down == IF c.installed THEN B!Shutdown(c) ELSE c
           env  == B!GetEnv(c.env)
           d    == B!SetCardSettings(c, env, present)
<1>1. /\ HoldInv(down) /\ SBInv(down) /\ Fixed(c, down) /\ MusicKept(c, down)
      /\ down.installed = FALSE
  <2>1. CASE c.installed = TRUE
    BY <2>1, BlasterShutdown
  <2>2. CASE c.installed = FALSE
    BY <2>2 DEF Fixed, MusicKept
  <2>3. QED BY <2>1, <2>2 DEF HoldInv
<1>2. down.kind = "SB" /\ LetGo(down)
  BY <1>1 DEF HoldInv, Fixed
<1>3. d = [down EXCEPT !.config = [type |-> B!TypeOf(env.type), dma8 |-> env.dma8,
                                   dma16 |-> env.dma16, address |-> env.address,
                                   present |-> present],
                       !.irq = env.irq, !.mixer = B!TypeOf(env.type)]
  BY DEF B!SetCardSettings
<1> HIDE DEF down, d
<1>4. /\ Fixed(down, d) /\ d.interface = down.interface /\ d.installed = FALSE
      /\ d.config.type = B!TypeOf(env.type) /\ d.mixer = B!TypeOf(env.type)
      /\ d.version = down.version /\ d.mix = down.mix /\ d.volume = down.volume
      /\ d.mpu = down.mpu /\ d.unpaired = down.unpaired /\ d.state = down.state
      /\ d.vector = down.vector /\ d.masked = down.masked /\ d.stacks = down.stacks
      /\ d.locked = down.locked /\ d.callback = down.callback /\ d.playing = down.playing
      /\ d.exposed = down.exposed /\ d.task = down.task /\ d.card = down.card
      /\ d.dma = down.dma
  BY <1>1, <1>3 DEF Fixed
<1>5. env.type = B!GetEnv(d.env).type
  BY <1>1, <1>4 DEF Fixed
<1> HIDE DEF env
<1>6. HoldInv(d)
  BY <1>1, <1>2, <1>4 DEF HoldInv, LetGo, Fixed
<1>7. SetOnce(d)
  BY <1>4, <1>5 DEF SetOnce, EnvType
<1>8. TypeFits(d) => d.mix.voice = d.user.voice
  <2>1. CASE Unset(down)
    BY <1>4, <2>1 DEF Unset, Fixed
  <2>2. CASE SetOnce(down)
    <3>1. d.config.type = down.config.type
      BY <1>4, <1>5, <2>2 DEF SetOnce, EnvType, Fixed
    <3>2. QED BY <1>1, <1>2, <1>4, <3>1 DEF SBInv, SBVoice, TypeFits, Fixed
  <2>3. QED BY <1>1, <2>1, <2>2 DEF SBInv
<1>9. SBInv(d)
  BY <1>1, <1>2, <1>4, <1>7, <1>8 DEF SBInv, SBVoice, NoneOpen, LetGo, Fixed
<1>10. MusicKept(down, d)
  <2>1. CASE Unset(down)
    BY <1>1, <1>2, <1>4, <2>1 DEF Unset, MusicKept, Music, SBMusic, Fixed
  <2>2. CASE SetOnce(down)
    <3>1. d.config.type = down.config.type
      BY <1>4, <1>5, <2>2 DEF SetOnce, EnvType, Fixed
    <3>2. TypeFits(d) => d.mixer = down.mixer
      BY <1>2, <1>4, <2>2, <3>1 DEF SetOnce, TypeFits, Fixed
    <3>3. QED BY <1>2, <1>4, <3>1, <3>2 DEF MusicKept, Music, SBMusic, TypeFits, Fixed
  <2>3. QED BY <1>1, <2>1, <2>2 DEF SBInv
<1>11. QED BY <1>1, <1>2, <1>4, <1>6, <1>9, <1>10 DEF LetGo, Fixed, MusicKept, d, env

--------------------------------------------------------------------------------
\* The machine after Interrupt.
Moved(c) ==
    LET does == CardDoes(c)
    IN  CardPageDone(IF does.channel = Undefined THEN c
                     ELSE Transferred(c, does.channel, does.bytes))

Interrupted(c) == IF Serviced(c) THEN CardService(Moved(c)) ELSE Moved(c)

\* What an interrupt leaves as it was.
Ran(c, d) ==
    /\ Kept(c, d) /\ Held(c, d) /\ d.masked = c.masked /\ d.exposed = c.exposed
    /\ d.playing = c.playing /\ d.callback = c.callback /\ d.mode = c.mode
    /\ d.length = c.length /\ d.rate = c.rate /\ d.channel = c.channel

\* The DMA controller moves a page over an open channel.
LEMMA PageMoves ==
    ASSUME NEW c, NEW ch, NEW bytes, OnlyOpen(c, ch)
    PROVE  LET d == Transferred(c, ch, bytes)
           IN  OnlyOpen(d, ch) /\ Ran(c, d) /\ d.card = c.card /\ d.stereo = c.stereo
               /\ d.packet = c.packet /\ d.clock = c.clock /\ d.halt = c.halt
               /\ d.cross = c.cross /\ d.gates = c.gates /\ d.sixteen = c.sixteen
               /\ d.count = c.count /\ d.interval = c.interval /\ d.run = c.run
               /\ d.format = c.format /\ d.codec = c.codec /\ d.sbline = c.sbline
               /\ d.cdrom = c.cdrom /\ d.power = c.power
<1> DEFINE d == Transferred(c, ch, bytes)
<1>1. d = [c EXCEPT !.dma = [c.dma EXCEPT ![ch].pos = (@ + bytes) % c.dma[ch].size]]
  BY DEF Transferred
<1> HIDE DEF d
<1>2. OnlyOpen(d, ch)
  BY <1>1 DEF OnlyOpen, Channels, VerifyChannel
<1>3. Ran(c, d)
  BY <1>1 DEF Ran, Kept, Settings, Fixed, Held
<1>4. QED BY <1>1, <1>2, <1>3 DEF d

\* A page over and the interrupt of BLASTER_ServiceInterrupt: a DSP before 2.00 is told
\* to go on.
LEMMA BlasterInterrupted ==
    ASSUME NEW c, c.kind = "SB", HoldInv(c), SBInv(c), Moves(c)
    PROVE  LET d == Interrupted(c)
           IN  HoldInv(d) /\ SBInv(d) /\ Ran(c, d)
<1> DEFINE ch == B!ChannelOf(c)
           t  == Transferred(c, ch, c.card.bytes)
           p  == B!PageDone(t)
           n  == B!NextPage(p)
           d  == Interrupted(c)
<1>1. c.card.run # "off"
  BY DEF Moves, CardDoes, B!Does
<1>2. /\ c.playing # "off" /\ SBPlays(c) /\ c.installed = TRUE /\ c.version = c.dsp
      /\ c.dsp \in Nat
  BY <1>1 DEF SBInv, HoldInv, LetGo
<1>3. CardDoes(c).channel = ch /\ CardDoes(c).bytes = c.card.bytes /\ CardDoes(c).line = TRUE
  BY <1>2 DEF CardDoes, B!Does, SBPlays, B!ChannelOf
<1>4. OnlyOpen(c, ch) /\ ch # Undefined
  BY <1>2 DEF SBPlays, OnlyOpen, VerifyChannel, Undefined
<1>5. /\ OnlyOpen(t, ch) /\ Ran(c, t) /\ t.card = c.card /\ t.stereo = c.stereo
      /\ t.packet = c.packet /\ t.clock = c.clock /\ t.halt = c.halt
  BY <1>4, PageMoves
<1>6. t.kind = "SB" /\ t.dsp = c.dsp
  BY <1>5 DEF Ran, Kept, Settings, Fixed
<1>7. Moved(c) = p
  BY <1>3, <1>4, <1>6 DEF Moved, CardPageDone
<1> HIDE DEF t
<1>8. /\ Ran(t, p) /\ p.stereo = t.stereo /\ p.packet = t.packet /\ p.clock = t.clock
      /\ p.halt = t.halt /\ p.dma = t.dma
      /\ p.card.bits = t.card.bits /\ p.card.channels = t.card.channels
      /\ p.card.bytes = t.card.bytes /\ p.card.fast = t.card.fast
      /\ p.card.run = IF c.dsp < 200 THEN "off" ELSE t.card.run
  BY <1>5, <1>6 DEF B!PageDone, Ran, Kept, Settings, Fixed, Held
<1> HIDE DEF p
<1>9. /\ Ran(p, n) /\ n.stereo = p.stereo /\ n.packet = p.packet /\ n.clock = p.clock
      /\ n.halt = p.halt /\ n.dma = p.dma /\ n.card = p.card
  BY DEF B!NextPage, Ran, Kept, Settings, Fixed, Held
<1> HIDE DEF n
<1>10. Serviced(c) <=> c.wired = c.irq
  BY <1>2, <1>3 DEF Serviced, Heard, HoldInv, Hooked, NoVectors
<1>11. /\ ~Serviced(c) => d = p
       /\ Serviced(c) => d = IF p.version < 200 /\ p.playing # "off"
                             THEN B!DSPBegin(n, p.playing)
                             ELSE n
  BY <1>6, <1>7, <1>8
     DEF Interrupted, CardService, B!ServiceInterrupt, n, Ran, Kept, Settings, Fixed
<1> HIDE DEF d
<1>12. p.version = c.dsp /\ p.playing = c.playing
  BY <1>2, <1>5, <1>8 DEF Ran, Kept, Settings
<1>13. ASSUME Serviced(c), c.dsp < 200 PROVE SBPlays(d) /\ Ran(c, d)
  <2>1. d = [n EXCEPT !.card = B!Commanded(n, c.playing), !.halt = B!HaltOf(n, c.playing),
                      !.playing = c.playing]
    BY <1>2, <1>8, <1>9, <1>11, <1>12, <1>13 DEF B!DSPBegin, B!Listens
  <2>2. /\ n.version = c.dsp /\ n.dsp = c.dsp /\ n.length = c.length /\ n.playing = c.playing
        /\ c.mode.bits = 8 /\ c.mode.channels = 1 /\ n.irq = c.irq
    BY <1>2, <1>5, <1>8, <1>9, <1>13 DEF Ran, Kept, Settings, Fixed, SBPlays, Modes
  <2>3. /\ Ran(n, d) /\ d.stereo = n.stereo /\ d.packet = n.packet /\ d.clock = n.clock
        /\ d.dma = n.dma
    BY <2>1, <2>2 DEF Ran, Kept, Settings, Fixed, Held
  <2>4. d.card = [run |-> c.playing, bits |-> 8, channels |-> 1, bytes |-> c.length,
                  fast |-> FALSE]
    <3>1. ~(n.version >= 400) /\ ~(n.version \in 200..399)
      BY <1>2, <1>13, <2>2
    <3>2. B!MixerOf(n.dsp) = "none"
      BY <1>2, <1>13, <2>2 DEF B!MixerOf
    <3>3. d.card = B!Commanded(n, c.playing)
      BY <2>1
    <3>4. QED BY <2>2, <3>1, <3>2, <3>3 DEF B!Commanded
  <2>5. d.halt = 8
    BY <1>2, <1>13, <2>1, <2>2 DEF B!HaltOf
  <2>6. B!Halted(d)
    BY <2>4, <2>5 DEF B!Halted, B!Listens
  <2>7. /\ Ran(c, d) /\ d.stereo = c.stereo /\ d.packet = c.packet /\ d.clock = c.clock
        /\ d.dma = t.dma
    BY <1>5, <1>8, <1>9, <2>3 DEF Ran, Kept, Settings, Fixed, Held
  <2>8. SBPlays(d)
    BY <1>2, <1>5, <1>13, <2>2, <2>4, <2>6, <2>7
       DEF SBPlays, Ran, Kept, Settings, Fixed, TypeFits, B!ChannelOf, B!MixerOf, OnlyOpen
  <2>9. QED
    BY <2>7, <2>8
<1>14. ASSUME ~(Serviced(c) /\ c.dsp < 200) PROVE SBPlays(d) /\ Ran(c, d)
  <2>1. d = n \/ (d = p /\ c.wired # c.irq)
    BY <1>10, <1>11, <1>12, <1>14
  <2>2. /\ Ran(c, d) /\ d.stereo = c.stereo /\ d.packet = c.packet /\ d.clock = c.clock
        /\ d.dma = t.dma /\ d.halt = c.halt
        /\ d.card.bits = c.card.bits /\ d.card.bytes = c.card.bytes
        /\ d.card.channels = c.card.channels /\ d.card.fast = c.card.fast
        /\ d.card.run = IF c.dsp < 200 THEN "off" ELSE c.card.run
    BY <1>5, <1>8, <1>9, <2>1 DEF Ran, Kept, Settings, Fixed, Held
  <2>3. d.card.run = c.card.run \/ (d.card.run = "off" /\ d.wired # d.irq)
    BY <1>10, <1>14, <2>2 DEF Ran, Kept, Settings, Fixed
  <2>4. B!Halted(d)
    BY <1>2, <2>2, <2>3 DEF SBPlays, B!Halted, B!Listens
  <2>5. SBPlays(d)
    BY <1>2, <1>5, <2>2, <2>3, <2>4
       DEF SBPlays, Ran, Kept, Settings, Fixed, TypeFits, B!ChannelOf, OnlyOpen
  <2>6. QED BY <2>2, <2>5
<1>15. SBPlays(d) /\ Ran(c, d)
  BY <1>13, <1>14
<1>16. HoldInv(d)
  BY <1>15 DEF HoldInv, Hooked, Ran, LetGo, Kept, Settings, Fixed, Held, Reaches
<1>17. SBInv(d)
  BY <1>2, <1>15
     DEF SBInv, Unset, SetOnce, SBVoice, EnvType, TypeFits, Ran, Kept, Settings, Fixed
<1>18. QED BY <1>15, <1>16, <1>17 DEF d

--------------------------------------------------------------------------------
\* The Pro AudioSpectrum.
LEMMA PasSame ==
    ASSUME NEW c, NEW d, PasInv(c), c.playing = "off", d.playing = "off", Kept(c, d),
           d.channel = c.channel, d.cross = c.cross, d.dma = c.dma
    PROVE  PasInv(d)
BY DEF PasInv, Kept, Settings, Fixed, NoneOpen

\* PAS_StopPlayback closes the channel and the line, and the card does nothing.
LEMMA PasStop ==
    ASSUME NEW c, c.kind = "PAS", HoldInv(c), PasInv(c), c.installed = TRUE
    PROVE  LET d == P!StopPlayback(c)
           IN  /\ HoldInv(d) /\ PasInv(d) /\ Kept(c, d) /\ d.playing = "off"
               /\ d.mode = c.mode /\ d.callback = c.callback /\ d.status = c.status
               /\ d.channel = c.channel /\ d.fault = c.fault /\ d.sixteen = 8
<1> DEFINE f == [c EXCEPT !.flag = FALSE]
           i == P!DisableInterrupt(f)
           d == P!StopPlayback(c)
<1>1. /\ Kept(c, f) /\ Same(c, f) /\ Works(c, f) /\ f.status = c.status /\ f.fault = c.fault
  BY DEF Same, Kept, Settings, Fixed, Held, Works
<1>2. d = [P!EndTransfer([i EXCEPT !.cross.dma = FALSE, !.cross.run = FALSE, !.sixteen = 8],
                         i.channel) EXCEPT !.playing = "off"]
  BY DEF P!StopPlayback, P!DisableCard, P!DisableInterrupt, P!Watched
<1> HIDE DEF f, d
<1>3. HoldInv(f) /\ f.installed = TRUE /\ f.kind = "PAS" /\ f.saved = c.saved
  BY <1>1, HoldSame DEF Same, Held, Kept, Settings, Fixed
<1>4. i.masked = c.saved /\ i.exposed = FALSE
  BY <1>3, Interrupts, Copies
<1>5. /\ Kept(c, i) /\ Held(c, i) /\ Works(c, i) /\ i.callback = c.callback
      /\ i.status = c.status /\ i.fault = c.fault
  BY <1>1 DEF Same, Kept, Settings, Fixed, Held, Works, P!DisableInterrupt, P!Watched
<1> HIDE DEF i
<1>6. /\ Kept(i, d) /\ Held(i, d) /\ d.masked = i.masked /\ d.exposed = i.exposed
      /\ d.playing = "off" /\ d.mode = i.mode /\ d.callback = i.callback
      /\ d.status = i.status /\ d.channel = i.channel /\ d.fault = i.fault /\ d.sixteen = 8
  BY <1>2 DEF Kept, Settings, Fixed, Held, P!EndTransfer
<1>7. d.cross = [[i.cross EXCEPT !.dma = FALSE] EXCEPT !.run = FALSE]
  BY <1>2 DEF P!EndTransfer
<1>8. d.cross \in Crossings /\ d.cross.dma = FALSE
  <2>1. i.cross \in Crossings
    BY <1>5 DEF PasInv, Works
  <2>2. QED BY <1>7, <2>1 DEF Crossings
<1>9. VerifyChannel(i.channel) => d.dma = [i.dma EXCEPT ![i.channel] = Idle]
  BY <1>2 DEF P!EndTransfer, P!VerifyChannel, VerifyChannel, P!Idle, Idle
<1>10. Kept(c, d) /\ Held(c, d)
  BY <1>5, <1>6 DEF Kept, Settings, Fixed, Held
<1>11. HoldInv(d)
  BY <1>4, <1>6, <1>10, HoldStopped
<1>12. NoneOpen(d)
  BY <1>5, <1>9 DEF PasInv, PasPlays, OnlyOpen, NoneOpen, Channels, VerifyChannel, Works
<1>13. PasInv(d)
  BY <1>5, <1>6, <1>8, <1>10, <1>12 DEF PasInv, Kept, Settings, Fixed, Works
<1>14. QED BY <1>5, <1>6, <1>10, <1>11, <1>13 DEF d, Works

\* PAS_SetMixMode sets the best mode of the card that is no better than the one asked
\* for.
LEMMA PasMode ==
    ASSUME NEW c, NEW mode \in Modes, c.kind = "PAS", HoldInv(c), PasInv(c),
           c.installed = TRUE,
           c.playing = "off"
    PROVE  LET d == P!SetMixMode(c, mode)
           IN  /\ HoldInv(d) /\ PasInv(d) /\ Same(c, d) /\ d.mode = Fit(c, mode)
               /\ d.channel = c.channel /\ d.status = c.status /\ d.sixteen = c.sixteen
<1> DEFINE d == P!SetMixMode(c, mode)
<1>1. d.mode = [mode EXCEPT !.bits = IF c.wide THEN mode.bits ELSE 8]
  BY DEF P!SetMixMode, P!SetPlaybackRate
<1>2. Same(c, d) /\ d.channel = c.channel /\ d.status = c.status /\ d.sixteen = c.sixteen
  BY DEF Same, Held, Kept, Settings, Fixed, P!SetMixMode, P!SetPlaybackRate
<1> HIDE DEF d
<1>3. mode \in [bits : {8, 16}, channels : {1, 2}]
  BY DEF Modes
<1>4. d.mode = Fit(c, mode)
  <2>1. CASE c.wide = TRUE
    BY <1>1, <1>3, <2>1 DEF Fit, Able, MinOf
  <2>2. CASE c.wide = FALSE
    BY <1>1, <1>3, <2>2 DEF Fit, Able, MinOf
  <2>3. QED BY <2>1, <2>2 DEF PasInv
<1>5. PasInv(d)
  BY <1>2, PasSame DEF Same
<1>6. HoldInv(d)
  BY <1>2, HoldSame
<1>7. QED BY <1>2, <1>4, <1>5, <1>6 DEF d

\* PAS_BeginBufferedPlayback and -Record: the card counts and clocks what the driver
\* has the DMA controller offer.
LEMMA PasBegin ==
    ASSUME NEW c, NEW run \in Runs, NEW divisions, NEW rate, NEW mode \in Modes, NEW callback,
           c.kind = "PAS", HoldInv(c), PasInv(c), c.installed = TRUE, Fit(c, mode) = mode
    PROVE  LET d == P!BeginBuffered(c, run, divisions, rate, mode, callback)
           IN  /\ HoldInv(d) /\ PasInv(d) /\ Kept(c, d) /\ SameChannel(c, d)
               /\ Underway(d, run, divisions, mode, callback)
<1> DEFINE s == P!StopPlayback(c)
           t == P!SetMixMode(s, mode)
           b == P!SetPlaybackRate(t, rate)
           x == [b EXCEPT !.length = TotalBufferSize \div divisions, !.callback = callback]
           u == P!SetupDMABuffer(x, run)
           v == [u EXCEPT !.interval = u.timeInterval,
                          !.count = IF P!Words(u.channel) THEN u.length \div 2 ELSE u.length,
                          !.gates = FALSE]
           f == [v EXCEPT !.flag = TRUE]
           w == P!EnableInterrupt(f)
           d == P!BeginBuffered(c, run, divisions, rate, mode, callback)
<1>1. /\ HoldInv(s) /\ PasInv(s) /\ Kept(c, s) /\ s.playing = "off" /\ s.channel = c.channel
      /\ s.sixteen = 8
  BY PasStop
<1>2. s.kind = "PAS" /\ s.installed = TRUE /\ Fit(s, mode) = mode
  BY <1>1 DEF Kept, Settings, Fixed, Fit, Able
<1> HIDE DEF s
<1>3. /\ HoldInv(t) /\ PasInv(t) /\ Same(s, t) /\ t.mode = mode /\ t.channel = c.channel
      /\ t.sixteen = 8
  <2>1. /\ HoldInv(t) /\ PasInv(t) /\ Same(s, t) /\ t.mode = Fit(s, mode)
        /\ t.channel = s.channel
        /\ t.sixteen = s.sixteen
    BY <1>1, <1>2, PasMode
  <2> HIDE DEF t
  <2>2. QED BY <1>1, <1>2, <2>1
<1> HIDE DEF t
<1>4. /\ Kept(t, x) /\ Held(t, x) /\ x.masked = t.masked /\ x.exposed = t.exposed
      /\ x.playing = t.playing /\ x.dma = t.dma /\ x.cross = t.cross /\ x.sixteen = t.sixteen
      /\ x.mode = t.mode /\ x.channel = t.channel
      /\ x.length = TotalBufferSize \div divisions /\ x.callback = callback
      /\ x.rate = (P!Clock \div x.timeInterval) \div x.mode.channels
  BY DEF Kept, Settings, Fixed, Held, P!SetPlaybackRate
<1> HIDE DEF x
<1>5. /\ HoldInv(x) /\ PasInv(x) /\ Kept(c, x) /\ x.playing = "off" /\ x.channel = c.channel
      /\ VerifyChannel(x.channel) /\ x.kind = "PAS" /\ x.installed = TRUE /\ NoneOpen(x)
  <2>1. x.playing = "off" /\ Kept(t, x) /\ Kept(c, x)
    BY <1>1, <1>3, <1>4 DEF Same, Kept, Settings, Fixed
  <2>2. x.kind = "PAS" /\ x.installed = TRUE
    BY <2>1 DEF Kept, Settings, Fixed
  <2>3. HoldInv(x)
    BY <1>3, <1>4, <2>1, <2>2 DEF HoldInv, Hooked, Kept, Settings, Fixed, Held
  <2>4. PasInv(x)
    BY <1>1, <1>3, <1>4, <2>1, PasSame DEF Same
  <2>5. QED BY <1>3, <1>4, <2>1, <2>3, <2>4, <2>2 DEF PasInv
<1>6. u = [[[x EXCEPT !.cross.dma = TRUE] EXCEPT
               !.dma[x.channel] = [size |-> TotalBufferSize, pos |-> 0, to |-> run],
               !.status = "ok"] EXCEPT !.current = 0]
  BY <1>5 DEF P!SetupDMABuffer, P!SetupTransfer, P!Ok, P!VerifyChannel, VerifyChannel
<1> HIDE DEF u
<1>7. /\ Kept(x, u) /\ Held(x, u) /\ u.masked = x.masked /\ u.exposed = x.exposed
      /\ u.playing = "off" /\ u.status = "ok" /\ u.mode = x.mode /\ u.channel = x.channel
      /\ u.length = x.length /\ u.callback = x.callback /\ u.rate = x.rate
      /\ u.timeInterval = x.timeInterval /\ u.sixteen = x.sixteen
      /\ u.dma = [x.dma EXCEPT ![x.channel] =
                      [size |-> TotalBufferSize, pos |-> 0, to |-> run]]
  BY <1>5, <1>6 DEF Kept, Settings, Fixed, Held
<1>8. d = P!BeginTransfer(u, run)
  BY <1>7 DEF P!BeginBuffered, s, t, x, u
<1>9. /\ Kept(u, f) /\ Held(u, f) /\ f.masked = u.masked /\ f.exposed = u.exposed
      /\ f.playing = u.playing /\ f.status = u.status /\ f.mode = u.mode
      /\ f.channel = u.channel /\ f.length = u.length /\ f.callback = u.callback
      /\ f.rate = u.rate /\ f.dma = u.dma /\ f.sixteen = u.sixteen
      /\ f.interval = u.timeInterval
      /\ f.count = IF Words(u.channel) THEN u.length \div 2 ELSE u.length
  BY DEF Kept, Settings, Fixed, Held, P!Words, Words
<1>10. d = [w EXCEPT !.sixteen = IF w.wide THEN w.mode.bits ELSE w.sixteen,
                     !.cross = [dma |-> TRUE, run |-> TRUE, dac |-> run = "play",
                                mono |-> w.mode.channels = 1],
                     !.gates = TRUE, !.unmuted = (run = "play"), !.playing = run]
  BY <1>8 DEF P!BeginTransfer, P!EnableCard, P!EnableInterrupt, P!Watched
<1> HIDE DEF f, d
<1>11. /\ HoldInv(f) /\ f.installed = TRUE /\ f.kind = "PAS" /\ Kept(c, f) /\ Held(x, f)
       /\ f.masked = x.masked
  <2>1. /\ Kept(x, f) /\ Kept(c, f) /\ Held(x, f) /\ f.masked = x.masked /\ f.playing = "off"
        /\ f.exposed = x.exposed
    BY <1>5, <1>7, <1>9 DEF Kept, Settings, Fixed, Held
  <2>2. f.installed = TRUE /\ f.kind = "PAS"
    BY <1>5, <2>1 DEF Kept, Settings, Fixed
  <2>3. HoldInv(f)
    BY <1>5, <2>1, <2>2 DEF HoldInv, Hooked, Kept, Settings, Fixed, Held
  <2>4. QED BY <2>1, <2>2, <2>3
<1>12. w.masked = f.masked \ Lines(f.irq) /\ w.exposed = FALSE
  BY <1>11, Interrupts, Copies
<1>13. /\ Kept(f, w) /\ Held(f, w) /\ w.playing = f.playing /\ w.status = f.status
       /\ w.mode = f.mode /\ w.channel = f.channel /\ w.length = f.length
       /\ w.callback = f.callback /\ w.rate = f.rate /\ w.dma = f.dma
       /\ w.sixteen = f.sixteen /\ w.interval = f.interval /\ w.count = f.count
  BY DEF Kept, Settings, Fixed, Held, P!EnableInterrupt, P!Watched
<1> HIDE DEF w
<1>14. /\ Kept(w, d) /\ Held(w, d) /\ d.masked = w.masked /\ d.exposed = w.exposed
       /\ d.playing = run /\ d.status = w.status /\ d.mode = w.mode /\ d.channel = w.channel
       /\ d.length = w.length /\ d.callback = w.callback /\ d.rate = w.rate /\ d.dma = w.dma
       /\ d.interval = w.interval /\ d.count = w.count /\ d.gates = TRUE
       /\ d.sixteen = (IF w.wide THEN w.mode.bits ELSE w.sixteen)
       /\ d.cross = [dma |-> TRUE, run |-> TRUE, dac |-> run = "play",
                     mono |-> w.mode.channels = 1]
  BY <1>10 DEF Kept, Settings, Fixed, Held
<1>15. /\ Kept(c, d) /\ d.status = "ok" /\ d.mode = mode /\ d.callback = callback
       /\ d.length = TotalBufferSize \div divisions /\ d.channel = c.channel
  BY <1>3, <1>4, <1>5, <1>7, <1>9, <1>11, <1>13, <1>14 DEF Kept, Settings, Fixed
<1>16. HoldInv(d)
  <2>1. Kept(f, d) /\ Held(f, d)
    BY <1>13, <1>14 DEF Kept, Settings, Fixed, Held
  <2>2. QED BY <1>11, <1>12, <1>14, <2>1, HoldStarted
<1>17. PasPlays(d)
  <2>1. mode \in [bits : {8, 16}, channels : {1, 2}]
    BY DEF Modes
  <2>2. d.wide = FALSE => mode.bits = 8
    <3>1. Fit(d, mode) = mode /\ d.kind = "PAS"
      BY <1>15 DEF Fit, Able, Kept, Settings, Fixed
    <3>2. mode.bits = MinOf(mode.bits, Able(d).bits)
      BY <3>1 DEF Fit
    <3>3. QED BY <2>1, <3>1, <3>2 DEF Able, MinOf
  <2>3. d.rate = (P!Clock \div d.interval) \div d.mode.channels
    BY <1>4, <1>7, <1>9, <1>13, <1>14
  <2>4. d.sixteen = mode.bits
    BY <1>3, <1>4, <1>5, <1>7, <1>9, <1>13, <1>14, <1>15, <2>2
       DEF PasInv, Kept, Settings, Fixed
  <2>5. d.count = IF Words(d.channel) THEN d.length \div 2 ELSE d.length
    BY <1>9, <1>13, <1>14
  <2>6. OnlyOpen(d, d.channel)
    <3>1. d.dma = [x.dma EXCEPT ![d.channel] =
                      [size |-> TotalBufferSize, pos |-> 0, to |-> run]]
      BY <1>7, <1>9, <1>13, <1>14
    <3>2. d.channel \in Channels /\ VerifyChannel(d.channel)
      BY <1>5, <1>15 DEF VerifyChannel, Channels
    <3>3. QED BY <1>5, <1>14, <3>1, <3>2 DEF OnlyOpen, NoneOpen
  <2>7. QED BY <1>14, <1>15, <2>2, <2>3, <2>4, <2>5, <2>6 DEF PasPlays
<1>18. PasInv(d)
  BY <1>5, <1>14, <1>15, <1>17 DEF PasInv, Kept, Settings, Fixed, Crossings, Runs
<1>19. QED BY <1>14, <1>15, <1>16, <1>18 DEF d, Underway, SameChannel

\* PAS_Shutdown gives the vector, the stack, the memory and the PCM volume back.
LEMMA PasShutdown ==
    ASSUME NEW c, c.kind = "PAS", HoldInv(c), PasInv(c), c.installed = TRUE
    PROVE  LET d == P!Shutdown(c)
           IN  /\ HoldInv(d) /\ PasInv(d) /\ Fixed(c, d) /\ MusicKept(c, d)
               /\ d.installed = FALSE
<1> DEFINE s == P!StopPlayback(c)
           r == P!Release(s)
           d == P!Shutdown(c)
<1>1. /\ HoldInv(s) /\ PasInv(s) /\ Kept(c, s) /\ s.playing = "off" /\ s.channel = c.channel
  BY PasStop
<1>2. s.masked = s.saved /\ s.installed = TRUE /\ s.kind = "PAS"
  BY <1>1 DEF HoldInv, Kept, Settings, Fixed
<1> HIDE DEF s
<1>3. Settings(s, r) /\ Works(s, r) /\ HoldInv(r) /\ r.installed = FALSE
  BY <1>1, <1>2, Releases, LongCopies
<1>4. d = [r EXCEPT !.pcm = c.volume.pcm]
  BY DEF P!Shutdown, s
<1> HIDE DEF r, d
<1>5. /\ Fixed(r, d) /\ d.interface = r.interface /\ d.irq = r.irq /\ d.channel = r.channel
      /\ d.installed = r.installed /\ d.func = r.func /\ d.volume = r.volume /\ d.fm = r.fm
      /\ d.pcm = c.volume.pcm /\ d.cross = r.cross /\ d.dma = r.dma /\ d.masked = r.masked
      /\ d.exposed = r.exposed /\ d.playing = r.playing /\ d.callback = r.callback
      /\ d.vector = r.vector /\ d.stacks = r.stacks /\ d.locked = r.locked /\ d.task = r.task
  BY <1>4 DEF Fixed
<1>6. r.kind = "PAS" /\ r.playing = "off"
  BY <1>2, <1>3 DEF HoldInv, LetGo, Settings, Fixed
<1>7. HoldInv(d)
  BY <1>3, <1>5, <1>6 DEF HoldInv, LetGo, Fixed
<1>8. d.pcm = d.user.voice /\ Fixed(c, d)
  BY <1>1, <1>3, <1>5 DEF PasInv, Kept, Settings, Fixed
<1>9. PasInv(d)
  BY <1>1, <1>3, <1>5, <1>6, <1>8 DEF PasInv, NoneOpen, Settings, Works, Fixed
<1>10. MusicKept(c, d)
  <2>1. Settings(c, r) /\ r.channel = c.channel
    BY <1>1, <1>3 DEF Kept, Settings, Fixed, Works
  <2>2. MusicKept(c, r)
    BY <2>1, KeptMusic
  <2>3. MusicKept(r, d)
    BY <1>5, <1>6 DEF MusicKept, Music, PasMusic, Fixed, P!GetCardSettings, P!Ok, P!Failed
  <2>4. QED BY <2>2, <2>3 DEF MusicKept
<1>11. QED BY <1>3, <1>5, <1>7, <1>8, <1>9, <1>10 DEF d

\* The driver and its memory, after all that PAS_Init does before it takes hold of them.
PasFound(c, d) ==
    /\ Fixed(c, d) /\ d.interface = c.interface /\ d.irq = c.irq /\ d.channel = c.channel
    /\ d.installed = FALSE /\ d.pcm = c.pcm /\ d.fm = c.fm /\ d.func = TRUE
    /\ d.volume.fm = c.volume.fm /\ d.volume.pcm = c.pcm /\ DOMAIN d.volume = DOMAIN c.volume
    /\ d.vector = c.vector /\ d.stacks = c.stacks /\ d.locked = c.locked /\ d.task = c.task
    /\ d.saved = c.masked /\ d.masked = c.masked /\ d.exposed = c.exposed
    /\ d.playing = "off" /\ d.callback = "none" /\ d.dma = c.dma /\ d.cross = c.cross

\* A card that PAS_Init has only looked at is as it was, but for its functions.
LEMMA PasFoundHolds ==
    ASSUME NEW c, NEW d, c.kind = "PAS", HoldInv(c), PasInv(c), c.installed = FALSE,
           c.present = TRUE, PasFound(c, d)
    PROVE  HoldInv(d) /\ PasInv(d) /\ MusicKept(c, d)
<1>1. LetGo(c) /\ c.exposed = FALSE /\ c.task = FALSE
  BY DEF HoldInv
<1>2. HoldInv(d)
  BY <1>1 DEF HoldInv, PasFound, LetGo, Fixed
<1>3. PasInv(d)
  BY <1>1 DEF PasInv, PasFound, LetGo, NoneOpen, Fixed
<1>4. MusicKept(c, d)
  BY DEF MusicKept, Music, PasMusic, PasInv, PasFound, Fixed, P!GetCardSettings, P!Ok, P!Failed
<1>5. QED BY <1>2, <1>3, <1>4

\* PAS_Init holds all that it takes, or nothing, and saves the PCM volume.
LEMMA PasInit ==
    ASSUME NEW c, c.kind = "PAS", HoldInv(c), PasInv(c), c.playing = "off", c.callback = "none"
    PROVE  LET d == P!Init(c)
           IN  /\ HoldInv(d) /\ PasInv(d) /\ Fixed(c, d) /\ MusicKept(c, d)
               /\ d.playing = "off" /\ d.callback = "none"
               /\ d.status = "error" \/ d.installed = TRUE
<1> DEFINE saved == P!SaveMasks(c)
           found == P!FindCard(saved)
           set   == [found EXCEPT !.volume.pcm = c.pcm, !.playing = "off", !.callback = "none"]
           held  == P!Reserve(set)
           e     == P!ReplaceInterrupt(held)
           rated == P!SetPlaybackRate([e EXCEPT !.unmuted = TRUE], 11000)
           mixed == P!SetMixMode(rated, P!Mono8)
           d     == P!Init(c)
<1>1. /\ c.installed = TRUE => d = P!Ok(c)
      /\ c.installed = FALSE =>
            IF found.status = "error" THEN d = found
            ELSE IF held.status = "error" THEN d = held
            ELSE d = [mixed EXCEPT !.installed = TRUE]
  BY DEF P!Init, HoldInv
<1> HIDE DEF d
<1>2. saved = [c EXCEPT !.saved = c.masked]
  BY DEF P!SaveMasks
<1> HIDE DEF saved
<1>3. found = (IF saved.present = FALSE THEN [saved EXCEPT !.status = "error"]
               ELSE IF ValidIrq(saved.irq) /\ VerifyChannel(saved.channel)
                    THEN [[saved EXCEPT !.func = TRUE] EXCEPT !.status = "ok"]
                    ELSE [[saved EXCEPT !.func = TRUE] EXCEPT !.status = "error"])
  <2>1. saved.present \in BOOLEAN
    BY <1>2 DEF PasInv
  <2>2. CASE saved.present = TRUE
    <3> DEFINE told == [[saved EXCEPT !.func = TRUE] EXCEPT !.status = "ok"]
    <3>1. P!GetFunctionTable(saved) = told
      BY <2>2 DEF P!GetFunctionTable, P!Ok
    <3>2. told.status = "ok" /\ told.irq = saved.irq /\ told.channel = saved.channel
      OBVIOUS
    <3> HIDE DEF told
    <3>3. found = P!GetCardSettings(told)
      BY <3>1, <3>2 DEF P!FindCard
    <3>4. CASE ValidIrq(saved.irq) /\ VerifyChannel(saved.channel)
      <4>1. found = [told EXCEPT !.status = "ok"]
        BY <3>2, <3>3, <3>4
           DEF P!GetCardSettings, P!Ok, P!ValidIrq, P!VerifyChannel, ValidIrq, VerifyChannel
      <4>2. [told EXCEPT !.status = "ok"] = told
        BY <3>2 DEF told
      <4>3. QED BY <2>2, <3>4, <4>1, <4>2 DEF told
    <3>5. CASE ~(ValidIrq(saved.irq) /\ VerifyChannel(saved.channel))
      <4>1. found = [told EXCEPT !.status = "error"]
        BY <3>2, <3>3, <3>5
           DEF P!GetCardSettings, P!Failed, P!ValidIrq, P!VerifyChannel, ValidIrq,
               VerifyChannel
      <4>2. [told EXCEPT !.status = "error"] =
                [[saved EXCEPT !.func = TRUE] EXCEPT !.status = "error"]
        BY DEF told
      <4>3. QED BY <2>2, <3>5, <4>1, <4>2
    <3>6. QED BY <3>4, <3>5
  <2>3. CASE saved.present = FALSE
    BY <2>3 DEF P!FindCard, P!GetFunctionTable, P!Failed
  <2>4. QED BY <2>1, <2>2, <2>3
<1> HIDE DEF found, set
<1>4. held = Reserve(set) /\ e = ReplaceInterrupt(held)
  BY Copies, LongCopies
<1> HIDE DEF held, e
<1>5. Same(e, rated) /\ Works(e, [rated EXCEPT !.rate = e.rate]) /\ rated.saved = e.saved
  BY DEF Same, Kept, Settings, Fixed, Held, Works, P!SetPlaybackRate
<1> HIDE DEF rated
<1>6. Same(rated, mixed) /\ mixed.channel = rated.channel
  BY DEF Same, Kept, Settings, Fixed, Held, P!SetMixMode, P!SetPlaybackRate
<1> HIDE DEF mixed
<1>7. CASE c.installed = TRUE
  <2>1. d = [c EXCEPT !.status = "ok"]
    BY <1>1, <1>7 DEF P!Ok
  <2>2. Same(c, d) /\ d.channel = c.channel
    BY <2>1 DEF Same, Kept, Settings, Fixed, Held
  <2>3. HoldInv(d) /\ PasInv(d)
    BY <2>2, HoldSame, PasSame DEF Same
  <2>4. MusicKept(c, d)
    BY <2>2, KeptMusic DEF Same, Kept
  <2>5. QED BY <1>7, <2>2, <2>3, <2>4 DEF Same, Kept, Settings, d
<1>8. CASE c.installed = FALSE /\ found.status = "error"
  <2>1. d = found
    BY <1>1, <1>8
  <2>2. /\ Fixed(c, d) /\ d.interface = c.interface /\ d.irq = c.irq
        /\ d.channel = c.channel /\ d.installed = FALSE /\ d.pcm = c.pcm /\ d.fm = c.fm
        /\ d.volume = c.volume /\ d.vector = c.vector /\ d.stacks = c.stacks
        /\ d.locked = c.locked /\ d.task = c.task /\ d.masked = c.masked
        /\ d.exposed = c.exposed /\ d.playing = "off" /\ d.callback = "none"
        /\ d.dma = c.dma /\ d.cross = c.cross /\ d.status = "error"
    BY <1>2, <1>3, <1>8, <2>1 DEF Fixed
  <2>3. d.func = IF c.present = FALSE THEN c.func ELSE TRUE
    BY <1>2, <1>3, <1>8, <2>1
  <2>4. HoldInv(d)
    BY <1>8, <2>2 DEF HoldInv, LetGo, Fixed
  <2>5. PasInv(d)
    BY <1>8, <2>2, <2>3 DEF PasInv, NoneOpen, Fixed
  <2>6. MusicKept(c, d)
    BY <1>8, <2>2, <2>3
       DEF MusicKept, Music, PasMusic, PasInv, Fixed, P!GetCardSettings, P!Ok, P!Failed
  <2>7. QED BY <2>2, <2>4, <2>5, <2>6 DEF d
<1>9. CASE c.installed = FALSE /\ found.status # "error"
  <2>1. /\ found = [[saved EXCEPT !.func = TRUE] EXCEPT !.status = "ok"]
        /\ ValidIrq(c.irq) /\ VerifyChannel(c.channel) /\ c.present = TRUE
    <3>1. c.present \in BOOLEAN
      BY DEF PasInv
    <3>2. QED BY <1>2, <1>3, <1>9, <3>1
  <2>2. PasFound(c, set)
    BY <1>2, <1>9, <2>1 DEF set, PasFound, PasInv, Fixed
  <2>3. HoldInv(set) /\ PasInv(set) /\ MusicKept(c, set)
    BY <1>9, <2>1, <2>2, PasFoundHolds
  <2>4. /\ set.installed = FALSE /\ set.kind = "PAS" /\ Fixed(c, set) /\ set.saved = set.masked
        /\ set.playing = "off" /\ set.callback = "none"
    BY <2>2 DEF PasFound, Fixed
  <2>5. LetGo(set) /\ set.task = FALSE /\ set.exposed = FALSE
    BY <2>3, <2>4 DEF HoldInv
  <2>6. /\ Kept(set, held) /\ Works(set, held) /\ held.vector = NoVectors
        /\ held.saved = set.saved /\ held.task = FALSE /\ held.masked = set.masked
        /\ held.exposed = FALSE /\ held.playing = "off" /\ held.callback = "none"
        /\ \/ held.status = "ok" /\ held.stacks = 1 /\ held.locked = TRUE
           \/ held.status = "error" /\ held.stacks = 0 /\ held.locked = FALSE
    BY <1>4, <2>4, <2>5, Reserves DEF LetGo
  <2>7. CASE held.status = "error"
    <3>1. d = held
      BY <1>1, <1>9, <2>7
    <3>2. HoldInv(d)
      BY <2>3, <2>4, <2>5, <2>6, <2>7, <3>1 DEF HoldInv, LetGo, Kept, Settings, Fixed
    <3>3. PasInv(d)
      BY <2>3, <2>4, <2>6, <3>1, PasSame DEF Works
    <3>4. MusicKept(set, d)
      BY <2>6, <3>1, KeptMusic DEF Kept, Works
    <3>5. QED BY <2>3, <2>4, <2>6, <2>7, <3>1, <3>2, <3>3, <3>4
       DEF Kept, Settings, Fixed, MusicKept, d
  <2>8. CASE held.status # "error"
    <3>1. d = [mixed EXCEPT !.installed = TRUE]
      BY <1>1, <1>9, <2>8
    <3>2. held.irq \in Vectored
      BY <2>1, <2>2, <2>6 DEF ValidIrq, Vectored, PasFound, Kept, Settings
    <3>3. /\ Kept(held, e) /\ Works(held, e)
          /\ e.vector = [NoVectors EXCEPT ![held.irq] = "driver"]
          /\ e.old = "dos" /\ e.stacks = 1 /\ e.locked = TRUE /\ e.saved = held.saved
          /\ e.task = FALSE /\ e.masked = held.masked /\ e.exposed = FALSE
          /\ e.playing = held.playing /\ e.callback = held.callback
      BY <1>4, <2>6, <2>8, <3>2, Replaces
    <3>4. /\ Settings(set, mixed) /\ mixed.channel = set.channel /\ mixed.cross = set.cross
          /\ mixed.dma = set.dma
          /\ mixed.vector = [NoVectors EXCEPT ![held.irq] = "driver"] /\ mixed.irq = held.irq
          /\ mixed.old = "dos" /\ mixed.stacks = 1 /\ mixed.locked = TRUE
          /\ mixed.saved = set.masked /\ mixed.task = FALSE /\ mixed.masked = set.masked
          /\ mixed.exposed = FALSE /\ mixed.playing = "off" /\ mixed.callback = "none"
      BY <1>5, <1>6, <2>4, <2>6, <3>3 DEF Same, Kept, Settings, Fixed, Held, Works
    <3>5. /\ Settings(set, d) /\ d.channel = set.channel /\ d.cross = set.cross
          /\ d.dma = set.dma /\ d.installed = TRUE
          /\ d.vector = [NoVectors EXCEPT ![held.irq] = "driver"] /\ d.irq = held.irq
          /\ d.old = "dos" /\ d.stacks = 1 /\ d.locked = TRUE /\ d.saved = set.masked
          /\ d.task = FALSE /\ d.masked = set.masked /\ d.exposed = FALSE
          /\ d.playing = "off" /\ d.callback = "none"
      BY <3>1, <3>4 DEF Settings, Fixed
    <3>6. HoldInv(d)
      BY <2>4, <2>5, <3>2, <3>5 DEF HoldInv, Hooked, LetGo, Settings, Fixed
    <3>7. PasInv(d)
      <4>1. d.func = TRUE /\ VerifyChannel(d.channel) /\ d.volume.pcm = d.user.voice
        BY <1>9, <2>1, <2>2, <3>5 DEF PasFound, PasInv, Settings, Fixed
      <4>2. QED BY <2>3, <2>4, <3>5, <4>1 DEF PasInv, NoneOpen, Settings, Fixed
    <3>8. MusicKept(set, d)
      BY <3>5, KeptMusic
    <3>9. QED BY <2>3, <2>4, <3>5, <3>6, <3>7, <3>8 DEF Settings, Fixed, MusicKept, d
  <2>9. QED BY <2>7, <2>8
<1>10. QED BY <1>7, <1>8, <1>9 DEF HoldInv

\* A page over and the interrupt of PAS_ServiceInterrupt.
LEMMA PasInterrupted ==
    ASSUME NEW c, c.kind = "PAS", HoldInv(c), PasInv(c), Moves(c)
    PROVE  LET d == Interrupted(c)
           IN  HoldInv(d) /\ PasInv(d) /\ Ran(c, d)
<1> DEFINE t  == Transferred(c, c.channel, CardDoes(c).bytes)
           d  == Interrupted(c)
<1>1. c.playing # "off" /\ PasPlays(c) /\ OnlyOpen(c, c.channel)
  BY DEF Moves, CardDoes, P!Does, PasInv, PasPlays
<1>2. /\ OnlyOpen(t, c.channel) /\ Ran(c, t) /\ t.cross = c.cross /\ t.gates = c.gates
      /\ t.sixteen = c.sixteen /\ t.count = c.count /\ t.interval = c.interval
  BY <1>1, PageMoves
<1>3. CardDoes(c).channel = c.channel /\ c.channel # Undefined
  BY <1>1 DEF CardDoes, P!Does, OnlyOpen, VerifyChannel, Undefined
<1>4. t.kind = "PAS"
  BY <1>2 DEF Ran, Kept, Settings, Fixed
<1>5. d = t \/ d = NextPage(t)
  BY <1>3, <1>4 DEF Interrupted, Moved, CardPageDone, CardService
<1> HIDE DEF t, d
<1>6. /\ Ran(c, d) /\ d.dma = t.dma /\ d.cross = c.cross /\ d.gates = c.gates
      /\ d.sixteen = c.sixteen /\ d.count = c.count /\ d.interval = c.interval
  <2>1. CASE d = t
    BY <1>2, <2>1
  <2>2. CASE d = NextPage(t)
    BY <1>2, <2>2 DEF NextPage, Ran, Kept, Settings, Fixed, Held
  <2>3. QED BY <1>5, <2>1, <2>2
<1>7. HoldInv(d)
  BY <1>6 DEF HoldInv, Hooked, LetGo, Ran, Kept, Settings, Fixed, Held, Reaches
<1>8. PasPlays(d)
  BY <1>1, <1>2, <1>6 DEF PasPlays, OnlyOpen, Ran, Kept, Settings, Fixed
<1>9. PasInv(d)
  BY <1>1, <1>6, <1>8 DEF PasInv, Ran, Kept, Settings, Fixed
<1>10. QED BY <1>6, <1>7, <1>9 DEF d

--------------------------------------------------------------------------------
\* The Soundscape.
LEMMA SoundscapeKept ==
    ASSUME NEW c, NEW d, SoundscapeHas(c), Kept(c, d), d.channel = c.channel,
           d.cdrom = c.cdrom, d.codec = c.codec, d.sbline = c.sbline
    PROVE  SoundscapeHas(d)
<1>1. S!Listed(c) => S!Listed(d)
  BY DEF S!Listed, Kept, Settings, Fixed
<1>2. QED BY <1>1 DEF SoundscapeHas, Kept, Settings, Fixed

\* A change of what does not matter to the invariant of the Soundscape.
LEMMA SoundscapeSame ==
    ASSUME NEW c, NEW d, SoundscapeInv(c), c.playing = "off", d.playing = "off", Kept(c, d),
           d.channel = c.channel, d.run = c.run, d.dma = c.dma, d.cdrom = c.cdrom,
           d.codec = c.codec, d.sbline = c.sbline
    PROVE  SoundscapeInv(d)
BY SoundscapeKept DEF SoundscapeInv, NoneOpen

\* SOUNDSCAPE_StopPlayback closes the channel and the line, and the codec does nothing.
LEMMA SoundscapeStop ==
    ASSUME NEW c, c.kind = "SS", HoldInv(c), SoundscapeInv(c), c.installed = TRUE
    PROVE  LET d == S!StopPlayback(c)
           IN  /\ HoldInv(d) /\ SoundscapeInv(d) /\ Kept(c, d) /\ d.playing = "off"
               /\ d.mode = c.mode /\ d.callback = c.callback /\ d.status = c.status
               /\ d.channel = c.channel /\ d.fault = c.fault
               /\ d.cdrom = c.cdrom /\ d.codec = c.codec /\ d.sbline = c.sbline
<1> DEFINE i == S!DisableInterrupt(c)
           d == S!StopPlayback(c)
<1>1. d = [S!EndTransfer([i EXCEPT !.run = FALSE], c.channel) EXCEPT !.playing = "off"]
  BY DEF S!StopPlayback, S!DisableInterrupt, S!Watched
<1> HIDE DEF d
<1>2. i.masked = c.saved /\ i.exposed = FALSE
  BY Interrupts, Copies
<1>3. /\ Kept(c, i) /\ Held(c, i) /\ Works(c, i) /\ i.callback = c.callback
      /\ i.status = c.status /\ i.fault = c.fault
  BY DEF Kept, Settings, Fixed, Held, Works, S!DisableInterrupt, S!Watched
<1> HIDE DEF i
<1>4. /\ Kept(i, d) /\ Held(i, d) /\ d.masked = i.masked /\ d.exposed = i.exposed
      /\ d.playing = "off" /\ d.mode = i.mode /\ d.callback = i.callback
      /\ d.status = i.status /\ d.channel = i.channel /\ d.fault = i.fault
      /\ d.cdrom = i.cdrom /\ d.codec = i.codec /\ d.sbline = i.sbline /\ d.run = FALSE
  BY <1>1 DEF Kept, Settings, Fixed, Held, S!EndTransfer
<1>5. VerifyChannel(c.channel) => d.dma = [i.dma EXCEPT ![c.channel] = Idle]
  BY <1>1 DEF S!EndTransfer, S!VerifyChannel, VerifyChannel, S!Idle, Idle
<1>6. Kept(c, d) /\ Held(c, d)
  BY <1>3, <1>4 DEF Kept, Settings, Fixed, Held
<1>7. HoldInv(d)
  BY <1>2, <1>4, <1>6, HoldStopped
<1>8. NoneOpen(d)
  <2>1. /\ VerifyChannel(c.channel) /\ DOMAIN c.dma = Channels
        /\ \A ch \in Channels \ {c.channel} : c.dma[ch] = Idle
    BY DEF SoundscapeInv, SoundscapeHas, SoundscapePlays, OnlyOpen, NoneOpen, Channels,
           S!Listed, S!VerifyChannel, VerifyChannel
  <2>2. QED BY <1>3, <1>5, <2>1 DEF NoneOpen, Channels, VerifyChannel, Works
<1>9. SoundscapeInv(d)
  BY <1>3, <1>4, <1>6, <1>8, SoundscapeKept DEF SoundscapeInv, Works
<1>10. QED BY <1>3, <1>4, <1>6, <1>7, <1>9 DEF d, Works

\* SOUNDSCAPE_SetMixMode sets any mode: the codec plays them all.
LEMMA SoundscapeMode ==
    ASSUME NEW c, NEW mode \in Modes, c.kind = "SS", HoldInv(c), SoundscapeInv(c),
           c.installed = TRUE, c.playing = "off"
    PROVE  LET d == S!SetMixMode(c, mode)
           IN  /\ HoldInv(d) /\ SoundscapeInv(d) /\ Same(c, d) /\ d.mode = Fit(c, mode)
               /\ d.channel = c.channel /\ d.status = c.status
<1> DEFINE d == S!SetMixMode(c, mode)
<1>1. /\ Same(c, d) /\ d.channel = c.channel /\ d.status = c.status /\ d.mode = mode
      /\ d.cdrom = c.cdrom /\ d.codec = c.codec /\ d.sbline = c.sbline
  BY DEF Same, Held, Kept, Settings, Fixed, S!SetMixMode, S!Format
<1> HIDE DEF d
<1>2. d.mode = Fit(c, mode)
  BY <1>1 DEF Fit, Able, MinOf, Modes
<1>3. SoundscapeInv(d)
  BY <1>1, SoundscapeSame DEF Same
<1>4. HoldInv(d)
  BY <1>1, HoldSame
<1>5. QED BY <1>1, <1>2, <1>3, <1>4 DEF d

\* SOUNDSCAPE_BeginBufferedPlayback: the codec counts and formats what the driver has
\* the DMA controller offer.
LEMMA SoundscapeBegin ==
    ASSUME NEW c, NEW divisions, NEW rate, NEW mode \in Modes, NEW callback,
           c.kind = "SS", HoldInv(c), SoundscapeInv(c), c.installed = TRUE
    PROVE  LET d == S!BeginBuffered(c, "play", divisions, rate, mode, callback)
           IN  /\ HoldInv(d) /\ SoundscapeInv(d) /\ Kept(c, d) /\ d.channel = c.channel
               /\ Underway(d, "play", divisions, mode, callback)
<1> DEFINE s == IF c.playing # "off" THEN S!StopPlayback(c) ELSE c
           t == S!SetMixMode(s, mode)
           u == S!SetupDMABuffer(t, "play")
           x == [S!SetPlaybackRate(u, rate) EXCEPT !.callback = callback]
           y == S!EnableInterrupt(x)
           z == [y EXCEPT !.length = TotalBufferSize \div divisions]
           v == [z EXCEPT !.count = S!SampleLength(z, z.length)]
           w == S!EnableInterrupt(v)
           d == S!BeginBuffered(c, "play", divisions, rate, mode, callback)
<1>1. /\ HoldInv(s) /\ SoundscapeInv(s) /\ Kept(c, s) /\ s.playing = "off"
      /\ s.channel = c.channel /\ s.cdrom = c.cdrom /\ s.codec = c.codec /\ s.sbline = c.sbline
  <2>1. CASE c.playing # "off"
    BY <2>1, SoundscapeStop
  <2>2. CASE c.playing = "off"
    BY <2>2 DEF Kept, Settings, Fixed
  <2>3. QED BY <2>1, <2>2
<1>2. s.kind = "SS" /\ s.installed = TRUE /\ Fit(s, mode) = mode
  BY <1>1 DEF Kept, Settings, Fixed, Fit, Able, MinOf, Modes
<1> HIDE DEF s
<1>3. HoldInv(t) /\ SoundscapeInv(t) /\ Same(s, t) /\ t.mode = mode /\ t.channel = c.channel
  <2>1. /\ HoldInv(t) /\ SoundscapeInv(t) /\ Same(s, t) /\ t.mode = Fit(s, mode)
        /\ t.channel = s.channel
    BY <1>1, <1>2, SoundscapeMode
  <2> HIDE DEF t
  <2>2. QED BY <1>1, <1>2, <2>1
<1> HIDE DEF t
<1>4. /\ Kept(c, t) /\ t.playing = "off" /\ t.kind = "SS" /\ t.installed = TRUE
      /\ VerifyChannel(t.channel) /\ NoneOpen(t)
  BY <1>1, <1>3 DEF Same, Kept, Settings, Fixed, SoundscapeInv, SoundscapeHas, S!Listed,
     S!VerifyChannel, VerifyChannel
<1>5. u = [[t EXCEPT !.dma[t.channel] = [size |-> TotalBufferSize, pos |-> 0, to |-> "play"],
                     !.status = "ok"] EXCEPT !.current = 0]
  BY <1>4 DEF S!SetupDMABuffer, S!SetupTransfer, S!Ok, S!VerifyChannel, VerifyChannel
<1> HIDE DEF u
<1>6. /\ Kept(t, u) /\ Held(t, u) /\ u.masked = t.masked /\ u.exposed = t.exposed
      /\ u.playing = "off" /\ u.status = "ok" /\ u.mode = t.mode /\ u.channel = t.channel
      /\ u.cdrom = t.cdrom /\ u.codec = t.codec /\ u.sbline = t.sbline /\ u.run = t.run
      /\ u.dma = [t.dma EXCEPT ![t.channel] =
                      [size |-> TotalBufferSize, pos |-> 0, to |-> "play"]]
  BY <1>4, <1>5 DEF Kept, Settings, Fixed, Held
<1>7. d = [w EXCEPT !.run = TRUE, !.playing = "play"]
  <2>1. S!SetupDMABuffer(S!SetMixMode(IF c.playing # "off" THEN S!StopPlayback(c) ELSE c,
                                      mode), "play") = u
    BY DEF u, t, s
  <2> HIDE DEF w
  <2>2. d = S!BeginPlayback(z)
    BY <1>6, <2>1 DEF S!BeginBuffered
  <2> HIDE DEF z, d
  <2>3. QED BY <2>2 DEF S!BeginPlayback, w
<1>8. /\ Kept(u, x) /\ Held(u, x) /\ x.masked = u.masked /\ x.exposed = u.exposed
      /\ x.playing = "off" /\ x.status = u.status /\ x.mode = u.mode /\ x.channel = u.channel
      /\ x.cdrom = u.cdrom /\ x.codec = u.codec /\ x.sbline = u.sbline /\ x.dma = u.dma
      /\ x.callback = callback
      /\ x.format = [rate |-> x.rate, bits |-> u.mode.bits, channels |-> u.mode.channels]
  BY <1>6 DEF Kept, Settings, Fixed, Held, S!SetPlaybackRate, S!Format
<1> HIDE DEF x, d
<1>9. /\ Kept(c, x) /\ Kept(t, x) /\ HoldInv(x) /\ x.installed = TRUE /\ x.kind = "SS"
  <2>1. /\ Kept(c, x) /\ Kept(t, x) /\ Held(t, x)
    BY <1>4, <1>6, <1>8 DEF Kept, Settings, Fixed, Held
  <2>2. x.installed = TRUE /\ x.kind = "SS"
    BY <2>1, <1>4 DEF Kept, Settings, Fixed
  <2>3. HoldInv(x)
    BY <1>3, <1>4, <1>6, <1>8, <2>1, <2>2 DEF HoldInv, Hooked, Kept, Settings, Fixed, Held
  <2>4. QED BY <2>1, <2>2, <2>3
<1>10. y.masked = x.masked \ Lines(x.irq) /\ y.exposed = FALSE
  BY <1>9, Interrupts, Copies
<1>11. /\ Kept(x, y) /\ Held(x, y) /\ y.playing = "off" /\ y.status = x.status
       /\ y.mode = x.mode /\ y.channel = x.channel /\ y.cdrom = x.cdrom /\ y.codec = x.codec
       /\ y.sbline = x.sbline /\ y.dma = x.dma /\ y.callback = x.callback
       /\ y.format = x.format /\ y.rate = x.rate
  BY <1>8 DEF Kept, Settings, Fixed, Held, S!EnableInterrupt, S!Watched
<1> HIDE DEF y
<1>12. /\ Kept(y, v) /\ Held(y, v) /\ v.masked = y.masked /\ v.exposed = y.exposed
       /\ v.playing = "off" /\ v.status = y.status /\ v.mode = y.mode
       /\ v.channel = y.channel /\ v.cdrom = y.cdrom /\ v.codec = y.codec
       /\ v.sbline = y.sbline /\ v.dma = y.dma /\ v.callback = y.callback
       /\ v.format = y.format /\ v.rate = y.rate
       /\ v.length = TotalBufferSize \div divisions /\ v.count = S!SampleLength(v, v.length)
  BY <1>11 DEF Kept, Settings, Fixed, Held, S!SampleLength
<1> HIDE DEF z, v
<1>13. Kept(c, v) /\ Kept(x, v) /\ HoldInv(v) /\ v.installed = TRUE /\ v.kind = "SS"
  <2>1. Kept(c, v) /\ Kept(x, v) /\ Held(x, v)
    BY <1>9, <1>11, <1>12 DEF Kept, Settings, Fixed, Held
  <2>2. v.installed = TRUE /\ v.kind = "SS"
    BY <2>1, <1>9 DEF Kept, Settings, Fixed
  <2>3. v.masked \ Lines(v.irq) = v.saved \ Lines(v.irq)
    <3>1. x.masked \ Lines(x.irq) = x.saved \ Lines(x.irq)
      BY <1>9 DEF HoldInv, Hooked
    <3>2. QED BY <1>10, <1>12, <2>1, <3>1 DEF Kept, Settings, Held
  <2>4. HoldInv(v)
    BY <1>8, <1>9, <1>10, <1>12, <2>1, <2>2, <2>3
       DEF HoldInv, Hooked, Kept, Settings, Fixed, Held
  <2>5. QED BY <2>1, <2>2, <2>4
<1>14. w.masked = v.masked \ Lines(v.irq) /\ w.exposed = FALSE
  BY <1>13, Interrupts, Copies
<1>15. /\ Kept(v, w) /\ Held(v, w) /\ w.status = v.status
       /\ w.mode = v.mode /\ w.channel = v.channel /\ w.cdrom = v.cdrom /\ w.codec = v.codec
       /\ w.sbline = v.sbline /\ w.dma = v.dma /\ w.callback = v.callback
       /\ w.format = v.format /\ w.rate = v.rate /\ w.length = v.length /\ w.count = v.count
  BY DEF Kept, Settings, Fixed, Held, S!EnableInterrupt, S!Watched
<1> HIDE DEF w
<1>16. /\ Kept(v, d) /\ Held(v, d) /\ d.masked = w.masked /\ d.exposed = FALSE
       /\ d.playing = "play" /\ d.run = TRUE /\ d.status = v.status /\ d.mode = v.mode
       /\ d.channel = v.channel /\ d.cdrom = v.cdrom /\ d.codec = v.codec
       /\ d.sbline = v.sbline /\ d.dma = v.dma /\ d.callback = v.callback
       /\ d.format = v.format /\ d.rate = v.rate /\ d.length = v.length /\ d.count = v.count
  BY <1>7, <1>14, <1>15 DEF Kept, Settings, Fixed, Held
<1>17. HoldInv(d)
  BY <1>13, <1>14, <1>16, HoldStarted DEF Runs
<1>18. /\ Kept(c, d) /\ Kept(t, d) /\ d.status = "ok" /\ d.mode = mode /\ d.callback = callback
       /\ d.length = TotalBufferSize \div divisions /\ d.channel = c.channel
  BY <1>3, <1>6, <1>8, <1>9, <1>11, <1>12, <1>13, <1>16 DEF Kept, Settings, Fixed
<1>19. SoundscapePlays(d)
  <2>1. d.count = S!SampleLength(d, d.length)
    BY <1>12, <1>16 DEF S!SampleLength
  <2>2. d.format = [rate |-> d.rate, bits |-> d.mode.bits, channels |-> d.mode.channels]
    BY <1>8, <1>11, <1>12, <1>16
  <2>3. OnlyOpen(d, d.channel)
    <3>1. d.dma = [t.dma EXCEPT ![d.channel] =
                      [size |-> TotalBufferSize, pos |-> 0, to |-> "play"]]
      BY <1>3, <1>6, <1>8, <1>11, <1>12, <1>16, <1>18
    <3>2. d.channel \in Channels /\ VerifyChannel(d.channel)
      BY <1>3, <1>4, <1>18 DEF VerifyChannel, Channels
    <3>3. QED BY <1>4, <1>16, <3>1, <3>2 DEF OnlyOpen, NoneOpen
  <2>4. QED BY <1>16, <1>18, <2>1, <2>2, <2>3 DEF SoundscapePlays
<1>20. SoundscapeInv(d)
  <2>1. d.cdrom = t.cdrom /\ d.codec = t.codec /\ d.sbline = t.sbline /\ d.channel = t.channel
    BY <1>3, <1>6, <1>8, <1>11, <1>12, <1>16, <1>18
  <2>2. QED BY <1>3, <1>16, <1>18, <1>19, <2>1, SoundscapeKept DEF SoundscapeInv
<1>21. QED BY <1>16, <1>17, <1>18, <1>20 DEF d, Underway

\* SOUNDSCAPE_FindCard reads the file of the card and changes nothing that others see.
LEMMA SoundscapeFind ==
    ASSUME NEW c, c.kind = "SS", HoldInv(c), SoundscapeInv(c)
    PROVE  LET d == S!FindCard(c)
           IN  /\ HoldInv(d) /\ SoundscapeInv(d) /\ Fixed(c, d) /\ MusicKept(c, d)
               /\ Held(c, d) /\ d.masked = c.masked
               /\ d.playing = c.playing /\ d.callback = c.callback /\ d.installed = c.installed
               /\ d.mode = c.mode /\ d.length = c.length /\ d.rate = c.rate
               /\ c.playing # "off" => d.channel = c.channel
               /\ d.status = "ok" => d.found = TRUE
               /\ d.status \in {"ok", "error"}
<1> DEFINE d == S!FindCard(c)
<1>1. /\ c.found = TRUE => d = [c EXCEPT !.status = "ok"]
      /\ c.found = FALSE /\ ~S!Listed(c) => d = [c EXCEPT !.status = "error"]
      /\ c.found = FALSE /\ S!Listed(c) =>
            d = [[c EXCEPT !.irq = S!WaveIrq(c.ini.irq), !.channel = c.ini.channel,
                           !.cdrom = c.codec, !.found = TRUE] EXCEPT !.status = "ok"]
  BY DEF S!FindCard, S!Ok, S!Failed
<1> HIDE DEF d
<1>2. c.found \in BOOLEAN /\ SoundscapeHas(c)
  BY DEF SoundscapeInv, SoundscapeHas
<1>3. CASE c.found = TRUE \/ ~S!Listed(c)
  <2>1. d = [c EXCEPT !.status = "ok"] \/ d = [c EXCEPT !.status = "error"]
    BY <1>1, <1>2, <1>3
  <2>2. /\ Same(c, d) /\ d.mode = c.mode /\ d.length = c.length /\ d.rate = c.rate
        /\ d.channel = c.channel /\ d.cdrom = c.cdrom /\ d.codec = c.codec
        /\ d.sbline = c.sbline /\ d.format = c.format /\ d.count = c.count
    <3>1. CASE d = [c EXCEPT !.status = "ok"]
      BY <3>1 DEF Same, Kept, Settings, Fixed, Held
    <3>2. CASE d = [c EXCEPT !.status = "error"]
      BY <3>2 DEF Same, Kept, Settings, Fixed, Held
    <3>3. QED BY <2>1, <3>1, <3>2
  <2>3. HoldInv(d)
    BY <2>2, HoldSame
  <2>4. SoundscapeHas(d)
    BY <1>2, <2>2, SoundscapeKept DEF Same
  <2>5. SoundscapeInv(d)
    BY <2>2, <2>4 DEF SoundscapeInv, SoundscapePlays, NoneOpen, OnlyOpen, Same, S!SampleLength
  <2>6. MusicKept(c, d)
    BY <2>2, KeptMusic DEF Same, Kept
  <2>7. d.status \in {"ok", "error"} /\ (d.status = "ok" => d.found = TRUE)
    <3>1. CASE c.found = TRUE
      <4>1. d = [c EXCEPT !.status = "ok"]
        BY <1>1, <3>1
      <4>2. d.status = "ok" /\ d.found = c.found
        BY <4>1
      <4>3. QED BY <3>1, <4>2
    <3>2. CASE c.found = FALSE
      <4>1. d = [c EXCEPT !.status = "error"]
        BY <1>1, <1>3, <3>2
      <4>2. d.status = "error"
        BY <4>1
      <4>3. QED BY <4>2
    <3>3. QED BY <1>2, <3>1, <3>2
  <2>8. QED BY <2>2, <2>3, <2>5, <2>6, <2>7 DEF Same, Kept, Settings, d
<1>4. CASE c.found = FALSE /\ S!Listed(c)
  <2>1. d = [[c EXCEPT !.irq = S!WaveIrq(c.ini.irq), !.channel = c.ini.channel,
                       !.cdrom = c.codec, !.found = TRUE] EXCEPT !.status = "ok"]
    BY <1>1, <1>4
  <2>2. c.installed = FALSE /\ c.playing = "off"
    BY <1>4 DEF SoundscapeInv, SoundscapeHas, HoldInv, LetGo
  <2>3. /\ Fixed(c, d) /\ Held(c, d) /\ d.masked = c.masked /\ d.exposed = c.exposed
        /\ d.playing = c.playing /\ d.callback = c.callback /\ d.installed = c.installed
        /\ d.interface = c.interface /\ d.mode = c.mode /\ d.length = c.length
        /\ d.rate = c.rate /\ d.dma = c.dma /\ d.run = c.run
        /\ d.codec = c.codec /\ d.sbline = c.sbline /\ d.cdrom = c.codec /\ d.found = TRUE
        /\ d.irq = S!WaveIrq(c.ini.irq) /\ d.channel = c.ini.channel /\ d.status = "ok"
    BY <2>1 DEF Fixed, Held
  <2>4. HoldInv(d)
    BY <2>2, <2>3 DEF HoldInv, LetGo, Fixed, Held
  <2>5. S!Listed(d)
    BY <1>4, <2>3 DEF S!Listed, Fixed
  <2>6. SoundscapeInv(d)
    BY <1>2, <2>2, <2>3, <2>5 DEF SoundscapeInv, SoundscapeHas, NoneOpen, Fixed
  <2>7. MusicKept(c, d)
    BY <2>3 DEF MusicKept, Music, Fixed
  <2>8. QED BY <2>2, <2>3, <2>4, <2>6, <2>7 DEF d
<1>5. QED BY <1>2, <1>3, <1>4

\* SOUNDSCAPE_Shutdown gives the vector, the stack and the memory back, and the codec
\* and its Sound Blaster lines as the file has them.
LEMMA SoundscapeShutdown ==
    ASSUME NEW c, c.kind = "SS", HoldInv(c), SoundscapeInv(c), c.installed = TRUE
    PROVE  LET d == S!Shutdown(c)
           IN  /\ HoldInv(d) /\ SoundscapeInv(d) /\ Fixed(c, d) /\ MusicKept(c, d)
               /\ d.installed = FALSE
<1> DEFINE s == S!StopPlayback(c)
           still == [s EXCEPT !.pin = FALSE]
           q == IF c.chip = "MMIC" THEN still
                ELSE [still EXCEPT !.codec = IF c.chip = "ODIE" THEN c.cdrom ELSE FALSE,
                                   !.sbline = IF c.ini.sbemul THEN TRUE ELSE @]
           d == S!Shutdown(c)
<1>1. /\ HoldInv(s) /\ SoundscapeInv(s) /\ Kept(c, s) /\ s.playing = "off"
      /\ s.channel = c.channel /\ s.cdrom = c.cdrom /\ s.codec = c.codec /\ s.sbline = c.sbline
  BY SoundscapeStop
<1>2. s.masked = c.saved /\ s.saved = c.saved
  <2>1. s.masked = S!DisableInterrupt(c).masked /\ s.saved = c.saved
    BY DEF S!StopPlayback, S!EndTransfer, S!DisableInterrupt, S!Watched
  <2>2. QED BY <2>1, Interrupts, Copies
<1>3. d = S!Release(q)
  BY DEF S!Shutdown
<1> HIDE DEF s, d
<1>4. /\ Kept(s, q) /\ Held(s, q) /\ q.masked = s.masked /\ q.exposed = s.exposed
      /\ q.playing = "off" /\ q.callback = s.callback /\ q.dma = s.dma /\ q.run = s.run
      /\ q.channel = s.channel /\ q.cdrom = s.cdrom
  BY <1>1 DEF Kept, Settings, Fixed, Held
<1>5. /\ c.chip = "MMIC" => q.codec = s.codec /\ q.sbline = s.sbline
      /\ c.chip # "MMIC" => q.codec = (IF c.chip = "ODIE" THEN c.cdrom ELSE FALSE)
                            /\ q.sbline = c.ini.sbemul
  <2>1. CASE c.chip = "MMIC"
    BY <2>1
  <2>2. CASE c.chip # "MMIC"
    <3>1. s.sbline = FALSE /\ c.ini.sbemul \in BOOLEAN
      BY <1>1, <2>2 DEF SoundscapeInv, SoundscapeHas
    <3>2. q = [still EXCEPT !.codec  = IF c.chip = "ODIE" THEN c.cdrom ELSE FALSE,
                            !.sbline = IF c.ini.sbemul THEN TRUE ELSE s.sbline]
      BY <2>2
    <3> HIDE DEF q
    <3>3. q.codec = (IF c.chip = "ODIE" THEN c.cdrom ELSE FALSE)
      BY <3>2
    <3>4. q.sbline = (IF c.ini.sbemul THEN TRUE ELSE s.sbline)
      BY <3>2
    <3>5. q.sbline = c.ini.sbemul
      BY <3>1, <3>4
    <3>6. QED BY <2>2, <3>3, <3>5
  <2>3. QED BY <2>1, <2>2
<1> HIDE DEF q
<1>6. q.installed = TRUE /\ q.kind = "SS" /\ q.masked = q.saved
  BY <1>1, <1>2, <1>4 DEF Kept, Settings, Fixed, Held
<1>7. HoldInv(q)
  BY <1>1, <1>4, <1>6 DEF HoldInv, Hooked, Kept, Settings, Fixed, Held
<1>8. Settings(q, d) /\ Works(q, d) /\ HoldInv(d) /\ d.installed = FALSE
  BY <1>3, <1>6, <1>7, Releases, LongCopies
<1>9. Fixed(c, d) /\ Settings(c, d)
  BY <1>1, <1>4, <1>8 DEF Kept, Settings, Fixed
<1>10. d.codec = d.user.codec /\ d.sbline = d.ini.sbemul
  <2>1. d.codec = q.codec /\ d.sbline = q.sbline /\ d.user = c.user /\ d.ini = c.ini
    BY <1>8, <1>9 DEF Works, Fixed
  <2>2. SoundscapeHas(c)
    BY DEF SoundscapeInv
  <2>3. CASE c.chip = "MMIC"
    BY <1>1, <1>5, <2>1, <2>2, <2>3 DEF SoundscapeHas
  <2>4. CASE c.chip # "MMIC"
    BY <1>1, <1>5, <2>1, <2>2, <2>4 DEF SoundscapeHas
  <2>5. QED BY <2>3, <2>4
<1>11. d.playing = "off" /\ d.run = FALSE /\ NoneOpen(d)
  BY <1>1, <1>4, <1>8 DEF SoundscapeInv, HoldInv, LetGo, Works, NoneOpen
<1>12. SoundscapeHas(d)
  <2>1. S!Listed(c) => S!Listed(d)
    BY <1>9 DEF S!Listed, Fixed
  <2>2. d.channel = c.channel /\ d.cdrom = c.cdrom
    BY <1>1, <1>4, <1>8 DEF Works
  <2>3. QED BY <1>8, <1>9, <1>10, <2>1, <2>2 DEF SoundscapeInv, SoundscapeHas, Settings, Fixed
<1>13. MusicKept(c, d)
  BY <1>9, KeptMusic
<1>14. QED BY <1>8, <1>9, <1>11, <1>12, <1>13 DEF SoundscapeInv, d

\* The Soundscape takes the vector of its card and turns the codec on.
LEMMA SoundscapeSetup ==
    ASSUME NEW c, c.kind = "SS", c.installed = TRUE, c.vector = NoVectors, c.stacks = 1,
           c.locked = TRUE, c.task = FALSE, c.exposed = FALSE, c.irq \in Vectored,
           c.saved = c.masked, c.masked = c.user.masked, c.playing = "off", c.run = FALSE,
           NoneOpen(c), c.found = TRUE, S!Listed(c), c.cdrom = c.user.codec,
           c.irq = S!WaveIrq(c.ini.irq), c.channel = c.ini.channel,
           c.chip \in {"ODIE", "OPUS", "MMIC"}, c.ini.sbemul \in BOOLEAN,
           c.chip = "OPUS" => c.user.codec = FALSE,
           c.codec = c.user.codec /\ c.sbline = c.ini.sbemul
    PROVE  LET d == S!Setup(c)
           IN  HoldInv(d) /\ SoundscapeInv(d) /\ Kept(c, d) /\ d.playing = "off"
               /\ d.callback = c.callback
<1> DEFINE quiet == S!DisableInterrupt(c)
           ours  == IF c.chip = "MMIC" THEN quiet
                    ELSE [quiet EXCEPT !.codec = TRUE, !.sbline = FALSE]
           e     == S!ReplaceInterrupt(ours)
           f     == [e EXCEPT !.pin = TRUE]
           d     == S!Setup(c)
<1>1. d = S!EnableInterrupt(f)
  BY DEF S!Setup
<1> HIDE DEF d
<1>2. /\ Kept(c, quiet) /\ Held(c, quiet) /\ Works(c, quiet) /\ quiet.playing = "off"
      /\ quiet.callback = c.callback
  BY DEF Kept, Settings, Fixed, Held, Works, S!DisableInterrupt, S!Watched
<1>3. quiet.masked = c.masked
  BY DEF S!DisableInterrupt, S!Watched
<1>4. quiet.exposed = FALSE
  <2>1. \A irq \in DOMAIN c.vector : c.vector[irq] # "driver"
    BY DEF NoVectors
  <2>2. QED BY <2>1 DEF S!DisableInterrupt, S!Watched
<1> HIDE DEF quiet
<1>5. /\ Kept(c, ours) /\ Held(c, ours) /\ ours.masked = c.masked /\ ours.exposed = FALSE
      /\ ours.playing = "off" /\ ours.callback = c.callback /\ ours.run = c.run
      /\ ours.dma = c.dma /\ ours.channel = c.channel /\ ours.cdrom = c.cdrom
  BY <1>2, <1>3, <1>4 DEF Kept, Settings, Fixed, Held, Works
<1>6. IF c.chip = "MMIC" THEN ours.codec = c.codec /\ ours.sbline = c.sbline
      ELSE ours.codec = TRUE /\ ours.sbline = FALSE
  <2>1. CASE c.chip = "MMIC"
    BY <1>2, <2>1 DEF Works
  <2>2. CASE c.chip # "MMIC"
    BY <1>2, <2>2 DEF Works
  <2>3. QED BY <2>1, <2>2
<1> HIDE DEF ours
<1>7. /\ ours.vector = NoVectors /\ ours.stacks = 1 /\ ours.locked = TRUE /\ ours.task = FALSE
      /\ ours.irq = c.irq /\ ours.installed = TRUE /\ ours.kind = "SS"
  BY <1>5 DEF Kept, Settings, Fixed, Held
<1>8. /\ Kept(ours, e) /\ Works(ours, e) /\ e.vector = [NoVectors EXCEPT ![c.irq] = "driver"]
      /\ e.old = "dos" /\ e.stacks = 1 /\ e.locked = TRUE /\ e.saved = ours.saved
      /\ e.task = FALSE /\ e.masked = ours.masked /\ e.exposed = FALSE
      /\ e.playing = "off" /\ e.callback = ours.callback
  <2> DEFINE r == ReplaceInterrupt(ours)
  <2>1. e = r /\ ours.irq \in Vectored /\ ours.exposed = FALSE
    BY <1>5, <1>7, Copies
  <2>2. /\ Kept(ours, r) /\ Works(ours, r)
        /\ r.vector = [NoVectors EXCEPT ![ours.irq] = "driver"]
        /\ r.old = "dos" /\ r.stacks = 1 /\ r.locked = TRUE /\ r.saved = ours.saved
        /\ r.task = FALSE /\ r.masked = ours.masked /\ r.exposed = FALSE
        /\ r.playing = ours.playing /\ r.callback = ours.callback
    BY <1>7, <2>1, Replaces
  <2> HIDE DEF e, r
  <2>3. QED BY <1>5, <1>7, <2>1, <2>2
<1> HIDE DEF e
<1>9. /\ Kept(c, f) /\ f.vector = [NoVectors EXCEPT ![c.irq] = "driver"]
      /\ f.old = "dos" /\ f.stacks = 1 /\ f.locked = TRUE /\ f.saved = c.saved
      /\ f.task = FALSE /\ f.masked = c.masked /\ f.exposed = FALSE
      /\ f.playing = "off" /\ f.callback = c.callback /\ f.run = FALSE /\ f.dma = c.dma
      /\ f.channel = c.channel /\ f.cdrom = c.cdrom
      /\ f.codec = ours.codec /\ f.sbline = ours.sbline
      /\ f.installed = TRUE /\ f.kind = "SS" /\ f.irq = c.irq
  BY <1>5, <1>7, <1>8 DEF Kept, Settings, Fixed, Held, Works
<1> HIDE DEF f
<1>10. HoldInv(f)
  <2>1. Hooked(f)
    BY <1>9 DEF Hooked, Kept, Settings, Fixed
  <2>2. QED BY <1>9, <2>1 DEF HoldInv, Kept, Settings, Fixed
<1>11. d.masked = f.masked \ Lines(f.irq) /\ d.exposed = FALSE
  <2>1. d = EnableInterrupt(f) /\ f.installed = TRUE /\ f.kind # "DSS"
    BY <1>1, <1>9, Copies
  <2>2. QED BY <1>10, <2>1, Interrupts
<1>12. /\ Kept(f, d) /\ Held(f, d) /\ Works(f, d) /\ d.playing = "off"
       /\ d.callback = f.callback
  BY <1>1, <1>9 DEF Kept, Settings, Fixed, Held, Works, S!EnableInterrupt, S!Watched
<1>13. Kept(c, d) /\ d.kind = "SS" /\ d.installed = TRUE
  BY <1>9, <1>12 DEF Kept, Settings, Fixed
<1>14. HoldInv(d)
  BY <1>9, <1>10, <1>11, <1>12, <1>13 DEF HoldInv, Hooked, Kept, Settings, Fixed, Held
<1>15. SoundscapeHas(d)
  <2>1. S!Listed(d)
    BY <1>13 DEF S!Listed, Kept, Settings, Fixed
  <2>2. /\ d.channel = c.channel /\ d.cdrom = c.cdrom /\ d.codec = ours.codec
        /\ d.sbline = ours.sbline
    BY <1>9, <1>12 DEF Works
  <2>3. /\ d.chip = c.chip /\ d.ini = c.ini /\ d.user = c.user /\ d.found = c.found
        /\ d.irq = c.irq /\ d.installed = TRUE
    BY <1>13 DEF Kept, Settings, Fixed
  <2> HIDE DEF d, ours
  <2>4. QED BY <1>6, <2>1, <2>2, <2>3 DEF SoundscapeHas
<1>16. SoundscapeInv(d)
  BY <1>9, <1>12, <1>15 DEF SoundscapeInv, NoneOpen, Works
<1>17. QED BY <1>9, <1>12, <1>13, <1>14, <1>16 DEF d

\* SOUNDSCAPE_Init holds all that it takes, or nothing.
LEMMA SoundscapeInit ==
    ASSUME NEW c, c.kind = "SS", HoldInv(c), SoundscapeInv(c), c.playing = "off",
           c.callback = "none"
    PROVE  LET d == S!Init(c)
           IN  /\ HoldInv(d) /\ SoundscapeInv(d) /\ Fixed(c, d) /\ MusicKept(c, d)
               /\ d.playing = "off" /\ d.callback = "none"
               /\ d.status = "error" \/ d.installed = TRUE
<1> DEFINE x     == IF c.installed THEN S!Shutdown(c) ELSE c
           y     == [S!SaveMasks(x) EXCEPT !.playing = "off", !.callback = "none"]
           found == S!FindCard(y)
           held  == S!Reserve(found)
           g     == [held EXCEPT !.installed = TRUE]
           h     == S!Setup(g)
           rated == S!SetPlaybackRate(h, 11000)
           mixed == S!SetMixMode(rated, S!Mono8)
           d     == S!Init(c)
<1>1. d = (IF found.status = "error" THEN found
           ELSE IF held.status = "error" THEN held ELSE mixed)
  BY DEF S!Init
<1> HIDE DEF d
<1>2. /\ HoldInv(x) /\ SoundscapeInv(x) /\ Fixed(c, x) /\ MusicKept(c, x)
      /\ x.installed = FALSE
  <2>1. CASE c.installed = TRUE
    BY <2>1, SoundscapeShutdown
  <2>2. CASE c.installed = FALSE
    BY <2>2 DEF Fixed, MusicKept
  <2>3. QED BY <2>1, <2>2 DEF HoldInv
<1>3. x.kind = "SS" /\ LetGo(x) /\ x.exposed = FALSE /\ x.task = FALSE
  BY <1>2 DEF HoldInv, Fixed
<1> HIDE DEF x
<1>4. y = [[x EXCEPT !.saved = x.masked] EXCEPT !.playing = "off", !.callback = "none"]
  BY DEF S!SaveMasks
<1> HIDE DEF y
<1>5. /\ Kept(x, y) /\ Works(x, y) /\ y.masked = x.masked /\ y.exposed = x.exposed
      /\ y.vector = x.vector /\ y.stacks = x.stacks /\ y.locked = x.locked
      /\ y.task = x.task /\ y.playing = "off" /\ y.callback = "none"
      /\ y.saved = y.masked
  BY <1>4 DEF Kept, Settings, Fixed, Works
<1>6. /\ HoldInv(y) /\ y.kind = "SS" /\ y.installed = FALSE /\ LetGo(y) /\ y.task = FALSE
      /\ y.exposed = FALSE
  <2>1. y.kind = "SS" /\ y.installed = FALSE /\ y.task = FALSE /\ y.exposed = FALSE
    BY <1>2, <1>3, <1>5 DEF Kept, Settings, Fixed
  <2>2. LetGo(y)
    BY <1>3, <1>5 DEF LetGo, Kept, Settings, Fixed
  <2>3. QED BY <2>1, <2>2 DEF HoldInv, LetGo
<1>7. SoundscapeInv(y)
  BY <1>2, <1>3, <1>5, SoundscapeSame DEF Works, LetGo
<1>8. MusicKept(x, y)
  BY <1>3, <1>5, KeptMusic DEF Kept
<1>9. /\ HoldInv(found) /\ SoundscapeInv(found) /\ Fixed(y, found) /\ MusicKept(y, found)
      /\ Held(y, found) /\ found.masked = y.masked /\ found.playing = y.playing
      /\ found.callback = y.callback /\ found.installed = y.installed
      /\ found.status = "ok" => found.found = TRUE
      /\ found.status \in {"ok", "error"}
  BY <1>6, <1>7, SoundscapeFind
<1> HIDE DEF found
<1>10. /\ Fixed(c, found) /\ MusicKept(c, found) /\ found.kind = "SS"
       /\ found.installed = FALSE /\ found.playing = "off" /\ found.callback = "none"
       /\ found.saved = found.masked
  BY <1>2, <1>5, <1>6, <1>8, <1>9 DEF Kept, Settings, Fixed, MusicKept, Held
<1>11. LetGo(found) /\ found.exposed = FALSE /\ found.task = FALSE
  BY <1>9, <1>10 DEF HoldInv
<1>12. held = Reserve(found)
  BY LongCopies
<1> HIDE DEF held
<1>13. /\ Kept(found, held) /\ Works(found, held) /\ held.vector = NoVectors
       /\ held.saved = found.saved /\ held.task = FALSE /\ held.masked = found.masked
       /\ held.exposed = FALSE /\ held.playing = "off" /\ held.callback = "none"
       /\ \/ held.status = "ok" /\ held.stacks = 1 /\ held.locked = TRUE
          \/ held.status = "error" /\ held.stacks = 0 /\ held.locked = FALSE
  BY <1>10, <1>11, <1>12, Reserves DEF LetGo
<1>14. CASE found.status = "error"
  BY <1>1, <1>9, <1>10, <1>14 DEF d
<1>15. CASE found.status = "ok" /\ held.status = "error"
  <2>1. d = held
    BY <1>1, <1>15
  <2>2. HoldInv(d)
    BY <1>9, <1>10, <1>11, <1>13, <1>15, <2>1 DEF HoldInv, LetGo, Kept, Settings, Fixed
  <2>3. SoundscapeInv(d)
    BY <1>9, <1>10, <1>13, <2>1, SoundscapeSame DEF Works
  <2>4. MusicKept(found, d)
    BY <1>10, <1>13, <2>1, KeptMusic DEF Kept
  <2>5. QED BY <1>10, <1>13, <1>15, <2>1, <2>2, <2>3, <2>4
     DEF Kept, Settings, Fixed, MusicKept, d
<1>16. CASE found.status = "ok" /\ held.status # "error"
  <2>1. d = mixed
    BY <1>1, <1>16
  <2>2. /\ Settings(found, g) /\ Works(found, g) /\ g.vector = NoVectors /\ g.stacks = 1
        /\ g.locked = TRUE /\ g.task = FALSE /\ g.exposed = FALSE /\ g.saved = found.saved
        /\ g.masked = found.masked /\ g.playing = "off" /\ g.callback = "none"
        /\ g.installed = TRUE
    BY <1>13, <1>16 DEF Kept, Settings, Fixed, Works
  <2> HIDE DEF g
  <2>3. SoundscapeHas(found) /\ found.found = TRUE /\ found.run = FALSE /\ NoneOpen(found)
    BY <1>9, <1>10, <1>16 DEF SoundscapeInv
  <2>4. /\ g.kind = "SS" /\ g.saved = g.masked /\ g.masked = g.user.masked /\ g.run = FALSE
        /\ NoneOpen(g) /\ g.found = TRUE
    BY <1>10, <1>11, <2>2, <2>3 DEF LetGo, Settings, Fixed, Works, NoneOpen
  <2>5. /\ S!Listed(g) /\ g.cdrom = g.user.codec /\ g.irq = S!WaveIrq(g.ini.irq)
        /\ g.channel = g.ini.channel /\ g.chip \in {"ODIE", "OPUS", "MMIC"}
        /\ g.ini.sbemul \in BOOLEAN /\ (g.chip = "OPUS" => g.user.codec = FALSE)
        /\ g.codec = g.user.codec /\ g.sbline = g.ini.sbemul
    <3>1. S!Listed(g)
      BY <2>2, <2>3 DEF SoundscapeHas, S!Listed, Settings, Fixed
    <3>2. QED BY <1>10, <2>2, <2>3, <3>1 DEF SoundscapeHas, Settings, Fixed, Works
  <2>6. g.irq \in Vectored
    BY <2>5 DEF S!Listed, S!HasVector, Vectored
  <2>7. /\ HoldInv(h) /\ SoundscapeInv(h) /\ Kept(g, h) /\ h.playing = "off"
        /\ h.callback = g.callback
    BY <2>2, <2>4, <2>5, <2>6, SoundscapeSetup
  <2> HIDE DEF h
  <2>8. /\ Same(h, rated) /\ rated.channel = h.channel /\ rated.cdrom = h.cdrom
        /\ rated.codec = h.codec /\ rated.sbline = h.sbline
    BY DEF Same, Kept, Settings, Fixed, Held, S!SetPlaybackRate, S!Format
  <2> HIDE DEF rated
  <2>9. /\ Same(rated, mixed) /\ mixed.channel = rated.channel /\ mixed.cdrom = rated.cdrom
        /\ mixed.codec = rated.codec /\ mixed.sbline = rated.sbline
    BY DEF Same, Kept, Settings, Fixed, Held, S!SetMixMode, S!Format
  <2> HIDE DEF mixed
  <2>10. /\ Same(h, d) /\ d.channel = h.channel /\ d.cdrom = h.cdrom
         /\ d.codec = h.codec /\ d.sbline = h.sbline
    BY <2>1, <2>8, <2>9 DEF Same, Kept, Settings, Fixed, Held
  <2>11. HoldInv(d) /\ SoundscapeInv(d)
    BY <2>7, <2>10, HoldSame, SoundscapeSame DEF Same
  <2>12. Settings(found, d) /\ d.playing = "off" /\ d.callback = "none" /\ d.installed = TRUE
    BY <2>2, <2>7, <2>10 DEF Same, Kept, Settings, Fixed
  <2>13. MusicKept(found, d)
    BY <1>10, <2>12, KeptMusic
  <2>14. QED BY <1>10, <2>11, <2>12, <2>13 DEF Settings, Fixed, MusicKept, d
<1>17. QED BY <1>9, <1>14, <1>15, <1>16

\* A page over and the interrupt of SOUNDSCAPE_ServiceInterrupt.
LEMMA SoundscapeInterrupted ==
    ASSUME NEW c, c.kind = "SS", HoldInv(c), SoundscapeInv(c), Moves(c)
    PROVE  LET d == Interrupted(c)
           IN  HoldInv(d) /\ SoundscapeInv(d) /\ Ran(c, d)
<1> DEFINE t  == Transferred(c, c.channel, CardDoes(c).bytes)
           d  == Interrupted(c)
<1>1. c.run # FALSE
  BY DEF Moves, CardDoes, S!Does
<1>2. c.playing # "off" /\ SoundscapePlays(c) /\ OnlyOpen(c, c.channel)
  BY <1>1 DEF SoundscapeInv, SoundscapePlays
<1>3. /\ OnlyOpen(t, c.channel) /\ Ran(c, t) /\ t.run = c.run /\ t.format = c.format
      /\ t.count = c.count /\ t.codec = c.codec /\ t.sbline = c.sbline /\ t.cdrom = c.cdrom
  BY <1>2, PageMoves
<1>4. CardDoes(c).channel = c.channel /\ c.channel # Undefined
  BY <1>2 DEF CardDoes, S!Does, OnlyOpen, VerifyChannel, Undefined
<1>5. t.kind = "SS"
  BY <1>3 DEF Ran, Kept, Settings, Fixed
<1>6. d = t \/ d = NextPage(t)
  BY <1>4, <1>5 DEF Interrupted, Moved, CardPageDone, CardService
<1> HIDE DEF t, d
<1>7. /\ Ran(c, d) /\ d.dma = t.dma /\ d.run = c.run /\ d.format = c.format
      /\ d.count = c.count /\ d.codec = c.codec /\ d.sbline = c.sbline /\ d.cdrom = c.cdrom
  <2>1. CASE d = t
    BY <1>3, <2>1
  <2>2. CASE d = NextPage(t)
    BY <1>3, <2>2 DEF NextPage, Ran, Kept, Settings, Fixed, Held
  <2>3. QED BY <1>6, <2>1, <2>2
<1>8. HoldInv(d)
  BY <1>7 DEF HoldInv, Hooked, LetGo, Ran, Kept, Settings, Fixed, Held, Reaches
<1>9. SoundscapePlays(d)
  BY <1>2, <1>3, <1>7 DEF SoundscapePlays, OnlyOpen, Ran, S!SampleLength
<1>10. SoundscapeInv(d)
  BY <1>2, <1>7, <1>9, SoundscapeKept DEF SoundscapeInv, Ran
<1>11. QED BY <1>7, <1>8, <1>10 DEF d

--------------------------------------------------------------------------------
\* The Sound Source.
LEMMA DisneyStop ==
    ASSUME NEW c, c.kind = "DSS", HoldInv(c), DisneyInv(c)
    PROVE  LET d == D!StopPlayback(c)
           IN  /\ HoldInv(d) /\ DisneyInv(d) /\ Kept(c, d) /\ d.playing = "off"
               /\ d.mode = c.mode /\ d.callback = c.callback /\ d.status = c.status
               /\ d.channel = c.channel /\ d.fault = c.fault /\ d.task = FALSE
<1> DEFINE d == D!StopPlayback(c)
<1>1. CASE c.playing = "off"
  <2>1. d = c /\ c.task = FALSE
    BY <1>1 DEF D!StopPlayback, HoldInv
  <2>2. QED BY <1>1, <2>1 DEF Kept, Settings, Fixed
<1>2. CASE c.playing # "off"
  <2>1. d = [c EXCEPT !.task = FALSE, !.power = TRUE, !.playing = "off"]
    BY <1>2 DEF D!StopPlayback
  <2> HIDE DEF d
  <2>2. /\ Kept(c, d) /\ d.task = FALSE /\ d.playing = "off" /\ d.mode = c.mode
        /\ d.callback = c.callback /\ d.status = c.status /\ d.channel = c.channel
        /\ d.fault = c.fault /\ d.vector = c.vector /\ d.masked = c.masked
        /\ d.stacks = c.stacks /\ d.locked = c.locked /\ d.exposed = c.exposed
        /\ d.rate = c.rate /\ d.dma = c.dma
    BY <2>1 DEF Kept, Settings, Fixed
  <2>3. c.installed = TRUE /\ Fed(c)
    BY <1>2 DEF HoldInv, LetGo
  <2>4. HoldInv(d)
    BY <2>2, <2>3 DEF HoldInv, Fed, Kept, Settings, Fixed
  <2>5. DisneyInv(d)
    BY <2>2, <2>3 DEF DisneyInv, NoneOpen, Kept
  <2>6. QED BY <2>2, <2>4, <2>5 DEF d
<1>3. QED BY <1>1, <1>2

\* SS_SetMixMode: the Sound Source plays 8 bits of one channel.
LEMMA DisneyMode ==
    ASSUME NEW c, NEW mode \in Modes, c.kind = "DSS", HoldInv(c), DisneyInv(c)
    PROVE  LET d == D!SetMixMode(c)
           IN  /\ HoldInv(d) /\ DisneyInv(d) /\ Same(c, d) /\ d.mode = Fit(c, mode)
               /\ d.status = c.status
<1> DEFINE d == D!SetMixMode(c)
<1>1. /\ Same(c, d) /\ d.mode = Mono8 /\ d.status = c.status /\ d.channel = c.channel
      /\ d.rate = c.rate /\ d.power = c.power
  BY DEF D!SetMixMode, D!Mono8, Mono8, Same, Kept, Settings, Fixed, Held
<1> HIDE DEF d
<1>2. d.mode = Fit(c, mode)
  BY <1>1 DEF Fit, Able, MinOf, Modes, Mono8
<1>3. HoldInv(d)
  BY <1>1, HoldSame
<1>4. DisneyInv(d)
  BY <1>1 DEF DisneyInv, NoneOpen, Same, Kept
<1>5. QED BY <1>1, <1>2, <1>3, <1>4 DEF d

\* SS_BeginBufferedPlayback schedules the task that feeds the Sound Source, unless the
\* task manager refuses it.
LEMMA DisneyBegin ==
    ASSUME NEW c, NEW divisions, NEW callback, c.kind = "DSS", HoldInv(c), DisneyInv(c),
           c.installed = TRUE
    PROVE  LET d == D!BeginBuffered(c, divisions, callback)
           IN  /\ HoldInv(d) /\ DisneyInv(d) /\ Kept(c, d) /\ d.channel = c.channel
               /\ Underway(d, "play", divisions, c.mode, callback) /\ Tasked(c, d)
<1> DEFINE s == D!StopPlayback(c)
           t == [s EXCEPT !.callback = callback, !.length = TotalBufferSize \div divisions,
                          !.current = 0, !.playing = "play",
                          !.task = IF c.fault # "task" THEN TRUE ELSE FALSE]
           d == D!BeginBuffered(c, divisions, callback)
<1>1. /\ HoldInv(s) /\ DisneyInv(s) /\ Kept(c, s) /\ s.playing = "off" /\ s.mode = c.mode
      /\ s.channel = c.channel
  BY DisneyStop
<1>2. d = D!Ok(D!Watched(t))
  <2>1. (c.fault # "task") = (IF c.fault # "task" THEN TRUE ELSE FALSE)
    OBVIOUS
  <2>2. QED BY <2>1 DEF D!BeginBuffered
<1> HIDE DEF s
<1>3. Fed(s) /\ s.exposed = FALSE /\ s.kind = "DSS" /\ s.installed = TRUE
  BY <1>1 DEF HoldInv, Kept, Settings, Fixed
<1>4. /\ Kept(s, t) /\ t.playing = "play" /\ t.mode = s.mode /\ t.callback = callback
      /\ t.length = TotalBufferSize \div divisions /\ t.channel = s.channel
      /\ t.task \in BOOLEAN /\ (c.fault # "task" => t.task = TRUE)
      /\ t.vector = s.vector /\ t.masked = s.masked /\ t.stacks = s.stacks
      /\ t.locked = s.locked /\ t.exposed = s.exposed /\ t.rate = s.rate /\ t.dma = s.dma
      /\ t.power = s.power
  BY DEF Kept, Settings, Fixed
<1> HIDE DEF t, d
<1>5. /\ Kept(t, d) /\ d.playing = t.playing /\ d.mode = t.mode /\ d.callback = t.callback
      /\ d.length = t.length /\ d.channel = t.channel /\ d.task = t.task
      /\ d.vector = t.vector /\ d.masked = t.masked /\ d.stacks = t.stacks
      /\ d.locked = t.locked /\ d.rate = t.rate /\ d.dma = t.dma
      /\ d.power = t.power /\ d.status = "ok"
  BY <1>2 DEF D!Ok, D!Watched, Kept, Settings, Fixed
<1>6. d.exposed = FALSE
  <2>1. \A irq \in DOMAIN t.vector : t.vector[irq] # "driver"
    BY <1>3, <1>4 DEF Fed, NoVectors
  <2>2. t.locked = TRUE /\ t.exposed = FALSE
    BY <1>3, <1>4 DEF Fed
  <2>3. QED BY <1>2, <2>1, <2>2 DEF D!Ok, D!Watched
<1>7. Kept(c, d) /\ d.installed = TRUE /\ d.kind = "DSS"
  BY <1>1, <1>3, <1>4, <1>5 DEF Kept, Settings, Fixed
<1>8. HoldInv(d)
  BY <1>3, <1>4, <1>5, <1>6, <1>7 DEF HoldInv, Fed, Runs, Kept, Settings, Fixed
<1>9. DisneyInv(d)
  BY <1>1, <1>4, <1>5, <1>7 DEF DisneyInv, NoneOpen
<1>10. QED BY <1>1, <1>4, <1>5, <1>7, <1>8, <1>9 DEF d, Underway, Tasked

\* SS_Shutdown ends the task and gives the memory back.
LEMMA DisneyShutdown ==
    ASSUME NEW c, c.kind = "DSS", HoldInv(c), DisneyInv(c), c.installed = TRUE
    PROVE  LET d == D!Shutdown(c)
           IN  /\ HoldInv(d) /\ DisneyInv(d) /\ Fixed(c, d) /\ MusicKept(c, d)
               /\ d.installed = FALSE
<1> DEFINE s == D!StopPlayback(c)
           t == [s EXCEPT !.power = FALSE, !.callback = "none"]
           d == D!Shutdown(c)
<1>1. /\ HoldInv(s) /\ DisneyInv(s) /\ Kept(c, s) /\ s.playing = "off" /\ s.task = FALSE
  BY DisneyStop
<1>2. d = [D!Watched([t EXCEPT !.locked = FALSE]) EXCEPT !.installed = FALSE]
  BY DEF D!Shutdown, D!UnlockMemory
<1> HIDE DEF s, d
<1>3. Fed(s) /\ s.exposed = FALSE /\ s.kind = "DSS"
  BY <1>1 DEF HoldInv, Kept, Settings, Fixed
<1>4. /\ Settings(s, d) /\ d.playing = "off" /\ d.callback = "none" /\ d.channel = s.channel
      /\ d.task = FALSE /\ d.vector = s.vector /\ d.masked = s.masked /\ d.stacks = s.stacks
      /\ d.locked = FALSE /\ d.rate = s.rate /\ d.dma = s.dma /\ d.power = FALSE
      /\ d.installed = FALSE
  BY <1>1, <1>2 DEF D!Watched, Settings, Fixed
<1>5. d.exposed = FALSE
  <2>1. \A irq \in DOMAIN s.vector : s.vector[irq] # "driver"
    BY <1>3 DEF Fed, NoVectors
  <2>2. QED BY <1>1, <1>2, <1>3, <2>1 DEF D!Watched
<1>6. Settings(c, d) /\ Fixed(c, d)
  BY <1>1, <1>4 DEF Kept, Settings, Fixed
<1>7. HoldInv(d)
  BY <1>3, <1>4, <1>5, <1>6 DEF HoldInv, LetGo, Fed, Settings, Fixed
<1>8. DisneyInv(d)
  BY <1>1, <1>4 DEF DisneyInv, NoneOpen
<1>9. MusicKept(c, d)
  BY <1>6, KeptMusic
<1>10. QED BY <1>4, <1>6, <1>7, <1>8, <1>9 DEF d

\* SS_Init locks the memory of the driver, or holds nothing.
LEMMA DisneyInit ==
    ASSUME NEW c, c.kind = "DSS", HoldInv(c), DisneyInv(c), c.playing = "off",
           c.callback = "none"
    PROVE  LET d == D!Init(c)
           IN  /\ HoldInv(d) /\ DisneyInv(d) /\ Fixed(c, d) /\ MusicKept(c, d)
               /\ d.playing = "off" /\ d.callback = "none"
               /\ d.status = "error" \/ d.installed = TRUE
<1> DEFINE x     == IF c.installed THEN D!Shutdown(c) ELSE c
           y     == [x EXCEPT !.off = IF c.tandy THEN 14 ELSE 12]
           found == D!DetectSoundSource(y)
           held  == D!LockMemory(found)
           d     == D!Init(c)
<1>1. d = (IF found.status = "error" THEN found
           ELSE IF held.status = "error" THEN D!Failed(D!UnlockMemory(held))
           ELSE [held EXCEPT !.power = TRUE, !.playing = "off", !.callback = "none",
                             !.installed = TRUE])
  BY DEF D!Init
<1> HIDE DEF d
<1>2. /\ HoldInv(x) /\ DisneyInv(x) /\ Fixed(c, x) /\ MusicKept(c, x) /\ x.installed = FALSE
  <2>1. CASE c.installed = TRUE
    BY <2>1, DisneyShutdown
  <2>2. CASE c.installed = FALSE
    BY <2>2 DEF Fixed, MusicKept
  <2>3. QED BY <2>1, <2>2 DEF HoldInv
<1>3. x.kind = "DSS" /\ LetGo(x) /\ x.exposed = FALSE /\ x.task = FALSE
  BY <1>2 DEF HoldInv, LetGo, Fixed
<1> HIDE DEF x
<1> DEFINE Left(d1) ==
        /\ Settings(x, d1) /\ d1.playing = "off" /\ d1.callback = "none"
        /\ d1.channel = x.channel /\ d1.task = FALSE /\ d1.vector = x.vector
        /\ d1.masked = x.masked /\ d1.stacks = x.stacks /\ d1.rate = x.rate
        /\ d1.dma = x.dma
       Loose(d1) ==
        Left(d1) /\ d1.power = FALSE /\ d1.installed = FALSE /\ d1.locked = FALSE
<1>4. Loose(y) /\ y.exposed = FALSE
  BY <1>2, <1>3 DEF Settings, Fixed, LetGo, DisneyInv
<1> HIDE DEF y
<1>5. Loose(found) /\ found.exposed = FALSE /\ found.status \in {"ok", "error"}
  <2>1. \/ found = [y EXCEPT !.port = y.selected, !.status = "ok"]
        \/ found = [[y EXCEPT !.power = FALSE] EXCEPT !.status = "error"]
        \/ \E p : found = [[y EXCEPT !.power = FALSE, !.port = p] EXCEPT !.status = "ok"]
    BY DEF D!DetectSoundSource, D!Ok, D!Failed
  <2>2. ASSUME found = [y EXCEPT !.port = y.selected, !.status = "ok"]
        PROVE  Loose(found) /\ found.exposed = FALSE /\ found.status \in {"ok", "error"}
    BY <1>4, <2>2 DEF Settings, Fixed
  <2>3. ASSUME found = [[y EXCEPT !.power = FALSE] EXCEPT !.status = "error"]
        PROVE  Loose(found) /\ found.exposed = FALSE /\ found.status \in {"ok", "error"}
    BY <1>4, <2>3 DEF Settings, Fixed
  <2>4. ASSUME NEW p, found = [[y EXCEPT !.power = FALSE, !.port = p] EXCEPT !.status = "ok"]
        PROVE  Loose(found) /\ found.exposed = FALSE /\ found.status \in {"ok", "error"}
    BY <1>4, <2>4 DEF Settings, Fixed
  <2>5. QED BY <2>1, <2>2, <2>3, <2>4
<1> HIDE DEF found
<1>6. \A irq \in DOMAIN x.vector : x.vector[irq] # "driver"
  BY <1>3 DEF LetGo, NoVectors
<1>7. /\ found.fault # "lock" => held = [found EXCEPT !.locked = TRUE, !.status = "ok"]
      /\ found.fault = "lock" =>
            Loose(held) /\ held.exposed = FALSE /\ held.status = "error"
  <2>1. CASE found.fault = "lock"
    <3>1. held = [D!Watched([found EXCEPT !.locked = FALSE]) EXCEPT !.status = "error"]
      BY <2>1 DEF D!LockMemory, D!UnlockMemory, D!Failed
    <3> HIDE DEF held
    <3>2. held.exposed = FALSE
      BY <1>5, <1>6, <3>1 DEF D!Watched
    <3>3. Loose(held) /\ held.status = "error"
      BY <1>5, <3>1 DEF D!Watched, Settings, Fixed
    <3>4. QED BY <2>1, <3>2, <3>3
  <2>2. CASE found.fault # "lock"
    BY <2>2 DEF D!LockMemory, D!Ok
  <2>3. QED BY <2>1, <2>2
<1> HIDE DEF held
<1>8. ASSUME NEW e, Loose(e), e.exposed = FALSE
      PROVE  HoldInv(e) /\ DisneyInv(e) /\ Fixed(c, e) /\ MusicKept(c, e)
  <2>1. e.kind = "DSS" /\ Fixed(c, e)
    BY <1>2, <1>3, <1>8 DEF Settings, Fixed
  <2>2. LetGo(e)
    BY <1>3, <1>8 DEF LetGo, Settings, Fixed
  <2>3. HoldInv(e) /\ DisneyInv(e)
    BY <1>2, <1>8, <2>1, <2>2 DEF HoldInv, DisneyInv, NoneOpen
  <2>4. MusicKept(c, e)
    BY <1>2, <1>3, <1>8, KeptMusic DEF MusicKept
  <2>5. QED BY <2>1, <2>3, <2>4
<1>9. CASE found.status = "error"
  BY <1>1, <1>5, <1>8, <1>9 DEF d
<1>10. CASE found.status = "ok" /\ held.status = "error"
  <2>1. Loose(held) /\ held.exposed = FALSE
    <3>1. CASE found.fault # "lock"
      <4>1. held = [found EXCEPT !.locked = TRUE, !.status = "ok"]
        BY <1>7, <3>1
      <4>2. held.status = "ok"
        BY <4>1
      <4>3. QED BY <1>10, <4>2
    <3>2. CASE found.fault = "lock"
      BY <1>7, <3>2
    <3>3. QED BY <3>1, <3>2
  <2>2. d = [D!Watched([held EXCEPT !.locked = FALSE]) EXCEPT !.status = "error"]
    BY <1>1, <1>10 DEF D!UnlockMemory, D!Failed
  <2>3. d.exposed = FALSE
    BY <1>6, <2>1, <2>2 DEF D!Watched
  <2>4. Loose(d) /\ d.status = "error"
    BY <2>1, <2>2 DEF D!Watched, Settings, Fixed
  <2>5. QED BY <1>8, <2>3, <2>4 DEF d
<1>11. CASE found.status = "ok" /\ held.status # "error"
  <2>1. d = [[found EXCEPT !.locked = TRUE, !.status = "ok"]
               EXCEPT !.power = TRUE, !.playing = "off", !.callback = "none",
                      !.installed = TRUE]
    BY <1>1, <1>7, <1>11
  <2>2. Left(d) /\ d.installed = TRUE /\ d.locked = TRUE /\ d.exposed = FALSE
    BY <1>5, <2>1 DEF Settings, Fixed
  <2>3. d.kind = "DSS" /\ Fixed(c, d)
    BY <1>2, <1>3, <2>2 DEF Settings, Fixed
  <2>4. Fed(d)
    BY <1>3, <2>2 DEF LetGo, Fed, Settings, Fixed
  <2>5. HoldInv(d) /\ DisneyInv(d)
    BY <1>2, <2>2, <2>3, <2>4 DEF HoldInv, DisneyInv, NoneOpen
  <2>6. MusicKept(c, d)
    BY <1>2, <1>3, <2>2, KeptMusic DEF MusicKept
  <2>7. QED BY <2>2, <2>3, <2>5, <2>6 DEF d
<1>12. QED BY <1>5, <1>9, <1>10, <1>11

\* A page over: the task of the Sound Source has read it.
LEMMA DisneyInterrupted ==
    ASSUME NEW c, c.kind = "DSS", HoldInv(c), DisneyInv(c), Moves(c)
    PROVE  LET d == Interrupted(c)
           IN  HoldInv(d) /\ DisneyInv(d) /\ Ran(c, d) /\ c.task = TRUE
<1> DEFINE d  == Interrupted(c)
<1>1. c.task = TRUE /\ CardDoes(c).channel = Undefined
  BY DEF Moves, CardDoes, D!Does, HoldInv, D!Undefined, Undefined
<1>2. d = NextPage(c)
  BY <1>1 DEF Interrupted, Moved, CardPageDone, CardService, Serviced
<1> HIDE DEF d
<1>3. Ran(c, d) /\ d.dma = c.dma /\ d.power = c.power
  BY <1>2 DEF NextPage, Ran, Kept, Settings, Fixed, Held
<1>4. HoldInv(d)
  BY <1>3 DEF HoldInv, Fed, LetGo, Ran, Kept, Settings, Fixed, Held
<1>5. DisneyInv(d)
  BY <1>3 DEF DisneyInv, NoneOpen, Ran, Kept
<1>6. QED BY <1>1, <1>3, <1>4, <1>5 DEF d

--------------------------------------------------------------------------------
\* A change of the mixer and of the interface, that leaves what the card does; of the voice
\* only when the volume to give back is kept.
Tuned(c, d) ==
    /\ Fixed(c, d) /\ d.irq = c.irq /\ d.config = c.config /\ d.version = c.version
    /\ d.mixer = c.mixer /\ d.found = c.found /\ d.installed = c.installed
    /\ d.func = c.func \/ (d.func = TRUE /\ c.present = TRUE)
    /\ d.mpu \in BOOLEAN \/ d.mpu = c.mpu
    /\ d.state \in BOOLEAN \/ d.state = c.state
    /\ d.unpaired \in BOOLEAN \/ d.unpaired = c.unpaired
    /\ DOMAIN d.mix = DOMAIN c.mix /\ DOMAIN d.volume = DOMAIN c.volume
    /\ c.kind = "SB" => d.volume.voice = c.volume.voice
    /\ c.kind = "SB" => d.mix.voice = c.mix.voice \/ (c.installed = TRUE /\ c.mixer # "none")
    /\ c.kind = "SB" => c.version # 0 \/ (d.mix = c.mix /\ d.mpu = c.mpu)
    /\ c.kind = "PAS" => d.volume.pcm = c.volume.pcm
    /\ c.kind = "PAS" => d.pcm = c.pcm \/ c.installed = TRUE
    /\ Held(c, d) /\ Works(c, d) /\ d.masked = c.masked /\ d.exposed = c.exposed
    /\ d.playing = c.playing /\ d.callback = c.callback

\* A card whose volumes alone are set keeps its invariant.
LEMMA TunedCard ==
    ASSUME NEW c, NEW d, CardInv(c), Tuned(c, d)
    PROVE  CardInv(d)
<1>1. d.kind = c.kind /\ d.user = c.user
  BY DEF Tuned, Fixed
<1>2. HoldInv(d)
  BY DEF CardInv, HoldInv, Hooked, LetGo, Fed, Tuned, Fixed, Held, Reaches
<1>3. ASSUME c.kind = "SB" PROVE SBInv(d)
  <2>1. SBInv(c)
    BY <1>3 DEF CardInv
  <2>2. Unset(c) \/ SetOnce(c) => Unset(d) \/ SetOnce(d)
    BY <1>3 DEF Unset, SetOnce, EnvType, Tuned, Fixed
  <2>3. SBPlays(c) => SBPlays(d)
    BY DEF SBPlays, TypeFits, OnlyOpen, Tuned, Fixed, Works, B!Halted, B!Listens, B!ChannelOf
  <2>4. TypeFits(c) /\ SBVoice(c) => SBVoice(d)
    BY <1>3 DEF SBVoice, Tuned, Fixed
  <2>5. TypeFits(d) => TypeFits(c)
    BY DEF TypeFits, Tuned, Fixed
  <2>6. QED
    BY <1>3, <2>1, <2>2, <2>3, <2>4, <2>5 DEF SBInv, NoneOpen, Tuned, Fixed, Works
<1>4. ASSUME c.kind = "PAS" PROVE PasInv(d)
  <2>1. PasInv(c)
    BY <1>4 DEF CardInv
  <2>2. PasPlays(c) => PasPlays(d)
    BY DEF PasPlays, OnlyOpen, Tuned, Fixed, Works
  <2>3. /\ d.func \in BOOLEAN /\ (c.func = TRUE => d.func = TRUE)
        /\ (d.func = TRUE => d.present = TRUE)
    BY <2>1 DEF PasInv, Tuned, Fixed
  <2>4. /\ (d.installed = TRUE => d.volume.pcm = d.user.voice)
        /\ (d.installed = FALSE => d.pcm = d.user.voice)
    BY <1>4, <2>1 DEF PasInv, Tuned, Fixed
  <2>5. QED BY <2>1, <2>2, <2>3, <2>4 DEF PasInv, NoneOpen, Tuned, Fixed, Works
<1>5. ASSUME c.kind = "SS" PROVE SoundscapeInv(d)
  BY <1>5 DEF CardInv, SoundscapeInv, SoundscapeHas, SoundscapePlays, OnlyOpen, NoneOpen,
     Tuned, Fixed, Works, S!Listed, S!SampleLength
<1>6. ASSUME c.kind = "DSS" PROVE DisneyInv(d)
  BY <1>6 DEF CardInv, DisneyInv, NoneOpen, Tuned, Works
<1>7. QED BY <1>1, <1>2, <1>3, <1>4, <1>5, <1>6 DEF CardInv

--------------------------------------------------------------------------------
\* A change of the status, or of what goes wrong in a call.
Alike(c, d) ==
    /\ Kept(c, d) /\ Held(c, d) /\ Works(c, d) /\ d.masked = c.masked
    /\ d.exposed = c.exposed /\ d.playing = c.playing /\ d.callback = c.callback

\* A card that differs in a fault to come or in the status keeps its invariant, and the
\* music.
LEMMA AlikeCard ==
    ASSUME NEW c, NEW d, CardInv(c), Alike(c, d)
    PROVE  CardInv(d) /\ MusicKept(c, d)
<1>1. CardInv(d)
  <2>1. c.kind = "SB" => SBInv(c)
    BY DEF CardInv
  <2>2. Tuned(c, d)
    BY DEF Alike, Tuned, Kept, Settings
  <2>3. QED BY <2>2, TunedCard
<1>2. MusicKept(c, d)
  BY KeptMusic DEF Alike, Kept, Works
<1>3. QED BY <1>1, <1>2

\* What a call ends with differs in the status and the fault to come.
LEMMA DoneAlike == ASSUME NEW c PROVE Alike(c, Done(c)) /\ Done(c).status = "ok"
BY DEF Alike, Done, Kept, Settings, Fixed, Held, Works

\* What a call begins with differs in the fault to come.
LEMMA BrokenAlike ==
    ASSUME NEW fault
    PROVE  Alike(m, Broken(fault)) /\ Broken(fault).fault = fault
BY DEF Alike, Broken, Kept, Settings, Fixed, Held, Works

--------------------------------------------------------------------------------
\* The cards behind one name.
LEMMA ModesFit ==
    ASSUME NEW c, CardInv(c), NEW mode \in Modes
    PROVE  /\ Fit(c, mode) \in Modes /\ Fit(c, Fit(c, mode)) = Fit(c, mode)
           /\ Fit(c, Mono8) = Mono8 /\ Mono8 \in Modes
<1>1. Able(c) \in Modes
  BY DEF CardInv, HoldInv, SBInv, Able, Modes, Mono8
<1>2. /\ Able(c).bits \in {8, 16} /\ Able(c).channels \in {1, 2}
      /\ mode.bits \in {8, 16} /\ mode.channels \in {1, 2}
  BY <1>1 DEF Modes
<1>3. QED BY <1>2 DEF Fit, MinOf, Modes, Mono8

\* Whatever the card is, its driver stops.
LEMMA CardStops ==
    ASSUME NEW c, CardInv(c), c.installed = TRUE
    PROVE  LET d == CardStop(c)
           IN  /\ CardInv(d) /\ Kept(c, d) /\ MusicKept(c, d) /\ d.playing = "off"
               /\ d.mode = c.mode /\ d.callback = c.callback /\ d.status = c.status
<1> DEFINE d == CardStop(c)
<1>1. ASSUME c.kind = "SB"
      PROVE  /\ HoldInv(d) /\ SBInv(d) /\ Kept(c, d) /\ d.playing = "off"
             /\ d.mode = c.mode /\ d.callback = c.callback /\ d.status = c.status
  BY <1>1, BlasterStop DEF CardStop, CardInv
<1>2. ASSUME c.kind = "PAS"
      PROVE  /\ HoldInv(d) /\ PasInv(d) /\ Kept(c, d) /\ d.playing = "off"
             /\ d.mode = c.mode /\ d.callback = c.callback /\ d.status = c.status
             /\ d.channel = c.channel
  BY <1>2, PasStop DEF CardStop, CardInv
<1>3. ASSUME c.kind = "SS"
      PROVE  /\ HoldInv(d) /\ SoundscapeInv(d) /\ Kept(c, d) /\ d.playing = "off"
             /\ d.mode = c.mode /\ d.callback = c.callback /\ d.status = c.status
  BY <1>3, SoundscapeStop DEF CardStop, CardInv
<1>4. ASSUME c.kind = "DSS"
      PROVE  /\ HoldInv(d) /\ DisneyInv(d) /\ Kept(c, d) /\ d.playing = "off"
             /\ d.mode = c.mode /\ d.callback = c.callback /\ d.status = c.status
  BY <1>4, DisneyStop DEF CardStop, CardInv
<1> HIDE DEF d
<1>5. c.kind \in {"SB", "PAS", "SS", "DSS"}
  BY DEF CardInv, HoldInv
<1>6. /\ Kept(c, d) /\ d.playing = "off" /\ d.mode = c.mode /\ d.callback = c.callback
      /\ d.status = c.status
  BY <1>1, <1>2, <1>3, <1>4, <1>5
<1>7. d.kind = c.kind
  BY <1>6 DEF Kept, Settings, Fixed
<1>8. CardInv(d)
  BY <1>1, <1>2, <1>3, <1>4, <1>5, <1>7 DEF CardInv
<1>9. MusicKept(c, d)
  BY <1>2, <1>6, KeptMusic DEF Kept
<1>10. QED BY <1>6, <1>8, <1>9 DEF d

\* Whatever the card is, its driver sets a mode that fits.
LEMMA CardModes ==
    ASSUME NEW c, NEW mode \in Modes, CardInv(c), c.installed = TRUE, c.playing = "off"
    PROVE  LET d == CardSetMixMode(c, mode)
           IN  /\ CardInv(d) /\ Same(c, d) /\ MusicKept(c, d) /\ d.mode = Fit(c, mode)
<1> DEFINE d == CardSetMixMode(c, mode)
<1>1. ASSUME c.kind = "SB"
      PROVE  HoldInv(d) /\ SBInv(d) /\ Same(c, d) /\ d.mode = Fit(c, mode)
  BY <1>1, BlasterMode DEF CardSetMixMode, CardInv
<1>2. ASSUME c.kind = "PAS"
      PROVE  HoldInv(d) /\ PasInv(d) /\ Same(c, d) /\ d.mode = Fit(c, mode)
             /\ d.channel = c.channel
  BY <1>2, PasMode DEF CardSetMixMode, CardInv
<1>3. ASSUME c.kind = "SS"
      PROVE  HoldInv(d) /\ SoundscapeInv(d) /\ Same(c, d) /\ d.mode = Fit(c, mode)
  BY <1>3, SoundscapeMode DEF CardSetMixMode, CardInv
<1>4. ASSUME c.kind = "DSS"
      PROVE  HoldInv(d) /\ DisneyInv(d) /\ Same(c, d) /\ d.mode = Fit(c, mode)
  BY <1>4, DisneyMode DEF CardSetMixMode, CardInv
<1> HIDE DEF d
<1>5. c.kind \in {"SB", "PAS", "SS", "DSS"}
  BY DEF CardInv, HoldInv
<1>6. Same(c, d) /\ d.mode = Fit(c, mode)
  BY <1>1, <1>2, <1>3, <1>4, <1>5
<1>7. d.kind = c.kind
  BY <1>6 DEF Same, Kept, Settings, Fixed
<1>8. CardInv(d)
  BY <1>1, <1>2, <1>3, <1>4, <1>5, <1>7 DEF CardInv
<1>9. MusicKept(c, d)
  BY <1>2, <1>6, KeptMusic DEF Same, Kept
<1>10. QED BY <1>6, <1>8, <1>9 DEF d

\* Whatever the card is, its driver shuts down.
LEMMA CardShuts ==
    ASSUME NEW c, CardInv(c), c.installed = TRUE
    PROVE  LET d == CardShutdown(c)
           IN  CardInv(d) /\ Fixed(c, d) /\ MusicKept(c, d) /\ d.installed = FALSE
<1> DEFINE d == CardShutdown(c)
<1>1. ASSUME c.kind = "SB"
      PROVE  HoldInv(d) /\ SBInv(d) /\ Fixed(c, d) /\ MusicKept(c, d) /\ d.installed = FALSE
  BY <1>1, BlasterShutdown DEF CardShutdown, CardInv
<1>2. ASSUME c.kind = "PAS"
      PROVE  HoldInv(d) /\ PasInv(d) /\ Fixed(c, d) /\ MusicKept(c, d) /\ d.installed = FALSE
  BY <1>2, PasShutdown DEF CardShutdown, CardInv
<1>3. ASSUME c.kind = "SS"
      PROVE  HoldInv(d) /\ SoundscapeInv(d) /\ Fixed(c, d) /\ MusicKept(c, d)
             /\ d.installed = FALSE
  BY <1>3, SoundscapeShutdown DEF CardShutdown, CardInv
<1>4. ASSUME c.kind = "DSS"
      PROVE  HoldInv(d) /\ DisneyInv(d) /\ Fixed(c, d) /\ MusicKept(c, d)
             /\ d.installed = FALSE
  BY <1>4, DisneyShutdown DEF CardShutdown, CardInv
<1> HIDE DEF d
<1>5. c.kind \in {"SB", "PAS", "SS", "DSS"}
  BY DEF CardInv, HoldInv
<1>6. Fixed(c, d) /\ MusicKept(c, d) /\ d.installed = FALSE /\ d.kind = c.kind
  BY <1>1, <1>2, <1>3, <1>4, <1>5 DEF Fixed
<1>7. CardInv(d)
  BY <1>1, <1>2, <1>3, <1>4, <1>5, <1>6 DEF CardInv
<1>8. QED BY <1>6, <1>7 DEF d

\* Whatever the card is, its driver is installed or holds nothing.
LEMMA CardInits ==
    ASSUME NEW c, CardInv(c), c.playing = "off", c.callback = "none"
    PROVE  LET d == CardInit(c)
           IN  /\ CardInv(d) /\ Fixed(c, d) /\ MusicKept(c, d)
               /\ d.playing = "off" /\ d.callback = "none"
               /\ d.status = "error" \/ d.installed = TRUE
<1> DEFINE d == CardInit(c)
           Begun == /\ Fixed(c, d) /\ MusicKept(c, d)
                    /\ d.playing = "off" /\ d.callback = "none"
                    /\ d.status = "error" \/ d.installed = TRUE
<1>1. ASSUME c.kind = "SB" PROVE HoldInv(d) /\ SBInv(d) /\ Begun
  BY <1>1, BlasterInit DEF CardInit, CardInv
<1>2. ASSUME c.kind = "PAS" PROVE HoldInv(d) /\ PasInv(d) /\ Begun
  BY <1>2, PasInit DEF CardInit, CardInv
<1>3. ASSUME c.kind = "SS" PROVE HoldInv(d) /\ SoundscapeInv(d) /\ Begun
  BY <1>3, SoundscapeInit DEF CardInit, CardInv
<1>4. ASSUME c.kind = "DSS" PROVE HoldInv(d) /\ DisneyInv(d) /\ Begun
  BY <1>4, DisneyInit DEF CardInit, CardInv
<1> HIDE DEF d
<1>5. c.kind \in {"SB", "PAS", "SS", "DSS"}
  BY DEF CardInv, HoldInv
<1>6. Begun /\ d.kind = c.kind
  BY <1>1, <1>2, <1>3, <1>4, <1>5 DEF Fixed
<1>7. CardInv(d)
  BY <1>1, <1>2, <1>3, <1>4, <1>5, <1>6 DEF CardInv
<1>8. QED BY <1>6, <1>7 DEF d

\* Whatever the card is, its driver begins to play or to record, or refuses to.
LEMMA CardBegins ==
    ASSUME NEW c, NEW run \in Runs, NEW divisions, NEW rate, NEW mode \in Modes, NEW callback,
           CardInv(c), c.installed = TRUE, Fit(c, mode) = mode, run = "record" => mode = Mono8,
           c.kind \in {"SS", "DSS"} => run = "play"
    PROVE  LET d == CardBegin(c, run, divisions, rate, mode, callback)
           IN  /\ CardInv(d) /\ Kept(c, d) /\ MusicKept(c, d)
               /\ \/ Underway(d, run, divisions, IF c.kind = "DSS" THEN c.mode ELSE mode,
                              callback)
                  \/ Refused(c, d) /\ c.kind = "SB"
               /\ c.kind = "DSS" => Tasked(c, d)
<1> DEFINE d == CardBegin(c, run, divisions, rate, mode, callback)
           Result == \/ Underway(d, run, divisions, IF c.kind = "DSS" THEN c.mode ELSE mode,
                                 callback)
                     \/ Refused(c, d) /\ c.kind = "SB"
<1>1. ASSUME c.kind = "SB"
      PROVE  HoldInv(d) /\ SBInv(d) /\ Kept(c, d) /\ Result
  BY <1>1, BlasterBegin DEF CardBegin, CardInv
<1>2. ASSUME c.kind = "PAS"
      PROVE  HoldInv(d) /\ PasInv(d) /\ Kept(c, d) /\ Result /\ SameChannel(c, d)
  BY <1>2, PasBegin DEF CardBegin, CardInv
<1>3. ASSUME c.kind = "SS"
      PROVE  HoldInv(d) /\ SoundscapeInv(d) /\ Kept(c, d) /\ Result
  BY <1>3, SoundscapeBegin DEF CardBegin, CardInv
<1>4. ASSUME c.kind = "DSS"
      PROVE  HoldInv(d) /\ DisneyInv(d) /\ Kept(c, d) /\ Result /\ Tasked(c, d)
  BY <1>4, DisneyBegin DEF CardBegin, CardInv
<1> HIDE DEF d
<1>5. c.kind \in {"SB", "PAS", "SS", "DSS"}
  BY DEF CardInv, HoldInv
<1>6. Kept(c, d) /\ Result /\ d.kind = c.kind
  BY <1>1, <1>2, <1>3, <1>4, <1>5 DEF Kept, Settings, Fixed
<1>7. CardInv(d)
  BY <1>1, <1>2, <1>3, <1>4, <1>5, <1>6 DEF CardInv
<1>8. MusicKept(c, d)
  BY <1>2, <1>6, KeptMusic DEF Kept, SameChannel
<1>9. QED BY <1>4, <1>6, <1>7, <1>8 DEF d

\* Whatever the card is, a page goes over and its interrupt is served.
LEMMA CardInterrupted ==
    ASSUME NEW c, CardInv(c), Moves(c)
    PROVE  LET d == Interrupted(c)
           IN  CardInv(d) /\ Ran(c, d) /\ MusicKept(c, d) /\ (c.kind = "DSS" => c.task = TRUE)
<1> DEFINE d == Interrupted(c)
<1>1. ASSUME c.kind = "SB" PROVE HoldInv(d) /\ SBInv(d) /\ Ran(c, d)
  BY <1>1, BlasterInterrupted DEF CardInv
<1>2. ASSUME c.kind = "PAS" PROVE HoldInv(d) /\ PasInv(d) /\ Ran(c, d)
  BY <1>2, PasInterrupted DEF CardInv
<1>3. ASSUME c.kind = "SS" PROVE HoldInv(d) /\ SoundscapeInv(d) /\ Ran(c, d)
  BY <1>3, SoundscapeInterrupted DEF CardInv
<1>4. ASSUME c.kind = "DSS" PROVE HoldInv(d) /\ DisneyInv(d) /\ Ran(c, d) /\ c.task = TRUE
  BY <1>4, DisneyInterrupted DEF CardInv
<1> HIDE DEF d
<1>5. c.kind \in {"SB", "PAS", "SS", "DSS"}
  BY DEF CardInv, HoldInv
<1>6. Ran(c, d) /\ d.kind = c.kind
  BY <1>1, <1>2, <1>3, <1>4, <1>5 DEF Ran, Kept, Settings, Fixed
<1>7. CardInv(d)
  BY <1>1, <1>2, <1>3, <1>4, <1>5, <1>6 DEF CardInv
<1>8. MusicKept(c, d)
  BY <1>6, KeptMusic DEF Ran, Kept
<1>9. QED BY <1>4, <1>6, <1>7, <1>8 DEF d

--------------------------------------------------------------------------------
\* Pages and the buffer.
LEMMA Exact == ASSUME NEW a \in Nat \ {0}, NEW b \in Nat PROVE (a * b) \div a = b
BY SMT

\* The buffer divides into pages of the length that the mixer fills.
LEMMA PageLength ==
    /\ \A mode \in Modes :
           TotalBufferSize \div (TotalBufferSize \div BufferSize(mode)) = BufferSize(mode)
    /\ TotalBufferSize \div NumberOfBuffers = MixBufferSize
<1>1. /\ MixBufferSize \in Nat \ {0} /\ MixBufferSize % 2 = 0
      /\ NumberOfBuffers \in Nat \ {0} /\ NumberOfBuffers % 4 = 0
      /\ TotalBufferSize = MixBufferSize * NumberOfBuffers
  BY SizesAssumption
<1>2. ASSUME NEW mode \in Modes
      PROVE  TotalBufferSize \div (TotalBufferSize \div BufferSize(mode)) = BufferSize(mode)
  <2> DEFINE s == SampleSize(mode)
             k == NumberOfBuffers \div s
             b == MixBufferSize * s
  <2>1. s \in {1, 2, 4}
    <3>1. mode.channels \in {1, 2} /\ mode.bits \in {8, 16}
      BY DEF Modes
    <3>2. QED BY <3>1 DEF SampleSize
  <2>2. BufferSize(mode) = b
    BY DEF BufferSize
  <2> HIDE DEF s
  <2>3. k \in Nat \ {0} /\ NumberOfBuffers = s * k
    BY <1>1, <2>1
  <2> HIDE DEF k
  <2>4. TotalBufferSize = b * k /\ b \in Nat \ {0}
    <3>1. TotalBufferSize = MixBufferSize * (s * k)
      BY <1>1, <2>3
    <3>2. MixBufferSize * (s * k) = (MixBufferSize * s) * k
      BY <1>1, <2>1, <2>3
    <3>3. MixBufferSize * s \in Nat \ {0}
      BY <1>1, <2>1
    <3>4. QED BY <3>1, <3>2, <3>3
  <2> HIDE DEF b
  <2>5. (b * k) \div b = k
    BY <2>3, <2>4, Exact
  <2>6. (k * b) \div k = b
    BY <2>3, <2>4, Exact
  <2>7. b * k = k * b
    BY <2>3, <2>4
  <2>8. QED BY <2>2, <2>4, <2>5, <2>6, <2>7
<1>3. TotalBufferSize \div NumberOfBuffers = MixBufferSize
  <2>1. TotalBufferSize = NumberOfBuffers * MixBufferSize
    BY <1>1
  <2>2. QED BY <1>1, <2>1, Exact
<1>4. QED BY <1>2, <1>3

--------------------------------------------------------------------------------
\* Multivoc.
PlaysFor(c, d, v) ==
    /\ d.status = "ok" /\ d.playing = "play" /\ d.callback = "MV_ServiceVoc"
    /\ d.length = BufferSize(v.mode) /\ (c.kind # "DSS" => d.mode = v.mode)

\* MV_StartPlayback has the driver play pages of the mode that MV_SetMixMode has set.
LEMMA Starts ==
    ASSUME NEW c, NEW v, CardInv(c), c.installed = TRUE, v.mode \in Modes,
           Fit(c, v.mode) = v.mode
    PROVE  LET d == Started(c, v)
           IN  /\ CardInv(d) /\ Kept(c, d) /\ MusicKept(c, d)
               /\ PlaysFor(c, d, v) \/ (Refused(c, d) /\ c.kind = "SB")
               /\ c.kind = "DSS" => Tasked(c, d)
<1> DEFINE d == Started(c, v)
<1>1. /\ CardInv(d) /\ Kept(c, d) /\ MusicKept(c, d)
      /\ \/ Underway(d, "play", MV_NumberOfBuffers(v),
                     IF c.kind = "DSS" THEN c.mode ELSE v.mode, "MV_ServiceVoc")
         \/ Refused(c, d) /\ c.kind = "SB"
      /\ c.kind = "DSS" => Tasked(c, d)
  BY CardBegins DEF Started, Runs
<1> HIDE DEF d
<1>2. TotalBufferSize \div MV_NumberOfBuffers(v) = BufferSize(v.mode)
  BY PageLength DEF MV_NumberOfBuffers
<1>3. QED BY <1>1, <1>2 DEF Underway, PlaysFor, d

\* MV_Shutdown stops the driver and shuts it down, recording or playing.
LEMMA ShutsDown ==
    ASSUME NEW c, NEW v, CardInv(c), c.installed = TRUE, v.mode \in Modes,
           Fit(c, v.mode) = v.mode
    PROVE  LET d == MV_Shutdown(c, v)
           IN  CardInv(d) /\ Fixed(c, d) /\ MusicKept(c, d) /\ d.installed = FALSE
<1> DEFINE s == CardStop(c)
           t == Started(s, v)
           u == IF v.recording THEN MV_StopRecord(c, v) ELSE c
           w == CardStop(u)
           d == MV_Shutdown(c, v)
<1>1. CardInv(s) /\ Kept(c, s) /\ MusicKept(c, s)
  BY CardStops
<1> HIDE DEF s
<1>2. s.installed = TRUE /\ Fit(s, v.mode) = v.mode
  BY <1>1 DEF Kept, Settings, Fixed, Fit, Able
<1>3. CardInv(t) /\ Kept(s, t) /\ MusicKept(s, t)
  BY <1>1, <1>2, Starts
<1> HIDE DEF t
<1>4. CardInv(u) /\ Kept(c, u) /\ MusicKept(c, u)
  <2>1. CASE v.recording
    <3>1. u = t
      BY <2>1 DEF MV_StopRecord, s, t
    <3> HIDE DEF u
    <3>2. QED BY <1>1, <1>3, <3>1 DEF Kept, Settings, Fixed, MusicKept
  <2>2. CASE ~v.recording
    <3>1. u = c
      BY <2>2
    <3> HIDE DEF u
    <3>2. QED BY <3>1 DEF Kept, Settings, Fixed, MusicKept
  <2>3. QED BY <2>1, <2>2
<1>5. d = CardShutdown(w)
  BY DEF MV_Shutdown
<1> HIDE DEF u, d
<1>6. u.installed = TRUE
  BY <1>4 DEF Kept
<1>7. CardInv(w) /\ Kept(u, w) /\ MusicKept(u, w)
  BY <1>4, <1>6, CardStops
<1> HIDE DEF w
<1>8. w.installed = TRUE
  BY <1>6, <1>7 DEF Kept
<1>9. CardInv(d) /\ Fixed(w, d) /\ MusicKept(w, d) /\ d.installed = FALSE
  BY <1>5, <1>7, <1>8, CardShuts
<1>10. Fixed(c, d) /\ MusicKept(c, d)
  BY <1>4, <1>7, <1>9 DEF Kept, Settings, Fixed, MusicKept
<1>11. QED BY <1>9, <1>10 DEF d

--------------------------------------------------------------------------------
\* What a call ends with.
LEMMA DoneCard ==
    ASSUME NEW c, CardInv(c)
    PROVE  LET d == Done(c) IN CardInv(d) /\ MusicKept(c, d) /\ Alike(c, d)
BY DoneAlike, AlikeCard

\* A call begins with a card like the one that was left.
LEMMA BrokenCard ==
    ASSUME NEW fault, CardInv(m)
    PROVE  LET d == Broken(fault) IN CardInv(d) /\ MusicKept(m, d) /\ Alike(m, d)
BY BrokenAlike, AlikeCard

\* The best mode of a card does not change.
LEMMA AbleFixed ==
    ASSUME NEW c, NEW d, Fixed(c, d)
    PROVE  Able(d) = Able(c) /\ \A mode : Fit(d, mode) = Fit(c, mode)
BY DEF Fixed, Able, Fit

\* Between two calls without playback.
LEMMA AtRest ==
    ASSUME IInv, pc = "idle", ~fx.installed
    PROVE  CardInv(m) /\ m.playing = "off" /\ m.callback = "none"
           /\ ~mv.voices /\ ~mv.buffer /\ ~fx.locked
BY DEF IInv, PhaseInv, Going

\* What is read back of a volume does not change.
LEMMA VolumeStays ==
    ASSUME IInv, m'.kind = m.kind, m'.version = m.version, m'.mixer = m.mixer,
           m'.func = m.func, m'.pcm = m.pcm, m'.mix = m.mix, mv'.volume = mv.volume,
           fx'.asked = fx.asked, pc' = "idle" => pc = "idle" \/ fx.asked = Undefined
    PROVE  VolumeKept'
BY DEF IInv, VolumeKept, FX_GetVolume, B!CardHasMixer, B!GetMixer, P!GetPCMVolume

\* After looking for the card.
LEMMA Found ==
    ASSUME NEW c, NEW d, CardInv(d), Fixed(c, d),
           d.status = "error" \/ d.installed = TRUE \/ d.kind = "SS"
    PROVE  CardInfo(d) \in {NoDevice, Able(c)}
<1>1. CASE d.status = "error"
  BY <1>1 DEF CardInfo
<1>2. CASE d.status # "error"
  <2>1. Able(d) = Able(c)
    BY AbleFixed
  <2>2. CASE d.kind = "SB"
    <3>1. d.version = d.dsp
      BY <1>2, <2>2 DEF CardInv, SBInv
    <3>2. CardInfo(d) = Able(d)
      BY <1>2, <2>2, <3>1 DEF CardInfo, B!GetCardInfo, B!MaxMixMode, Able
    <3>3. QED BY <2>1, <3>2
  <2>3. CASE d.kind = "PAS"
    <3>1. d.wide \in BOOLEAN
      BY <2>3 DEF CardInv, PasInv
    <3>2. CardInfo(d) = Able(d)
      BY <1>2, <2>3, <3>1 DEF CardInfo, P!GetCardInfo, Able
    <3>3. QED BY <2>1, <3>2
  <2>4. CASE d.kind \in {"SS", "DSS"}
    BY <1>2, <2>1, <2>4 DEF CardInfo, S!GetCardInfo, Able
  <2>5. QED BY <2>2, <2>3, <2>4 DEF CardInv, HoldInv
<1>3. QED BY <1>1, <1>2

\* Nothing is played, before and after.
LEMMA RestInv ==
    ASSUME IInv, CardInv(m'), MusicKept(m, m'), Fixed(m, m'), m'.playing = "off",
           m'.callback = "none",
           pc = "idle", pc' = "idle", ~fx.installed, fx'.installed = fx.installed,
           ~mv'.voices /\ ~mv'.buffer /\ ~fx'.locked,
           fx'.last # "shutdown", fx'.asked \in {Undefined, fx.asked},
           fx'.device \in {NoDevice, Able(m)}, music' = music
    PROVE  IInv'
<1>1. CardInv(m)'
  OBVIOUS
<1>2. MusicInv'
  BY DEF IInv, MusicInv, MusicKept, Fixed
<1>3. PhaseInv'
  BY DEF IInv, PhaseInv, Up, Going
<1>4. ModeInv'
  BY AbleFixed DEF ModeInv, Up, Going
<1>5. VolumeKept'
  BY DEF IInv, PhaseInv, VolumeKept
<1>6. QED BY <1>1, <1>2, <1>3, <1>4, <1>5 DEF IInv

\* FX_SetupCard keeps the invariant.
LEMMA SetupCardStep ==
    ASSUME IInv, NEW fault, FX_SetupCard(fault)
    PROVE  IInv'
<1> DEFINE b == Broken(fault)
           found == IF m.kind = "SS" THEN S!FindCard(m) ELSE CardInit(b)
           given == IF m.kind = "DSS" /\ found.status = "ok" THEN D!Shutdown(found) ELSE found
<1>1. /\ CardInv(m) /\ m.playing = "off" /\ m.callback = "none" /\ ~fx.installed /\ pc = "idle"
      /\ ~mv.voices /\ ~mv.buffer /\ ~fx.locked
  BY AtRest DEF FX_SetupCard
<1>2. CardInv(b) /\ MusicKept(m, b) /\ Fixed(m, b) /\ b.playing = "off" /\ b.callback = "none"
  BY <1>1, BrokenCard DEF Alike, Kept, Settings
<1> HIDE DEF b
<1>3. /\ CardInv(found) /\ Fixed(m, found) /\ MusicKept(m, found)
      /\ found.playing = "off" /\ found.callback = "none"
      /\ found.status = "error" \/ found.installed = TRUE \/ found.kind = "SS"
  <2>1. CASE m.kind = "SS"
    <3>1. LET d == S!FindCard(m)
          IN  /\ HoldInv(d) /\ SoundscapeInv(d) /\ Fixed(m, d) /\ MusicKept(m, d)
              /\ d.playing = m.playing /\ d.callback = m.callback
      BY <1>1, <2>1, SoundscapeFind DEF CardInv
    <3>2. found = S!FindCard(m)
      BY <2>1
    <3> HIDE DEF found
    <3>3. QED BY <1>1, <2>1, <3>1, <3>2 DEF Fixed, CardInv
  <2>2. CASE m.kind # "SS"
    <3>1. found = CardInit(b)
      BY <2>2
    <3> HIDE DEF found
    <3>2. QED BY <1>2, <3>1, CardInits DEF Fixed, MusicKept
  <2>3. QED BY <2>1, <2>2
<1>4. /\ m' = Done(given) /\ fx' = [fx EXCEPT !.last = "setup", !.device = CardInfo(found)]
      /\ UNCHANGED <<mv, music, pc>>
  BY DEF FX_SetupCard, b
<1> HIDE DEF found
<1>5. /\ CardInv(given) /\ Fixed(m, given) /\ MusicKept(m, given)
      /\ given.playing = "off" /\ given.callback = "none"
  <2>1. CASE m.kind = "DSS" /\ found.status = "ok"
    <3> DEFINE d == D!Shutdown(found)
    <3>1. found.kind = "DSS" /\ found.installed = TRUE /\ HoldInv(found) /\ DisneyInv(found)
      BY <1>3, <2>1 DEF Fixed, CardInv
    <3>2. /\ HoldInv(d) /\ DisneyInv(d) /\ Fixed(found, d) /\ MusicKept(found, d)
          /\ d.installed = FALSE
      BY <3>1, DisneyShutdown
    <3>3. given = d
      BY <2>1
    <3> HIDE DEF d, given
    <3>4. QED BY <1>3, <3>1, <3>2, <3>3 DEF Fixed, CardInv, MusicKept, HoldInv, LetGo
  <2>2. CASE ~(m.kind = "DSS" /\ found.status = "ok")
    <3>1. given = found
      BY <2>2
    <3> HIDE DEF given
    <3>2. QED BY <1>3, <3>1
  <2>3. QED BY <2>1, <2>2
<1> HIDE DEF given
<1>6. CardInv(m') /\ MusicKept(given, m') /\ Alike(given, m')
  BY <1>4, <1>5, DoneCard
<1>7. Fixed(m, m') /\ MusicKept(m, m') /\ m'.playing = "off" /\ m'.callback = "none"
  BY <1>5, <1>6 DEF Alike, Kept, Settings, Fixed, MusicKept
<1>8. CardInfo(found) \in {NoDevice, Able(m)}
  BY <1>3, Found
<1>9. QED BY <1>1, <1>4, <1>6, <1>7, <1>8, RestInv

\* FX_SetupSoundBlaster keeps the invariant.
LEMMA SetupBlasterStep ==
    ASSUME IInv, NEW fault, FX_SetupSoundBlaster(fault)
    PROVE  IInv'
<1> DEFINE b == Broken(fault)
           s == B!SetCardSettings(b, B!GetEnv(m.env), m.present)
           d == B!Init(s)
<1>1. /\ CardInv(m) /\ m.playing = "off" /\ m.callback = "none" /\ ~fx.installed /\ pc = "idle"
      /\ ~mv.voices /\ ~mv.buffer /\ ~fx.locked
  BY AtRest DEF FX_SetupSoundBlaster
<1>2. /\ CardInv(b) /\ MusicKept(m, b) /\ Fixed(m, b) /\ b.playing = "off"
      /\ b.callback = "none"
      /\ b.kind = "SB" /\ b.env = m.env
  BY <1>1, BrokenCard DEF Alike, Kept, Settings, Fixed, FX_SetupSoundBlaster
<1>3. /\ m' = Done(d) /\ fx' = [fx EXCEPT !.last = "setup", !.device = CardInfo(d)]
      /\ UNCHANGED <<mv, music, pc>>
  BY DEF FX_SetupSoundBlaster
<1> HIDE DEF b
<1>4. /\ HoldInv(s) /\ SBInv(s) /\ Fixed(b, s) /\ MusicKept(b, s) /\ s.playing = "off"
      /\ s.callback = "none" /\ s.installed = FALSE
  <2> DEFINE t == B!SetCardSettings(b, B!GetEnv(b.env), m.present)
  <2>1. /\ HoldInv(t) /\ SBInv(t) /\ Fixed(b, t) /\ MusicKept(b, t) /\ t.playing = "off"
        /\ t.callback = "none" /\ t.installed = FALSE
    BY <1>2, BlasterSettings DEF CardInv
  <2>2. s = t
    BY <1>2
  <2> HIDE DEF s, t
  <2>3. QED BY <2>1, <2>2
<1> HIDE DEF s
<1>5. s.kind = "SB"
  BY <1>2, <1>4 DEF Fixed
<1>6. /\ HoldInv(d) /\ SBInv(d) /\ Fixed(s, d) /\ MusicKept(s, d) /\ d.playing = "off"
      /\ d.callback = "none" /\ (d.status = "error" \/ d.installed = TRUE)
  BY <1>4, <1>5, BlasterInit
<1> HIDE DEF d
<1>7. CardInv(d) /\ Fixed(m, d) /\ MusicKept(m, d)
  BY <1>2, <1>4, <1>5, <1>6 DEF CardInv, Fixed, MusicKept
<1>8. CardInv(m') /\ MusicKept(d, m') /\ Alike(d, m')
  BY <1>3, <1>7, DoneCard
<1>9. Fixed(m, m') /\ MusicKept(m, m') /\ m'.playing = "off" /\ m'.callback = "none"
  BY <1>6, <1>7, <1>8 DEF Alike, Kept, Settings, Fixed, MusicKept
<1>10. CardInfo(d) \in {NoDevice, Able(m)}
  BY <1>6, <1>7, Found
<1>11. QED BY <1>1, <1>3, <1>8, <1>9, <1>10, RestInv

\* FX_Init, up to MV_StartPlayback, keeps the invariant.
LEMMA InitStep ==
    ASSUME IInv, NEW request \in Requests, NEW fault, FX_Init(request, fault)
    PROVE  IInv'
<1> DEFINE b     == Broken(fault)
           ready == IF FailsEarly(fault) THEN m ELSE CardInit(b)
           set   == CardSetMixMode(ready, request.mode)
           fails == FailsEarly(fault) \/ ready.status = "error"
           before == IF fault = "lists" THEN mv ELSE MV_UnlockMemory(mv)
<1>1. /\ CardInv(m) /\ m.playing = "off" /\ m.callback = "none" /\ ~fx.installed /\ pc = "idle"
      /\ ~mv.voices /\ ~mv.buffer /\ ~fx.locked
  BY AtRest DEF FX_Init
<1>2. CardInv(b) /\ MusicKept(m, b) /\ Fixed(m, b) /\ b.playing = "off" /\ b.callback = "none"
  BY <1>1, BrokenCard DEF Alike, Kept, Settings
<1>3. /\ m' = Done(IF fails THEN ready ELSE set)
      /\ mv' = IF fails THEN before ELSE MV_Init(set, request)
      /\ fx' = [fx EXCEPT !.locked = ~fails, !.asked = Undefined, !.last = "init"]
      /\ pc' = IF fails THEN "idle" ELSE "start"
      /\ music' = music
  BY DEF FX_Init
<1>4. ~before.voices /\ ~before.buffer
  BY <1>1 DEF MV_UnlockMemory
<1> HIDE DEF b, before
<1>5. /\ CardInv(ready) /\ Fixed(m, ready) /\ MusicKept(m, ready) /\ ready.playing = "off"
      /\ ready.callback = "none"
      /\ FailsEarly(fault) \/ ready.status = "error" \/ ready.installed = TRUE
  <2>1. CASE FailsEarly(fault)
    <3>1. ready = m
      BY <2>1
    <3> HIDE DEF ready
    <3>2. QED BY <1>1, <2>1, <3>1 DEF Fixed, MusicKept
  <2>2. CASE ~FailsEarly(fault)
    <3>1. ready = CardInit(b)
      BY <2>2
    <3> HIDE DEF ready
    <3>2. QED BY <1>2, <3>1, CardInits DEF Fixed, MusicKept
  <2>3. QED BY <2>1, <2>2
<1> HIDE DEF ready
<1>6. CASE fails
  <2>1. /\ m' = Done(ready) /\ mv' = before /\ pc' = "idle"
        /\ fx' = [fx EXCEPT !.locked = FALSE, !.asked = Undefined, !.last = "init"]
    BY <1>3, <1>6
  <2>2. CardInv(m') /\ MusicKept(ready, m') /\ Alike(ready, m')
    BY <1>5, <2>1, DoneCard
  <2>3. Fixed(m, m') /\ MusicKept(m, m') /\ m'.playing = "off" /\ m'.callback = "none"
    BY <1>5, <2>2 DEF Alike, Kept, Settings, Fixed, MusicKept
  <2>4. fx.device \in {NoDevice, Able(m)}
    BY DEF IInv, ModeInv
  <2>5. /\ fx'.installed = fx.installed /\ fx'.last = "init" /\ fx'.asked = Undefined
        /\ fx'.device = fx.device /\ fx'.locked = FALSE
    BY <2>1
  <2>6. ~mv'.voices /\ ~mv'.buffer
    BY <1>4, <2>1
  <2>7. QED BY <1>1, <1>3, <2>1, <2>2, <2>3, <2>4, <2>5, <2>6, RestInv
<1>7. CASE ~fails
  <2>1. /\ m' = Done(set) /\ mv' = MV_Init(set, request) /\ pc' = "start"
        /\ fx' = [fx EXCEPT !.locked = TRUE, !.asked = Undefined, !.last = "init"]
    <3> HIDE DEF set
    <3>1. QED BY <1>3, <1>7
  <2>2. request.mode \in Modes
    BY ArgumentsAssumption
  <2>3. ready.installed = TRUE
    BY <1>5, <1>7
  <2>4. /\ CardInv(set) /\ Same(ready, set) /\ MusicKept(ready, set)
        /\ set.mode = Fit(ready, request.mode)
    BY <1>5, <2>2, <2>3, CardModes
  <2> HIDE DEF set
  <2>5. CardInv(m') /\ MusicKept(set, m') /\ Alike(set, m')
    BY <2>1, <2>4, DoneCard
  <2>6. /\ Fixed(m, m') /\ MusicKept(m, m') /\ m'.playing = "off" /\ m'.callback = "none"
        /\ m'.installed = TRUE
    BY <1>5, <2>3, <2>4, <2>5 DEF Alike, Same, Kept, Settings, Fixed, MusicKept
  <2>7. /\ mv'.voices = TRUE /\ mv'.buffer = TRUE /\ mv'.asked = request.mode
        /\ mv'.mode = set.mode
    BY <2>1 DEF MV_Init, MV_LockMemory, NoMV
  <2>8. mv'.mode = Fit(m', request.mode)
    BY <1>5, <2>4, <2>6, <2>7, AbleFixed DEF Fit
  <2>9. MusicInv'
    BY <1>3, <2>6 DEF IInv, MusicInv, MusicKept, Fixed
  <2>10. PhaseInv'
    BY <1>1, <1>3, <2>1, <2>6, <2>7 DEF IInv, PhaseInv, Up, Going
  <2>11. ModeInv'
    BY <1>1, <1>3, <2>1, <2>2, <2>6, <2>7, <2>8, AbleFixed DEF IInv, ModeInv, Up, Going
  <2>12. VolumeKept'
    BY <2>1 DEF VolumeKept
  <2>13. QED BY <2>5, <2>9, <2>10, <2>11, <2>12 DEF IInv
<1>8. QED BY <1>6, <1>7

\* With its voices and its buffer.
LEMMA WhileUp ==
    ASSUME IInv, Up
    PROVE  CardInv(m) /\ m.installed = TRUE /\ mv.mode \in Modes /\ Fit(m, mv.mode) = mv.mode
<1>1. CardInv(m) /\ m.installed = TRUE
  BY DEF IInv, PhaseInv, CardInv, HoldInv
<1>2. mv.asked \in Modes /\ mv.mode = Fit(m, mv.asked)
  BY DEF IInv, ModeInv
<1>3. QED BY <1>1, <1>2, ModesFit

\* After MV_Shutdown what is left is to free memory.
LEMMA ShutInv ==
    ASSUME IInv, NEW c, CardInv(c), c.installed = TRUE, Fixed(m, c), MusicKept(m, c),
           mv.mode \in Modes, Fit(c, mv.mode) = mv.mode,
           m' = Done(MV_Shutdown(c, mv)), mv' = [mv EXCEPT !.installed = FALSE],
           pc' = "free", fx' = fx, music' = music,
           fx.last # "shutdown"
    PROVE  IInv'
<1> DEFINE d == MV_Shutdown(c, mv)
<1>1. CardInv(d) /\ Fixed(c, d) /\ MusicKept(c, d) /\ d.installed = FALSE
  BY ShutsDown
<1> HIDE DEF d
<1>2. CardInv(m') /\ MusicKept(d, m') /\ Alike(d, m')
  BY <1>1, DoneCard DEF d
<1>3. Fixed(m, m') /\ MusicKept(m, m') /\ m'.installed = FALSE
  BY <1>1, <1>2 DEF Alike, Kept, Settings, Fixed, MusicKept
<1>4. m'.playing = "off" /\ m'.callback = "none"
  BY <1>2, <1>3 DEF CardInv, HoldInv, LetGo
<1>5. MusicInv'
  BY <1>3 DEF IInv, MusicInv, MusicKept, Fixed
<1>6. PhaseInv'
  BY <1>3, <1>4 DEF IInv, PhaseInv, Up, Going
<1>7. ModeInv'
  BY <1>3, <1>4, AbleFixed DEF IInv, ModeInv, Up, Going
<1>8. VolumeKept'
  BY DEF VolumeKept
<1>9. QED BY <1>2, <1>5, <1>6, <1>7, <1>8 DEF IInv

\* It plays for Multivoc, or refuses to.
LEMMA GoesOn ==
    ASSUME IInv, NEW c, CardInv(c), Fixed(m, c), MusicKept(m, c), c.installed = TRUE,
           m' = Done(c), music' = music
    PROVE  /\ CardInv(m') /\ MusicInv' /\ Fixed(m, m') /\ m'.installed = TRUE
           /\ m'.playing = c.playing /\ m'.callback = c.callback /\ m'.mode = c.mode
           /\ m'.length = c.length /\ m'.rate = c.rate /\ m'.channel = c.channel
           /\ m'.task = c.task /\ m'.kind = m.kind
<1>1. CardInv(m') /\ MusicKept(c, m') /\ Alike(c, m')
  BY DoneCard
<1>2. Fixed(m, m') /\ MusicKept(m, m')
  BY <1>1 DEF Alike, Kept, Settings, Fixed, MusicKept
<1>3. MusicInv'
  BY <1>2 DEF IInv, MusicInv, MusicKept, Fixed
<1>4. QED BY <1>1, <1>2, <1>3 DEF Alike, Kept, Settings, Fixed, Held, Works

\* The end of FX_Init keeps the invariant.
LEMMA StartStep ==
    ASSUME IInv, NEW fault, MV_StartPlayback(fault)
    PROVE  IInv'
<1> DEFINE b == Broken(fault)
           begun == Started(b, mv)
<1>1. /\ pc = "start" /\ fx' = fx /\ music' = music
      /\ IF begun.status = "ok"
         THEN m' = Done(begun) /\ mv' = Playing(begun, mv) /\ pc' = "test"
         ELSE /\ m' = Done(MV_Shutdown(begun, mv))
              /\ mv' = [mv EXCEPT !.installed = FALSE]
              /\ pc' = "free"
  BY DEF MV_StartPlayback
<1>2. /\ CardInv(m) /\ m.installed = TRUE /\ mv.mode \in Modes /\ Fit(m, mv.mode) = mv.mode
      /\ m.playing = "off" /\ ~fx.installed /\ fx.last # "shutdown" /\ fx.asked = Undefined
      /\ mv.voices /\ mv.buffer /\ mv.asked \in Modes /\ mv.mode = Fit(m, mv.asked)
  BY <1>1, WhileUp DEF IInv, PhaseInv, ModeInv, Up, Going
<1>3. /\ CardInv(b) /\ MusicKept(m, b) /\ Fixed(m, b) /\ b.installed = TRUE /\ b.kind = m.kind
      /\ Fit(b, mv.mode) = mv.mode
  <2>1. CardInv(b) /\ MusicKept(m, b) /\ Alike(m, b)
    BY <1>2, BrokenCard
  <2> HIDE DEF b
  <2>2. QED BY <1>2, <2>1, AbleFixed DEF Alike, Kept, Settings, Fixed
<1> HIDE DEF b
<1>4. /\ CardInv(begun) /\ Kept(b, begun) /\ MusicKept(b, begun)
      /\ PlaysFor(b, begun, mv) \/ Refused(b, begun)
  BY <1>2, <1>3, Starts
<1> HIDE DEF begun
<1>5. /\ Fixed(m, begun) /\ MusicKept(m, begun) /\ begun.installed = TRUE
      /\ Fit(begun, mv.mode) = mv.mode
  <2>1. Fixed(m, begun) /\ MusicKept(m, begun) /\ begun.installed = TRUE
    BY <1>3, <1>4 DEF Kept, Settings, Fixed, MusicKept
  <2>2. QED BY <1>2, <2>1, AbleFixed
<1>6. CASE begun.status = "ok"
  <2>1. m' = Done(begun) /\ mv' = Playing(begun, mv) /\ pc' = "test"
    BY <1>1, <1>6
  <2>2. PlaysFor(b, begun, mv)
    BY <1>4, <1>6 DEF Refused
  <2>3. /\ CardInv(m') /\ MusicInv' /\ Fixed(m, m') /\ m'.installed = TRUE
        /\ m'.playing = begun.playing /\ m'.callback = begun.callback /\ m'.mode = begun.mode
        /\ m'.length = begun.length /\ m'.rate = begun.rate /\ m'.channel = begun.channel
        /\ m'.kind = m.kind
    BY <1>1, <1>4, <1>5, <2>1, GoesOn
  <2>4. /\ mv'.voices = mv.voices /\ mv'.buffer = mv.buffer /\ mv'.asked = mv.asked
        /\ mv'.mode = mv.mode
    BY <2>1 DEF Playing
  <2>5. PhaseInv'
    BY <1>1, <1>2, <2>1, <2>3, <2>4 DEF IInv, PhaseInv, Up, Going
  <2>6. ModeInv'
    BY <1>1, <1>2, <1>3, <2>1, <2>2, <2>3, <2>4, AbleFixed
       DEF IInv, ModeInv, Up, Going, PlaysFor, Playing, BufferSize, SampleSize
  <2>7. VolumeKept'
    BY <2>1 DEF VolumeKept
  <2>8. QED BY <2>3, <2>5, <2>6, <2>7 DEF IInv
<1>7. CASE begun.status # "ok"
  <2>1. /\ m' = Done(MV_Shutdown(begun, mv)) /\ mv' = [mv EXCEPT !.installed = FALSE]
        /\ pc' = "free"
    BY <1>1, <1>7
  <2>2. QED BY <1>1, <1>2, <1>4, <1>5, <2>1, ShutInv
<1>8. QED BY <1>6, <1>7

\* The pages that MV_TestPlayback waits for keep the invariant.
LEMMA TestStep == ASSUME IInv, MV_TestPlayback PROVE IInv'
<1>1. pc = "test" /\ music' = music
  BY DEF MV_TestPlayback
<1>2. /\ CardInv(m) /\ m.installed = TRUE /\ mv.mode \in Modes /\ Fit(m, mv.mode) = mv.mode
      /\ fx.last # "shutdown" /\ fx.asked = Undefined /\ mv.voices /\ mv.buffer
  BY <1>1, WhileUp DEF IInv, PhaseInv, Up
<1>3. CASE mv.page # 1 /\ fx' = [fx EXCEPT !.installed = TRUE] /\ pc' = "idle"
           /\ UNCHANGED <<m, mv>>
  <2>1. /\ fx'.last = fx.last /\ fx'.asked = fx.asked /\ fx'.device = fx.device
        /\ fx'.installed \in BOOLEAN
    BY <1>3 DEF IInv, PhaseInv
  <2>2. MusicInv'
    BY <1>1, <1>3 DEF IInv, MusicInv
  <2>3. PhaseInv'
    BY <1>1, <1>2, <1>3, <2>1 DEF IInv, PhaseInv, Up, Going
  <2>4. ModeInv'
    BY <1>1, <1>3, <2>1 DEF IInv, ModeInv, Up, Going, Recordable
  <2>5. VolumeKept'
    BY <1>2, <1>3, <2>1 DEF VolumeKept
  <2>6. QED BY <1>2, <1>3, <2>2, <2>3, <2>4, <2>5 DEF IInv
<1>4. CASE /\ m' = Done(MV_Shutdown(m, mv)) /\ mv' = [mv EXCEPT !.installed = FALSE]
           /\ pc' = "free" /\ fx' = fx
  <2>1. Fixed(m, m) /\ MusicKept(m, m)
    BY DEF Fixed, MusicKept
  <2>2. QED BY <1>1, <1>2, <1>4, <2>1, ShutInv
<1>5. QED BY <1>3, <1>4 DEF MV_TestPlayback

\* FX_Shutdown keeps the invariant.
LEMMA ShutdownStep == ASSUME IInv, FX_Shutdown PROVE IInv'
<1>1. /\ pc = "idle" /\ fx.installed /\ m' = Done(MV_Shutdown(m, mv)) /\ pc' = "free"
      /\ mv' = [mv EXCEPT !.installed = FALSE] /\ fx' = fx /\ music' = music
  BY DEF FX_Shutdown
<1>2. /\ CardInv(m) /\ m.installed = TRUE /\ mv.mode \in Modes /\ Fit(m, mv.mode) = mv.mode
      /\ fx.last # "shutdown"
  BY <1>1, WhileUp DEF IInv, PhaseInv, Up
<1>3. Fixed(m, m) /\ MusicKept(m, m)
  BY DEF Fixed, MusicKept
<1>4. QED BY <1>1, <1>2, <1>3, ShutInv

\* The end of FX_Shutdown, and of an FX_Init that fails, keeps the invariant.
LEMMA FreeStep == ASSUME IInv, MV_Free PROVE IInv'
<1>1. /\ pc = "free" /\ mv' = [mv EXCEPT !.voices = FALSE, !.buffer = FALSE] /\ pc' = "idle"
      /\ fx' = [fx EXCEPT !.installed = FALSE, !.locked = FALSE, !.asked = Undefined,
                          !.last = "shutdown"]
      /\ m' = m /\ music' = music
  BY DEF MV_Free
<1>2. m.playing = "off" /\ m.callback = "none" /\ ~m.installed
  BY <1>1 DEF IInv, PhaseInv, Going
<1>3. ~mv'.voices /\ ~mv'.buffer
  BY <1>1
<1>4. fx'.installed = FALSE /\ fx'.asked = Undefined /\ fx'.device = fx.device /\ ~fx'.locked
  BY <1>1
<1>5. MusicInv'
  BY <1>1 DEF IInv, MusicInv
<1>6. PhaseInv'
  BY <1>1, <1>2, <1>3, <1>4 DEF PhaseInv, Up, Going
<1>7. ModeInv'
  BY <1>1, <1>2, <1>4 DEF IInv, ModeInv, Up, Going
<1>8. VolumeKept'
  BY <1>4 DEF VolumeKept
<1>9. QED BY <1>1, <1>5, <1>6, <1>7, <1>8 DEF IInv

--------------------------------------------------------------------------------
\* Recordings.
LEMMA RecordStep ==
    ASSUME IInv, NEW rate, FX_StartRecording(rate)
    PROVE  IInv'
<1> DEFINE s == CardStop(m)
           d == CardBegin(s, "record", NumberOfBuffers, rate, Mono8, "MV_ServiceRecord")
<1>1. /\ pc = "idle" /\ fx.installed /\ Recordable /\ fx' = fx /\ music' = music /\ pc' = pc
      /\ m' = Done(d)
      /\ mv' = [mv EXCEPT !.page = 0, !.recording = @ \/ d.status = "ok"]
  BY DEF FX_StartRecording, MV_StartRecording
<1>2. CardInv(m) /\ m.installed = TRUE /\ m.kind \in {"SB", "PAS"}
  BY <1>1, WhileUp DEF Up, Recordable
<1>3. CardInv(s) /\ Kept(m, s) /\ MusicKept(m, s)
  BY <1>2, CardStops
<1> HIDE DEF s
<1>4. s.installed = TRUE /\ s.kind = m.kind /\ Fit(s, Mono8) = Mono8 /\ Mono8 \in Modes
  <2>1. s.installed = TRUE /\ s.kind = m.kind
    BY <1>2, <1>3 DEF Kept, Settings, Fixed
  <2>2. QED BY <1>3, <2>1, ModesFit DEF Modes, Mono8
<1>5. /\ CardInv(d) /\ Kept(s, d) /\ MusicKept(s, d)
      /\ \/ Underway(d, "record", NumberOfBuffers, IF s.kind = "DSS" THEN s.mode ELSE Mono8,
                     "MV_ServiceRecord")
         \/ Refused(s, d) /\ s.kind = "SB"
  BY <1>2, <1>3, <1>4, CardBegins DEF Runs
<1> HIDE DEF d
<1>6. /\ Fixed(m, d) /\ MusicKept(m, d) /\ d.installed = TRUE
      /\ Kept(m, d)
  BY <1>2, <1>3, <1>5 DEF Kept, Settings, Fixed, MusicKept
<1>7. d.playing = "off" \/ (d.playing = "record" /\ d.mode = Mono8 /\ d.length = MixBufferSize)
  BY <1>2, <1>4, <1>5, PageLength DEF Underway, Refused
<1>8. /\ CardInv(m') /\ MusicInv' /\ Fixed(m, m') /\ m'.installed = TRUE
      /\ m'.playing = d.playing /\ m'.mode = d.mode /\ m'.length = d.length /\ m'.kind = m.kind
  BY <1>1, <1>5, <1>6, GoesOn
<1>9. /\ mv'.voices = mv.voices /\ mv'.buffer = mv.buffer /\ mv'.asked = mv.asked
      /\ mv'.mode = mv.mode /\ mv'.volume = mv.volume
  BY <1>1
<1>10. PhaseInv'
  BY <1>1, <1>8, <1>9 DEF IInv, PhaseInv, Up, Going
<1>11. ModeInv'
  BY <1>1, <1>2, <1>7, <1>8, <1>9, AbleFixed DEF IInv, ModeInv, Up, Going, Recordable
<1>12. VolumeKept'
  <2>1. Alike(d, m')
    BY <1>1, DoneAlike
  <2>2. Kept(m, m')
    BY <1>6, <2>1 DEF Alike, Kept, Settings, Fixed
  <2>3. QED BY <1>1, <1>9, <2>2, VolumeStays DEF Kept, Settings, Fixed
<1>13. QED BY <1>8, <1>10, <1>11, <1>12 DEF IInv

\* FX_StopRecord keeps the invariant: the library plays again, or is silent.
LEMMA StopRecordStep == ASSUME IInv, FX_StopRecord PROVE IInv'
<1> DEFINE s == CardStop(m)
           d == Started(s, mv)
<1>1. /\ pc = "idle" /\ fx.installed /\ Recordable /\ fx' = fx /\ music' = music /\ pc' = pc
      /\ m' = d /\ mv' = [Playing(m', mv) EXCEPT !.recording = FALSE]
  BY DEF FX_StopRecord, MV_StopRecord
<1>2. /\ CardInv(m) /\ m.installed = TRUE /\ mv.mode \in Modes /\ Fit(m, mv.mode) = mv.mode
      /\ m.kind \in {"SB", "PAS"}
  BY <1>1, WhileUp DEF Up, Recordable
<1>3. CardInv(s) /\ Kept(m, s) /\ MusicKept(m, s)
  BY <1>2, CardStops
<1> HIDE DEF s
<1>4. s.installed = TRUE /\ s.kind = m.kind /\ Fit(s, mv.mode) = mv.mode
  BY <1>2, <1>3, AbleFixed DEF Kept, Settings, Fixed
<1>5. /\ CardInv(d) /\ Kept(s, d) /\ MusicKept(s, d)
      /\ PlaysFor(s, d, mv) \/ (Refused(s, d) /\ s.kind = "SB")
  BY <1>2, <1>3, <1>4, Starts
<1> HIDE DEF d
<1>6. /\ Kept(m, m') /\ Fixed(m, m') /\ MusicKept(m, m') /\ m'.installed = TRUE
      /\ m'.kind = m.kind
  BY <1>1, <1>2, <1>3, <1>5 DEF Kept, Settings, Fixed, MusicKept
<1>7. \/ m'.playing = "off"
      \/ m'.playing = "play" /\ m'.mode = mv.mode /\ m'.length = BufferSize(mv.mode)
  BY <1>1, <1>2, <1>4, <1>5 DEF PlaysFor, Refused
<1>8. /\ mv'.voices = mv.voices /\ mv'.buffer = mv.buffer /\ mv'.asked = mv.asked
      /\ mv'.mode = mv.mode /\ mv'.volume = mv.volume
  BY <1>1 DEF Playing
<1>9. MusicInv'
  BY <1>1, <1>6 DEF IInv, MusicInv, MusicKept, Fixed
<1>10. PhaseInv'
  BY <1>1, <1>6, <1>8 DEF IInv, PhaseInv, Up, Going
<1>11. ModeInv'
  BY <1>1, <1>2, <1>6, <1>7, <1>8, AbleFixed
     DEF IInv, ModeInv, Up, Going, Recordable, Playing, BufferSize, SampleSize
<1>12. VolumeKept'
  BY <1>1, <1>6, <1>8, VolumeStays DEF Kept, Settings, Fixed
<1>13. QED BY <1>1, <1>5, <1>9, <1>10, <1>11, <1>12 DEF IInv

--------------------------------------------------------------------------------
\* The card interrupts.
LEMMA InterruptStep == ASSUME IInv, Interrupt PROVE IInv'
<1> DEFINE d == Interrupted(m)
<1>1. /\ Moves(m) /\ fx' = fx /\ music' = music /\ pc' = pc /\ m' = d
      /\ \/ mv' = mv
         \/ mv' = [mv EXCEPT !.page = (mv.page + 1) % Pages(m.callback)]
  BY DEF Interrupt, Interrupted, Moved
<1>2. CardInv(m)
  BY DEF IInv
<1>3. CardInv(d) /\ Ran(m, d) /\ MusicKept(m, d) /\ (m.kind = "DSS" => m.task = TRUE)
  BY <1>1, <1>2, CardInterrupted
<1> HIDE DEF d
<1>4. /\ Fixed(m, m') /\ Kept(m, m') /\ m'.installed = m.installed /\ m'.kind = m.kind
      /\ m'.playing = m.playing /\ m'.callback = m.callback /\ m'.mode = m.mode
      /\ m'.length = m.length /\ m'.rate = m.rate /\ m'.channel = m.channel
      /\ m'.task = m.task
  BY <1>1, <1>3 DEF Ran, Kept, Settings, Fixed, Held
<1>5. /\ mv'.voices = mv.voices /\ mv'.buffer = mv.buffer /\ mv'.asked = mv.asked
      /\ mv'.mode = mv.mode /\ mv'.volume = mv.volume /\ mv'.rate = mv.rate
      /\ mv'.channel = mv.channel
  <2>1. CASE mv' = mv
    BY <2>1
  <2>2. CASE mv' = [mv EXCEPT !.page = (mv.page + 1) % Pages(m.callback)]
    BY <2>2
  <2>3. QED BY <1>1, <2>1, <2>2
<1>6. MusicInv'
  BY <1>1, <1>3, <1>4 DEF IInv, MusicInv, MusicKept, Fixed
<1>7. PhaseInv'
  BY <1>1, <1>4, <1>5 DEF IInv, PhaseInv, Up, Going
<1>8. ModeInv'
  BY <1>1, <1>3, <1>4, <1>5, AbleFixed
     DEF IInv, ModeInv, Up, Going, Recordable, BufferSize, SampleSize
<1>9. VolumeKept'
  BY <1>1, <1>4, <1>5, VolumeStays DEF Kept, Settings, Fixed
<1>10. QED BY <1>1, <1>3, <1>6, <1>7, <1>8, <1>9 DEF IInv

--------------------------------------------------------------------------------
\* What the music changes: of the voices and of what plays nothing.
Interfaces == {"none", "intelligent", "uart"}

MidiTuned(c, d) ==
    /\ Fixed(c, d) /\ d.irq = c.irq /\ d.config = c.config /\ d.version = c.version
    /\ d.mixer = c.mixer /\ d.found = c.found /\ d.installed = c.installed
    /\ d.func = c.func \/ (d.func = TRUE /\ c.present = TRUE)
    /\ d.mpu \in BOOLEAN \/ d.mpu = c.mpu
    /\ d.state \in BOOLEAN \/ d.state = c.state
    /\ d.unpaired \in BOOLEAN \/ d.unpaired = c.unpaired
    /\ DOMAIN d.mix = DOMAIN c.mix /\ DOMAIN d.volume = DOMAIN c.volume
    /\ c.kind = "SB" => d.volume.voice = c.volume.voice /\ d.mix.voice = c.mix.voice
    /\ c.kind = "SB" => c.version # 0 \/ (d.mix = c.mix /\ d.mpu = c.mpu)
    /\ c.kind = "PAS" => d.volume.pcm = c.volume.pcm
    /\ d.pcm = c.pcm
    /\ Held(c, d) /\ Works(c, d) /\ d.masked = c.masked /\ d.exposed = c.exposed
    /\ d.playing = c.playing /\ d.callback = c.callback

\* What is sent to the interface.
Sent(c, d) ==
    /\ MidiTuned(c, d) /\ d.mix = c.mix /\ d.volume = c.volume /\ d.mpu = c.mpu
    /\ d.state = c.state /\ d.unpaired = c.unpaired /\ d.func = c.func /\ d.fm = c.fm

\* The MIDI volumes are volumes.
LEMMA MidiTunedTuned == ASSUME NEW c, NEW d, MidiTuned(c, d) PROVE Tuned(c, d)
BY DEF MidiTuned, Tuned

\* What sets the MIDI volumes one after another sets the MIDI volumes.
LEMMA MidiTunedOn ==
    ASSUME NEW c, NEW d, NEW e, MidiTuned(c, d), MidiTuned(d, e)
    PROVE  MidiTuned(c, e)
BY DEF MidiTuned, Fixed, Held, Works

\* What a call ends with is like what it has done.
LEMMA DoneTuned == ASSUME NEW c PROVE MidiTuned(c, Done(c)) /\ Sent(c, Done(c))
                          /\ Done(c).interface = c.interface
BY DEF MidiTuned, Done, Fixed, Held, Works, Sent

\* Bytes sent one after another are bytes sent.
LEMMA SentOn ==
    ASSUME NEW c, NEW d, NEW e, Sent(c, d), Sent(d, e)
    PROVE  Sent(c, e)
BY DEF Sent, MidiTuned, Fixed, Held, Works

\* The interface.
LEMMA ResetSends ==
    ASSUME NEW c, c.interface \in Interfaces
    PROVE  LET d == U!Reset(c)
           IN  /\ Sent(c, d) /\ d.interface \in Interfaces \ {"uart"}
               /\ d.status \in {"ok", "error"}
<1> DEFINE d == U!Reset(c)
<1>1. CASE c.interface = "none"
  <2>1. d = [c EXCEPT !.status = "error"]
    BY <1>1 DEF U!Reset, U!Answered, U!Failed
  <2> HIDE DEF d
  <2>2. Sent(c, d)
    BY <2>1 DEF Sent, MidiTuned, Fixed, Held, Works
  <2>3. QED BY <1>1, <2>1, <2>2 DEF Interfaces, d
<1>2. CASE c.interface = "intelligent"
  <2>1. d = [[c EXCEPT !.interface = "intelligent"] EXCEPT !.status = "ok"]
    BY <1>2 DEF U!Reset, U!Answered, U!Ok
  <2> HIDE DEF d
  <2>2. Sent(c, d)
    BY <2>1 DEF Sent, MidiTuned, Fixed, Held, Works
  <2>3. QED BY <1>2, <2>1, <2>2 DEF Interfaces, d
<1>3. CASE c.interface = "uart"
  <2>1. d = [[c EXCEPT !.interface = "intelligent"] EXCEPT !.status = "error"]
    BY <1>3 DEF U!Reset, U!Answered, U!Failed
  <2> HIDE DEF d
  <2>2. Sent(c, d)
    BY <2>1 DEF Sent, MidiTuned, Fixed, Held, Works
  <2>3. QED BY <1>3, <2>1, <2>2 DEF Interfaces, d
<1>4. QED BY <1>1, <1>2, <1>3 DEF Interfaces

\* MPU_EnterUART leaves the interface in a mode it knows.
LEMMA EnterSends ==
    ASSUME NEW c, c.interface \in Interfaces \ {"uart"}
    PROVE  LET d == U!EnterUART(c)
           IN  /\ Sent(c, d) /\ d.interface \in Interfaces /\ d.status \in {"ok", "error"}
               /\ d.status = "error" => d.interface # "uart"
<1> DEFINE d == U!EnterUART(c)
<1>1. CASE c.interface = "none"
  <2>1. d = [c EXCEPT !.status = "error"]
    BY <1>1 DEF U!EnterUART, U!Answered, U!Failed
  <2> HIDE DEF d
  <2>2. Sent(c, d)
    BY <2>1 DEF Sent, MidiTuned, Fixed, Held, Works
  <2>3. QED BY <1>1, <2>1, <2>2 DEF Interfaces, d
<1>2. CASE c.interface = "intelligent"
  <2>1. d = [[c EXCEPT !.interface = "uart"] EXCEPT !.status = "ok"]
    BY <1>2 DEF U!EnterUART, U!Answered, U!Ok
  <2> HIDE DEF d
  <2>2. Sent(c, d)
    BY <2>1 DEF Sent, MidiTuned, Fixed, Held, Works
  <2>3. QED BY <1>2, <2>1, <2>2 DEF Interfaces, d
<1>3. QED BY <1>1, <1>2 DEF Interfaces

\* One more MPU_Reset of MPU_Init, if the last one failed.
LEMMA AgainSends ==
    ASSUME NEW c, c.interface \in Interfaces \ {"uart"}, c.status \in {"ok", "error"}
    PROVE  LET d == U!ResetAgain(c)
           IN  /\ Sent(c, d) /\ d.interface \in Interfaces \ {"uart"}
               /\ d.status \in {"ok", "error"}
<1> DEFINE d == U!ResetAgain(c)
<1>1. CASE c.status = "ok"
  <2>1. d = c
    BY <1>1 DEF U!ResetAgain
  <2> HIDE DEF d
  <2>2. Sent(c, d)
    BY <2>1 DEF Sent, MidiTuned, Fixed, Held, Works
  <2>3. QED BY <2>1, <2>2 DEF d
<1>2. CASE c.status # "ok"
  <2>1. d = U!Reset(c)
    BY <1>2 DEF U!ResetAgain
  <2> DEFINE r == U!Reset(c)
  <2>2. Sent(c, r) /\ r.interface \in Interfaces \ {"uart"} /\ r.status \in {"ok", "error"}
    BY ResetSends
  <2> HIDE DEF r, d
  <2>3. d = r
    BY <2>1 DEF r
  <2>4. QED BY <2>2, <2>3 DEF d
<1>3. QED BY <1>1, <1>2

\* MPU_Init leaves the interface in a mode it knows.
LEMMA InitSends ==
    ASSUME NEW c, c.interface \in Interfaces
    PROVE  LET d == U!Init(c)
           IN  /\ Sent(c, d) /\ d.interface \in Interfaces /\ d.status \in {"ok", "error"}
               /\ d.status = "error" => d.interface # "uart"
<1> DEFINE r == U!Reset(c)
           s == U!ResetAgain(r)
           t == U!ResetAgain(s)
           u == U!ResetAgain(t)
           d == U!Init(c)
<1>1. Sent(c, r) /\ r.interface \in Interfaces \ {"uart"} /\ r.status \in {"ok", "error"}
  BY ResetSends
<1>2. d = IF u.status = "ok" THEN U!EnterUART(u) ELSE u
  BY DEF U!Init
<1> HIDE DEF r, d
<1>3. Sent(r, s) /\ s.interface \in Interfaces \ {"uart"} /\ s.status \in {"ok", "error"}
  BY <1>1, AgainSends
<1> HIDE DEF s
<1>4. Sent(s, t) /\ t.interface \in Interfaces \ {"uart"} /\ t.status \in {"ok", "error"}
  BY <1>3, AgainSends
<1> HIDE DEF t
<1>5. Sent(t, u) /\ u.interface \in Interfaces \ {"uart"} /\ u.status \in {"ok", "error"}
  BY <1>4, AgainSends
<1> HIDE DEF u
<1>6. Sent(c, u)
  BY <1>1, <1>3, <1>4, <1>5, SentOn
<1>7. CASE u.status = "ok"
  <2>1. /\ Sent(u, d) /\ d.interface \in Interfaces /\ d.status \in {"ok", "error"}
        /\ d.status = "error" => d.interface # "uart"
    BY <1>2, <1>5, <1>7, EnterSends
  <2>2. QED BY <1>6, <2>1, SentOn DEF d
<1>8. CASE u.status # "ok"
  <2>1. d = u
    BY <1>2, <1>8
  <2>2. QED BY <1>5, <1>6, <1>8, <2>1 DEF Interfaces, d
<1>9. QED BY <1>7, <1>8

--------------------------------------------------------------------------------
\* Volumes and music, between the calls that start and stop the playback.
LEMMA PlainInv ==
    ASSUME IInv, CardInv(m'), Fixed(m, m'), Music(m', music'), VolumeKept',
           m'.installed = m.installed, m'.playing = m.playing, m'.callback = m.callback,
           m'.mode = m.mode, m'.length = m.length, m'.rate = m.rate, m'.task = m.task,
           m.playing # "off" => m'.channel = m.channel,
           mv'.voices = mv.voices, mv'.buffer = mv.buffer, mv'.asked = mv.asked,
           mv'.mode = mv.mode, mv'.rate = mv.rate, mv'.channel = mv.channel,
           fx'.installed = fx.installed, fx'.last = fx.last, fx'.device = fx.device,
           fx'.locked = fx.locked, fx'.asked = fx.asked \/ (pc = "idle" /\ fx.installed),
           pc = "idle", pc' = pc
    PROVE  IInv'
<1>1. MusicInv'
  BY DEF IInv, MusicInv, Fixed
<1>2. PhaseInv'
  BY DEF IInv, PhaseInv, Up, Going
<1>3. ModeInv'
  BY AbleFixed DEF IInv, ModeInv, Up, Going, Recordable, BufferSize, SampleSize, Fixed
<1>4. QED BY <1>1, <1>2, <1>3 DEF IInv

\* The mixer that a Sound Blaster really has is the one of its DSP.
LEMMA FittingMixer ==
    ASSUME NEW c, c.kind = "SB", SBInv(c), c.version # 0
    PROVE  /\ c.version = c.dsp /\ c.dsp \in Nat /\ (TypeFits(c) => c.mixer = B!MixerOf(c.dsp))
           /\ c.installed = TRUE => c.mixer = B!MixerOf(c.dsp)
BY DEF SBInv, Unset, SetOnce, TypeFits

\* BLASTER_SetVoiceVolume writes the voice volume and nothing else.
LEMMA SetMixerVoice ==
    ASSUME NEW c, NEW volume \in 0..MaxTotalVolume, c.kind = "SB", CardInv(c),
           c.installed = TRUE,
           B!CardHasMixer(c)
    PROVE  LET d == B!SetMixer(c, "voice", volume)
           IN  /\ Tuned(c, d) /\ MusicKept(c, d)
               /\ B!GetMixer(d, "voice") \in (volume - 15)..(volume + 15)
<1> DEFINE d == B!SetMixer(c, "voice", volume)
           q == B!Quantized(c, volume)
<1>1. SBInv(c) /\ c.version = c.dsp /\ c.mixer = B!MixerOf(c.dsp) /\ c.dsp \in Nat
  BY DEF CardInv, SBInv
<1>2. c.mixer # "none" /\ c.version # 0
  BY <1>1 DEF B!CardHasMixer, B!MixerOf
<1>3. B!Byte(volume) = volume
  BY DEF B!Byte, B!MaxOf, B!MinOf, MaxTotalVolume
<1>4. d = [c EXCEPT !.mix["voice"] = <<q, q>>]
  BY <1>2, <1>3 DEF B!SetMixer
<1>5. q \in (volume - 15)..volume
  <2>1. volume \in Nat
    BY DEF MaxTotalVolume
  <2>2. /\ (volume \div 16) * 16 \in (volume - 15)..volume
        /\ (volume \div 8) * 8 \in (volume - 15)..volume
    BY <2>1
  <2>3. QED BY <2>2 DEF B!Quantized
<1> HIDE DEF d, q
<1>6. /\ d.mix = [c.mix EXCEPT !["voice"] = <<q, q>>] /\ Fixed(c, d) /\ Held(c, d)
      /\ Works(c, d)
      /\ d.irq = c.irq /\ d.config = c.config /\ d.version = c.version /\ d.mixer = c.mixer
      /\ d.found = c.found /\ d.installed = c.installed /\ d.func = c.func /\ d.mpu = c.mpu
      /\ d.state = c.state /\ d.unpaired = c.unpaired /\ d.volume = c.volume
      /\ d.masked = c.masked /\ d.exposed = c.exposed /\ d.playing = c.playing
      /\ d.callback = c.callback /\ d.interface = c.interface
  BY <1>4 DEF Fixed, Held, Works
<1>7. DOMAIN d.mix = DOMAIN c.mix /\ d.mix["voice"] = <<q, q>> /\ d.mix["midi"] = c.mix["midi"]
  BY <1>1, <1>6 DEF SBInv
<1>8. Tuned(c, d)
  BY <1>2, <1>6, <1>7 DEF Tuned
<1>9. MusicKept(c, d)
  BY <1>6, <1>7 DEF MusicKept, Music, SBMusic, TypeFits, Fixed
<1>10. B!GetMixer(d, "voice") = (q + q) \div 2
  BY <1>2, <1>6, <1>7 DEF B!GetMixer
<1>11. (q + q) \div 2 = q
  <2>1. q \in Int
    BY <1>5 DEF MaxTotalVolume
  <2>2. QED BY <2>1
<1>12. q \in (volume - 15)..(volume + 15)
  BY <1>5 DEF MaxTotalVolume
<1>13. QED BY <1>8, <1>9, <1>10, <1>11, <1>12 DEF d

\* PAS_SetPCMVolume writes the PCM volume and nothing else.
LEMMA SetPCM ==
    ASSUME NEW c, NEW volume \in 0..MaxTotalVolume, c.kind = "PAS", CardInv(c),
           c.installed = TRUE
    PROVE  LET d == P!SetPCMVolume(c, volume)
           IN  /\ Tuned(c, d) /\ MusicKept(c, d)
               /\ P!GetPCMVolume(d) \in (volume - 15)..(volume + 15)
<1> DEFINE d == P!SetPCMVolume(c, volume)
           q == P!Percent(volume)
<1>1. q \in Int /\ ((q * 255) \div 100) \in (volume - 15)..(volume + 15)
  <2>1. volume \in 0..255
    BY DEF MaxTotalVolume
  <2>2. q = (volume * 100) \div 255
    BY <2>1 DEF P!Percent, P!MaxOf, P!MinOf
  <2> HIDE DEF q
  <2>3. QED BY <2>1, <2>2
<1>2. d = [c EXCEPT !.pcm = <<q, q>>]
  BY DEF P!SetPCMVolume
<1>3. c.func = TRUE
  BY DEF CardInv, PasInv
<1> HIDE DEF d, q
<1>4. Tuned(c, d)
  BY <1>2 DEF Tuned, Fixed, Held, Works
<1>5. MusicKept(c, d)
  BY <1>2 DEF MusicKept, Music, PasMusic, P!GetCardSettings, P!Ok, P!Failed
<1>6. P!GetPCMVolume(d) = (((q + q) \div 2) * 255) \div 100
  <2>1. d.func = c.func
    BY <1>2
  <2>2. QED BY <1>2, <1>3, <2>1 DEF P!GetPCMVolume
<1>7. (q + q) \div 2 = q
  BY <1>1
<1>8. QED BY <1>1, <1>4, <1>5, <1>6, <1>7 DEF d

\* FX_SetVolume keeps the invariant.
LEMMA SetVolumeStep ==
    ASSUME IInv, NEW volume \in Volumes, FX_SetVolume(volume)
    PROVE  IInv'
<1>1. /\ pc = "idle" /\ fx.installed /\ fx' = [fx EXCEPT !.asked = volume] /\ music' = music
      /\ pc' = pc
  BY DEF FX_SetVolume
<1>2. /\ CardInv(m) /\ m.installed = TRUE /\ volume \in 0..MaxTotalVolume /\ Music(m, music)
  BY <1>1, WhileUp, ArgumentsAssumption DEF Up, IInv, MusicInv
<1>3. /\ fx'.installed = fx.installed /\ fx'.last = fx.last /\ fx'.device = fx.device
      /\ fx'.locked = fx.locked /\ fx'.asked = volume
  <2>1. fx' = [fx EXCEPT !.asked = volume]
    BY <1>1
  <2>2. QED BY <2>1
<1>4. ASSUME m.kind = "SB", B!CardHasMixer(m), m' = B!SetMixer(m, "voice", volume), mv' = mv
      PROVE  IInv'
  <2> DEFINE d == B!SetMixer(m, "voice", volume)
  <2>1. /\ Tuned(m, d) /\ MusicKept(m, d)
        /\ B!GetMixer(d, "voice") \in (volume - 15)..(volume + 15)
    BY <1>2, <1>4, SetMixerVoice
  <2>2. m' = d
    BY <1>4
  <2> HIDE DEF d
  <2>3. CardInv(m') /\ Fixed(m, m') /\ Music(m', music')
    BY <1>1, <1>2, <2>1, <2>2, TunedCard DEF Tuned, MusicKept
  <2>4. m'.kind = "SB" /\ B!CardHasMixer(m')
    BY <1>4, <2>1, <2>2 DEF Tuned, Fixed, B!CardHasMixer
  <2>5. FX_GetVolume' = B!GetMixer(m', "voice")
    BY <2>4 DEF FX_GetVolume
  <2>6. VolumeKept'
    BY <1>1, <1>3, <2>1, <2>2, <2>5 DEF VolumeKept, IInv
  <2>7. QED
    BY <1>1, <1>3, <1>4, <2>1, <2>2, <2>3, <2>6, PlainInv DEF Tuned, Held, Works
<1>5. ASSUME m.kind = "PAS", m' = P!SetPCMVolume(m, volume), mv' = mv
      PROVE  IInv'
  <2> DEFINE d == P!SetPCMVolume(m, volume)
  <2>1. /\ Tuned(m, d) /\ MusicKept(m, d)
        /\ P!GetPCMVolume(d) \in (volume - 15)..(volume + 15)
    BY <1>2, <1>5, SetPCM
  <2>2. m' = d
    BY <1>5
  <2> HIDE DEF d
  <2>3. CardInv(m') /\ Fixed(m, m') /\ Music(m', music')
    BY <1>1, <1>2, <2>1, <2>2, TunedCard DEF Tuned, MusicKept
  <2>4. m'.kind = "PAS" /\ m'.func = TRUE
    BY <1>2, <1>5, <2>1, <2>2, <2>3 DEF Tuned, Fixed, CardInv, PasInv
  <2>5. FX_GetVolume' = P!GetPCMVolume(m')
    BY <2>4 DEF FX_GetVolume
  <2>6. VolumeKept'
    BY <1>1, <1>3, <2>1, <2>2, <2>5 DEF VolumeKept, IInv
  <2>7. QED
    BY <1>1, <1>3, <1>5, <2>1, <2>2, <2>3, <2>6, PlainInv DEF Tuned, Held, Works
<1>6. ASSUME m.kind \in {"SS", "DSS"} \/ (m.kind = "SB" /\ ~B!CardHasMixer(m)), m' = m,
             mv' = [mv EXCEPT !.volume = MaxOf(0, MinOf(volume, MaxTotalVolume))]
      PROVE  IInv'
  <2>1. volume \in 0..255 /\ MaxOf(0, MinOf(volume, MaxTotalVolume)) = volume
    BY <1>2 DEF MaxOf, MinOf, MaxTotalVolume
  <2>2. /\ mv'.voices = mv.voices /\ mv'.buffer = mv.buffer /\ mv'.asked = mv.asked
        /\ mv'.mode = mv.mode /\ mv'.rate = mv.rate /\ mv'.channel = mv.channel
    BY <1>6
  <2>3. mv' = [mv EXCEPT !.volume = volume]
    BY <1>6, <2>1
  <2>4. FX_GetVolume' = mv'.volume
    BY <1>6 DEF FX_GetVolume
  <2>5. VolumeKept'
    BY <1>1, <2>1, <2>3, <2>4 DEF VolumeKept
  <2>6. Fixed(m, m')
    BY <1>6 DEF Fixed
  <2>7. QED BY <1>1, <1>2, <1>3, <1>6, <2>2, <2>5, <2>6, PlainInv
<1>7. QED BY <1>4, <1>5, <1>6 DEF FX_SetVolume

--------------------------------------------------------------------------------
\* A Sound Blaster and its music.
BoardMusic(c, d) ==
    /\ MidiTuned(c, d) /\ d.interface = c.interface /\ d.status = c.status

\* BLASTER_SaveMidiVolume and its mixer, before the music plays.
LEMMA SaveMidi ==
    ASSUME NEW c, c.kind = "SB", SBInv(c), c.version # 0
    PROVE  LET d == B!MusicInit(c)
           IN  /\ BoardMusic(c, d) /\ d.mix = c.mix /\ d.mpu = c.mpu /\ d.state = c.state
               /\ d.unpaired = c.unpaired
               /\ TypeFits(c) /\ c.mixer # "none" => d.volume.midi = c.mix.midi
<1> DEFINE d == B!MusicInit(c)
           v == IF c.mixer = B!MixerOf(c.dsp) THEN c.mix["midi"] ELSE <<Undefined, Undefined>>
<1>1. CASE c.version < 300
  <2>1. d = c
    <3>1. c.version \in Nat
      BY DEF SBInv
    <3>2. QED BY <1>1, <3>1 DEF B!MusicInit, B!CardHasMixer
  <2> HIDE DEF d
  <2>2. BoardMusic(c, d)
    BY <2>1 DEF BoardMusic, MidiTuned, Fixed, Held, Works
  <2>3. TypeFits(c) => c.mixer = "none"
    <3>1. c.dsp < 300 /\ c.dsp \in Nat
      BY <1>1, FittingMixer
    <3>2. B!MixerOf(c.dsp) = "none"
      BY <3>1 DEF B!MixerOf
    <3>3. QED BY <3>2, FittingMixer
  <2>4. QED BY <2>1, <2>2, <2>3 DEF d
<1>2. CASE c.mixer = "none"
  <2>1. d = c
    BY <1>2 DEF B!MusicInit, B!SaveVolume
  <2> HIDE DEF d
  <2>2. BoardMusic(c, d)
    BY <2>1 DEF BoardMusic, MidiTuned, Fixed, Held, Works
  <2>3. QED BY <1>2, <2>1, <2>2 DEF d
<1>3. CASE ~(c.version < 300) /\ c.mixer # "none"
  <2>1. d = [c EXCEPT !.volume["midi"] = v]
    <3>1. c.version >= 300
      BY <1>3 DEF SBInv
    <3>2. QED BY <1>3, <3>1
                 DEF B!MusicInit, B!CardHasMixer, B!SaveVolume, B!Undefined, Undefined
  <2> HIDE DEF d, v
  <2>2. d.volume = [c.volume EXCEPT !["midi"] = v]
    BY <2>1
  <2>3. /\ DOMAIN d.volume = DOMAIN c.volume /\ d.volume["midi"] = v
        /\ d.volume["voice"] = c.volume["voice"]
    BY <2>2 DEF SBInv
  <2>4. /\ d.mix = c.mix /\ d.mpu = c.mpu /\ d.state = c.state /\ d.unpaired = c.unpaired
        /\ d.pcm = c.pcm /\ d.func = c.func
    BY <2>1
  <2>5. BoardMusic(c, d)
    BY <2>1, <2>3, <2>4 DEF BoardMusic, MidiTuned, Fixed, Held, Works
  <2>6. TypeFits(c) => v = c.mix["midi"]
    BY FittingMixer DEF v
  <2>7. QED BY <2>3, <2>4, <2>5, <2>6 DEF d
<1>4. QED BY <1>1, <1>2, <1>3

\* BLASTER_RestoreMidiVolume gives the volume back that was saved.
LEMMA RestoreMidi ==
    ASSUME NEW c, c.kind = "SB", SBInv(c), c.version # 0
    PROVE  LET d == B!RestoreVolume(c, "midi")
           IN  /\ BoardMusic(c, d) /\ d.mpu = c.mpu /\ d.state = c.state
               /\ d.unpaired = c.unpaired
               /\ IF c.mixer = "none" THEN d.mix = c.mix ELSE d.mix.midi = c.volume.midi
<1> DEFINE d == B!RestoreVolume(c, "midi")
<1>1. CASE c.mixer = "none"
  <2>1. d = c
    BY <1>1 DEF B!RestoreVolume
  <2> HIDE DEF d
  <2>2. QED BY <1>1, <2>1 DEF BoardMusic, MidiTuned, Fixed, Held, Works, d
<1>2. CASE c.mixer # "none"
  <2>1. d = [c EXCEPT !.mix["midi"] = c.volume["midi"]]
    BY <1>2 DEF B!RestoreVolume
  <2> HIDE DEF d
  <2>2. d.mix = [c.mix EXCEPT !["midi"] = c.volume["midi"]]
    BY <2>1
  <2>3. /\ DOMAIN d.mix = DOMAIN c.mix /\ d.mix["midi"] = c.volume["midi"]
        /\ d.mix["voice"] = c.mix["voice"]
    BY <2>2 DEF SBInv
  <2>4. BoardMusic(c, d)
    BY <2>1, <2>3 DEF BoardMusic, MidiTuned, Fixed, Held, Works
  <2>5. d.mpu = c.mpu /\ d.state = c.state /\ d.unpaired = c.unpaired
    BY <2>1
  <2>6. QED BY <1>2, <2>3, <2>4, <2>5 DEF d
<1>3. QED BY <1>1, <1>2

\* BLASTER_SetMidiVolume writes the MIDI volume and nothing else.
LEMMA SetMixerMidi ==
    ASSUME NEW c, NEW volume, c.kind = "SB", SBInv(c), c.version # 0
    PROVE  LET d == B!SetMixer(c, "midi", volume)
           IN  /\ BoardMusic(c, d) /\ d.mpu = c.mpu /\ d.state = c.state
               /\ d.unpaired = c.unpaired /\ d.volume = c.volume
               /\ c.mixer = "none" => d.mix = c.mix
<1> DEFINE d == B!SetMixer(c, "midi", volume)
           q == <<B!Quantized(c, B!Byte(volume)), B!Quantized(c, B!Byte(volume))>>
<1>1. CASE c.mixer = "none"
  <2>1. d = c
    BY <1>1 DEF B!SetMixer
  <2> HIDE DEF d
  <2>2. QED BY <1>1, <2>1 DEF BoardMusic, MidiTuned, Fixed, Held, Works, d
<1>2. CASE c.mixer # "none"
  <2>1. d = [c EXCEPT !.mix["midi"] = q]
    BY <1>2 DEF B!SetMixer
  <2> HIDE DEF d, q
  <2>2. d.mix = [c.mix EXCEPT !["midi"] = q]
    BY <2>1
  <2>3. DOMAIN d.mix = DOMAIN c.mix /\ d.mix["voice"] = c.mix["voice"]
    BY <2>2 DEF SBInv
  <2>4. BoardMusic(c, d)
    BY <2>1, <2>3 DEF BoardMusic, MidiTuned, Fixed, Held, Works
  <2>5. d.mpu = c.mpu /\ d.state = c.state /\ d.unpaired = c.unpaired /\ d.volume = c.volume
    BY <2>1
  <2>6. QED BY <1>2, <2>4, <2>5 DEF d
<1>3. QED BY <1>1, <1>2

\* Whatever the card does goes on.
Retuned(c, d) ==
    /\ CardInv(d) /\ Fixed(c, d) /\ d.installed = c.installed /\ d.playing = c.playing
    /\ d.callback = c.callback /\ d.mode = c.mode /\ d.length = c.length /\ d.rate = c.rate
    /\ d.task = c.task /\ (c.playing # "off" => d.channel = c.channel)
    /\ c.kind # "SS" => MidiTuned(c, d)

\* The MIDI volumes leave the card as it was.
LEMMA TunedRetuned ==
    ASSUME NEW c, NEW d, CardInv(c), MidiTuned(c, d)
    PROVE  Retuned(c, d)
<1>1. CardInv(d)
  BY TunedCard, MidiTunedTuned
<1>2. QED BY <1>1 DEF Retuned, MidiTuned, Held, Works

\* The music of a call may change the MIDI volumes and the interface.
LEMMA RetunedInv ==
    ASSUME IInv, Retuned(m, m'), Music(m', music'), pc = "idle", UNCHANGED <<mv, fx, pc>>
    PROVE  IInv'
<1>1. CardInv(m')
  BY DEF Retuned
<1>2. /\ Fixed(m, m') /\ m'.installed = m.installed /\ m'.playing = m.playing
      /\ m'.callback = m.callback /\ m'.mode = m.mode /\ m'.length = m.length
      /\ m'.rate = m.rate /\ m'.task = m.task /\ (m.playing # "off" => m'.channel = m.channel)
      /\ m'.kind = m.kind
  BY DEF Retuned, Fixed
<1>3. VolumeKept'
  <2>1. ASSUME fx.asked # Undefined PROVE FX_GetVolume' = FX_GetVolume
    <3>1. m.installed = TRUE /\ m'.installed = TRUE
      BY <1>2, <2>1 DEF IInv, PhaseInv, Up, CardInv, HoldInv
    <3>2. CASE m.kind = "SB"
      <4>1. /\ m'.version = m.version /\ m'.mixer = m.mixer /\ m'.mix["voice"] = m.mix["voice"]
        BY <3>2 DEF Retuned, MidiTuned
      <4>2. QED BY <1>2, <3>2, <4>1 DEF FX_GetVolume, B!CardHasMixer, B!GetMixer
    <3>3. CASE m.kind = "PAS"
      <4>1. m'.pcm = m.pcm
        BY <3>3 DEF Retuned, MidiTuned
      <4>2. m.func = TRUE /\ m'.func = TRUE
        BY <1>1, <1>2, <3>1, <3>3 DEF IInv, CardInv, PasInv
      <4>3. QED BY <1>2, <3>3, <4>1, <4>2 DEF FX_GetVolume, P!GetPCMVolume
    <3>4. CASE m.kind \in {"SS", "DSS"}
      BY <1>2, <3>4 DEF FX_GetVolume
    <3>5. QED BY <3>2, <3>3, <3>4 DEF IInv, CardInv, HoldInv
  <2>2. QED BY <2>1 DEF IInv, VolumeKept
<1>4. QED BY <1>1, <1>2, <1>3, PlainInv

\* Changes of the music one after another are a change of the music.
LEMMA RetunedOn ==
    ASSUME NEW c, NEW d, NEW e, Retuned(c, d), Retuned(d, e)
    PROVE  Retuned(c, e)
<1>1. Fixed(c, e) /\ d.kind = c.kind
  BY DEF Retuned, Fixed
<1>2. c.kind # "SS" => MidiTuned(c, e)
  BY <1>1, MidiTunedOn DEF Retuned
<1>3. QED BY <1>1, <1>2 DEF Retuned

\* A call of the music that ends keeps the invariant.
LEMMA DoneInv ==
    ASSUME IInv, NEW d, Retuned(m, d), Music(d, music'), m' = Done(d), pc = "idle",
           UNCHANGED <<mv, fx, pc>>
    PROVE  IInv'
<1> DEFINE e == Done(d)
<1>1. CardInv(e) /\ MusicKept(d, e)
  BY DoneCard DEF Retuned
<1>2. Retuned(d, e)
  <2>1. MidiTuned(d, e)
    BY DoneTuned
  <2> HIDE DEF e
  <2>2. QED BY <2>1, TunedRetuned DEF Retuned
<1>3. m' = e
  OBVIOUS
<1> HIDE DEF e
<1>4. Retuned(m, e)
  BY <1>2, RetunedOn
<1>5. Music(e, music')
  BY <1>1 DEF MusicKept
<1>6. QED BY <1>3, <1>4, <1>5, RetunedInv

\* What the invariant says of the music between two calls.
LEMMA MusicNow ==
    ASSUME IInv
    PROVE  /\ CardInv(m) /\ Music(m, music)
           /\ m.interface \in Interfaces /\ "off" \notin m.devices
           /\ "SoundScape" \in m.devices => m.kind = "SS"
           /\ m.kind = "SB" => SBInv(m) /\ SBMusic(m, music)
           /\ m.kind = "PAS" => PasInv(m) /\ PasMusic(m, music)
BY DEF IInv, CardInv, MusicInv, Music, Interfaces

\* Nothing done sets no volume.
LEMMA MidiTunedSame == ASSUME NEW c PROVE MidiTuned(c, c) /\ Sent(c, c)
BY DEF MidiTuned, Sent, Fixed, Held, Works

\* The interface of the music, if the card before it is found.
LEMMA ReadySends ==
    ASSUME NEW c, c.interface \in Interfaces
    PROVE  LET d == IF c.status = "error" THEN c ELSE U!Init(c)
           IN  /\ Sent(c, d) /\ d.interface \in Interfaces /\ d.status \in {"ok", "error"}
               /\ d.status = "error" => d.interface \in {c.interface, "none", "intelligent"}
<1> DEFINE d == IF c.status = "error" THEN c ELSE U!Init(c)
           e == U!Init(c)
<1>1. CASE c.status = "error"
  <2>1. d = c
    BY <1>1
  <2> HIDE DEF d
  <2>2. QED BY <1>1, <2>1, MidiTunedSame DEF d
<1>2. CASE c.status # "error"
  <2>1. /\ Sent(c, e) /\ e.interface \in Interfaces /\ e.status \in {"ok", "error"}
        /\ e.status = "error" => e.interface # "uart"
    BY InitSends
  <2>2. d = e
    BY <1>2
  <2> HIDE DEF d, e
  <2>3. QED BY <2>1, <2>2 DEF Interfaces, d
<1>3. QED BY <1>1, <1>2

\* MUSIC_InitMidi on a Sound Blaster: its MIDI volume is saved before anything is
\* written to it, or the daughterboard has its mixer lines.
LEMMA BlasterMidi ==
    ASSUME IInv, NEW dev \in m.devices \ {"FM"}, music = "off", m.kind = "SB", m.version # 0
    PROVE  LET d == MUSIC_InitMidi(dev)
           IN  MidiTuned(m, d) /\ Music(d, IF d.status = "ok" THEN dev ELSE "off")
<1> DEFINE q == IF dev \in Daughterboards /\ m.kind = "SB" THEN B!SetupWaveBlaster(m) ELSE m
           r == IF q.status = "error" THEN q ELSE U!Init(q)
           lasts == dev = "GenMidi" \/ r.status = "error"
           u == IF r.mpu = TRUE THEN FALSE ELSE TRUE
           n == IF lasts THEN [r EXCEPT !.unpaired = u] ELSE r
           works == dev = "WaveBlaster" /\ r.status = "ok"
           b == B!MusicInit(n)
           d == MUSIC_InitMidi(dev)
<1>1. /\ SBInv(m) /\ SBMusic(m, "off") /\ m.interface \in Interfaces /\ dev # "SoundScape"
      /\ m.interface = "uart" => m.user.uart
      /\ dev # "off" /\ m.mpu \in BOOLEAN
  BY MusicNow DEF Music, SBInv
<1>2. /\ MidiTuned(m, q) /\ q.mix = m.mix /\ q.volume = m.volume /\ q.unpaired = m.unpaired
      /\ q.interface = m.interface
      /\ \/ /\ q.mpu = m.mpu /\ q.state = m.state
            /\ m.mixer # "SB16" \/ dev \notin Daughterboards
         \/ q.mpu = FALSE /\ q.state = m.mpu /\ m.mixer = "SB16" /\ dev \in Daughterboards
  <2>1. CASE dev \in Daughterboards /\ m.mixer = "SB16"
    <3>1. q = [m EXCEPT !.state = m.mpu, !.mpu = FALSE]
      BY <2>1 DEF B!SetupWaveBlaster
    <3> HIDE DEF q
    <3>2. /\ q.mpu = FALSE /\ q.state = m.mpu /\ q.mix = m.mix /\ q.volume = m.volume
          /\ q.unpaired = m.unpaired /\ q.interface = m.interface /\ q.version = m.version
      BY <3>1
    <3>3. Fixed(m, q) /\ Held(m, q) /\ Works(m, q)
      BY <3>1 DEF Fixed, Held, Works
    <3>4. /\ q.irq = m.irq /\ q.config = m.config /\ q.mixer = m.mixer /\ q.found = m.found
          /\ q.installed = m.installed /\ q.func = m.func /\ q.pcm = m.pcm
          /\ q.masked = m.masked /\ q.exposed = m.exposed /\ q.playing = m.playing
          /\ q.callback = m.callback
      BY <3>1
    <3>5. MidiTuned(m, q)
      BY <1>1, <3>2, <3>3, <3>4 DEF MidiTuned
    <3>6. QED BY <2>1, <3>2, <3>5
  <2>2. CASE ~(dev \in Daughterboards /\ m.mixer = "SB16")
    <3>1. q = m
      BY <2>2 DEF B!SetupWaveBlaster
    <3> HIDE DEF q
    <3>2. QED BY <2>2, <3>1, MidiTunedSame
  <2>3. QED BY <2>1, <2>2
<1>3. d = IF works THEN b ELSE n
  <2>1. r.mpu \in BOOLEAN => (~r.mpu) = u
    OBVIOUS
  <2>2. r.mpu \in BOOLEAN
    <3> HIDE DEF q
    <3>1. Sent(q, r)
      BY <1>1, <1>2, ReadySends
    <3> HIDE DEF r
    <3>2. QED BY <1>1, <1>2, <3>1 DEF Sent
  <2>3. (~r.mpu) = u
    BY <2>1, <2>2
  <2>4. QED BY <1>1, <2>3 DEF MUSIC_InitMidi
<1> HIDE DEF q
<1>4. /\ Sent(q, r) /\ r.interface \in Interfaces /\ r.status \in {"ok", "error"}
      /\ r.status = "error" => r.interface \in {q.interface, "none", "intelligent"}
  BY <1>1, <1>2, ReadySends
<1> HIDE DEF r
<1>5. /\ MidiTuned(r, n) /\ n.mix = r.mix /\ n.volume = r.volume /\ n.mpu = r.mpu
      /\ n.state = r.state /\ n.interface = r.interface /\ n.status = r.status
      /\ n.unpaired = (IF lasts THEN u ELSE r.unpaired)
  <2>1. CASE lasts
    <3>1. n = [r EXCEPT !.unpaired = u]
      BY <2>1
    <3> HIDE DEF n
    <3>2. n.unpaired = u
      BY <3>1
    <3>3. /\ n.mpu = r.mpu /\ n.state = r.state /\ n.mix = r.mix /\ n.volume = r.volume
          /\ n.interface = r.interface /\ n.status = r.status
      BY <3>1
    <3>4. Fixed(r, n) /\ Held(r, n) /\ Works(r, n)
      BY <3>1 DEF Fixed, Held, Works
    <3>5. u \in BOOLEAN
      OBVIOUS
    <3> HIDE DEF u
    <3>6. MidiTuned(r, n)
      BY <3>1, <3>2, <3>3, <3>4, <3>5 DEF MidiTuned
    <3>7. QED BY <2>1, <3>2, <3>3, <3>6
  <2>2. CASE ~lasts
    <3>1. n = r
      BY <2>2
    <3> HIDE DEF n
    <3>2. QED BY <2>2, <3>1, MidiTunedSame
  <2>3. QED BY <2>1, <2>2
<1> HIDE DEF n
<1>6. /\ MidiTuned(m, n) /\ n.kind = "SB" /\ n.version # 0 /\ n.mix = m.mix
      /\ n.mixer = m.mixer
      /\ n.user = m.user /\ (TypeFits(n) <=> TypeFits(m))
  <2>1. MidiTuned(m, n)
    BY <1>2, <1>4, <1>5, MidiTunedOn DEF Sent
  <2>2. /\ n.kind = m.kind /\ n.version = m.version /\ n.mixer = m.mixer
        /\ n.user = m.user /\ n.dsp = m.dsp /\ n.config = m.config
    BY <2>1 DEF MidiTuned, Fixed
  <2>3. n.mix = m.mix
    BY <1>2, <1>4, <1>5 DEF Sent
  <2>4. QED BY <1>2, <2>1, <2>2, <2>3 DEF TypeFits
<1>7. SBInv(n)
  <2>1. CardInv(m)
    BY DEF IInv
  <2>2. CardInv(n)
    BY <1>6, <2>1, TunedCard, MidiTunedTuned
  <2>3. QED BY <1>6, <2>2 DEF CardInv
<1>8. CASE works
  <2>1. /\ BoardMusic(n, b) /\ b.mix = n.mix /\ b.mpu = n.mpu /\ b.state = n.state
        /\ b.unpaired = n.unpaired
        /\ TypeFits(n) /\ n.mixer # "none" => b.volume.midi = n.mix.midi
    BY <1>6, <1>7, SaveMidi
  <2>2. d = b
    BY <1>3, <1>8
  <2> HIDE DEF b, d
  <2>3. MidiTuned(m, d)
    BY <1>6, <2>1, <2>2, MidiTunedOn DEF BoardMusic
  <2>4. d.status = "ok"
    BY <1>5, <1>8, <2>1, <2>2 DEF BoardMusic
  <2>5. /\ d.mixer = m.mixer /\ d.version # 0 /\ d.user = m.user /\ d.kind = "SB"
        /\ (TypeFits(d) <=> TypeFits(m)) /\ d.interface \in Interfaces
    BY <1>4, <1>5, <1>6, <2>1, <2>2, <2>3 DEF MidiTuned, Fixed, TypeFits, BoardMusic
  <2>6. TypeFits(d) =>
           /\ IF d.mixer # "none" THEN d.volume.midi = d.user.midi
              ELSE d.mix.midi = d.user.midi
           /\ IF d.mixer = "SB16" THEN d.state = TRUE \/ d.unpaired = TRUE
              ELSE d.mpu = TRUE \/ d.unpaired = TRUE
    BY <1>1, <1>2, <1>4, <1>5, <1>6, <1>8, <2>1, <2>2, <2>5 DEF SBMusic, Sent, Daughterboards
  <2>7. QED BY <1>1, <1>8, <2>3, <2>4, <2>5, <2>6 DEF Music, SBMusic, Interfaces, d
<1>9. CASE ~works
  <2>1. d = n
    BY <1>3, <1>9
  <2> HIDE DEF b, d
  <2>2. TypeFits(n) => n.mix.midi = n.user.midi
    BY <1>1, <1>6 DEF SBMusic
  <2>3. TypeFits(n) => n.mpu = TRUE \/ n.unpaired = TRUE
    BY <1>1, <1>2, <1>4, <1>5, <1>6, <1>9 DEF SBMusic, Sent, Daughterboards
  <2>4. n.status = "ok" => dev # "WaveBlaster"
    BY <1>5, <1>9
  <2>5. n.status # "ok" => (n.interface = "uart" => n.user.uart)
    BY <1>1, <1>2, <1>4, <1>5, <1>6
  <2>6. n.interface \in Interfaces
    BY <1>4, <1>5
  <2>7. QED BY <1>1, <1>6, <2>1, <2>2, <2>3, <2>4, <2>5, <2>6 DEF Music, SBMusic, Interfaces, d
<1>10. QED BY <1>8, <1>9

\* MUSIC_InitFM on a Sound Blaster saves its MIDI volume.
LEMMA BlasterFM ==
    ASSUME IInv, music = "off", m.kind = "SB", m.version # 0
    PROVE  LET d == MUSIC_InitFM IN Retuned(m, d) /\ Music(d, "FM")
<1> DEFINE b == B!MusicInit(m)
           d == MUSIC_InitFM
<1>1. /\ CardInv(m) /\ SBInv(m) /\ SBMusic(m, "off") /\ m.interface \in Interfaces
      /\ m.interface = "uart" => m.user.uart
  BY MusicNow DEF Music, IInv
<1>2. /\ BoardMusic(m, b) /\ b.mix = m.mix /\ b.mpu = m.mpu /\ b.state = m.state
      /\ b.unpaired = m.unpaired
      /\ TypeFits(m) /\ m.mixer # "none" => b.volume.midi = m.mix.midi
  BY <1>1, SaveMidi
<1>3. d = b
  BY DEF MUSIC_InitFM
<1> HIDE DEF b, d
<1>4. MidiTuned(m, d) /\ d.interface = m.interface
  BY <1>2, <1>3 DEF BoardMusic
<1>5. /\ d.mixer = m.mixer /\ d.version # 0 /\ d.user = m.user /\ d.kind = "SB"
      /\ (TypeFits(d) <=> TypeFits(m))
  BY <1>4 DEF MidiTuned, Fixed, TypeFits
<1>6. SBMusic(d, "FM")
  BY <1>1, <1>2, <1>3, <1>5 DEF SBMusic
<1>7. Music(d, "FM")
  BY <1>1, <1>4, <1>5, <1>6 DEF Music, Interfaces
<1>8. QED BY <1>1, <1>4, <1>7, TunedRetuned DEF d

\* PAS_SaveMusicVolume finds the card by itself if the effects have not.
Suits(c) == P!GetCardSettings(c).status = "ok"

\* What a search for MVSOUND leaves.
Answers(c, d) ==
    /\ MidiTuned(c, d) /\ d.volume = c.volume /\ d.fm = c.fm
    /\ d.interface = c.interface /\ d.status \in {"ok", "error"}
    /\ d.status = "ok" => d.func = TRUE
    /\ d.status = "error" => (c.present = FALSE /\ d.func = FALSE) \/ ~Suits(d)

\* PAS_FindCard may find the functions of the card and changes nothing else.
LEMMA PasFinds ==
    ASSUME NEW c, PasInv(c)
    PROVE  LET d == P!FindCard(c)
           IN  Answers(c, d)
<1> DEFINE d == P!FindCard(c)
           answered == [[c EXCEPT !.func = TRUE] EXCEPT !.status = "ok"]
<1>1. /\ c.present \in BOOLEAN /\ c.func \in BOOLEAN
      /\ c.func = TRUE => c.present = TRUE
  BY DEF PasInv
<1>2. CASE c.present = FALSE
  <2>1. d = [c EXCEPT !.status = "error"]
    BY <1>2 DEF P!FindCard, P!GetFunctionTable, P!Failed
  <2> HIDE DEF d
  <2>2. MidiTuned(c, d)
    BY <2>1 DEF MidiTuned, Fixed, Held, Works
  <2>3. /\ d.volume = c.volume /\ d.fm = c.fm /\ d.interface = c.interface
        /\ d.status = "error" /\ d.func = c.func
    BY <2>1
  <2>4. QED BY <1>1, <1>2, <2>2, <2>3 DEF d, Answers
<1>3. ASSUME c.present = TRUE
      PROVE  d.func = TRUE /\ MidiTuned(c, d) /\ d.volume = c.volume /\ d.fm = c.fm
             /\ d.interface = c.interface /\ d.status \in {"ok", "error"}
             /\ (d.status = "error" => ~Suits(d))
  <2>1. d = P!GetCardSettings(answered)
    BY <1>3 DEF P!FindCard, P!GetFunctionTable, P!Ok
  <2>2. CASE P!ValidIrq(c.irq) /\ P!VerifyChannel(c.channel)
    <3>1. d = [answered EXCEPT !.status = "ok"]
      BY <2>1, <2>2 DEF P!GetCardSettings, P!Ok
    <3> HIDE DEF d
    <3>2. /\ d.volume = c.volume /\ d.fm = c.fm /\ d.interface = c.interface
          /\ d.status = "ok" /\ d.func = TRUE
      BY <3>1
    <3>3. /\ d.irq = c.irq /\ d.config = c.config /\ d.version = c.version /\ d.mix = c.mix
          /\ d.mixer = c.mixer /\ d.found = c.found /\ d.installed = c.installed
          /\ d.mpu = c.mpu /\ d.state = c.state /\ d.unpaired = c.unpaired /\ d.pcm = c.pcm
          /\ d.masked = c.masked /\ d.exposed = c.exposed /\ d.playing = c.playing
          /\ d.callback = c.callback /\ Fixed(c, d) /\ Held(c, d) /\ Works(c, d)
      BY <3>1 DEF Fixed, Held, Works
    <3>4. MidiTuned(c, d)
      BY <1>3, <3>2, <3>3 DEF MidiTuned
    <3>5. QED BY <3>2, <3>4
  <2>3. CASE ~(P!ValidIrq(c.irq) /\ P!VerifyChannel(c.channel))
    <3>1. d = [answered EXCEPT !.status = "error"]
      BY <2>1, <2>3 DEF P!GetCardSettings, P!Failed
    <3> HIDE DEF d
    <3>2. /\ d.volume = c.volume /\ d.fm = c.fm /\ d.interface = c.interface
          /\ d.status = "error" /\ d.func = TRUE /\ d.irq = c.irq /\ d.channel = c.channel
      BY <3>1
    <3>3. /\ d.irq = c.irq /\ d.config = c.config /\ d.version = c.version /\ d.mix = c.mix
          /\ d.mixer = c.mixer /\ d.found = c.found /\ d.installed = c.installed
          /\ d.mpu = c.mpu /\ d.state = c.state /\ d.unpaired = c.unpaired /\ d.pcm = c.pcm
          /\ d.masked = c.masked /\ d.exposed = c.exposed /\ d.playing = c.playing
          /\ d.callback = c.callback /\ Fixed(c, d) /\ Held(c, d) /\ Works(c, d)
      BY <3>1 DEF Fixed, Held, Works
    <3>4. MidiTuned(c, d)
      BY <1>3, <3>2, <3>3 DEF MidiTuned
    <3>5. ~Suits(d)
      BY <2>3, <3>2 DEF Suits, P!GetCardSettings, P!Failed
    <3>6. QED BY <3>2, <3>4, <3>5
  <2>4. QED BY <2>2, <2>3
<1>4. QED BY <1>1, <1>2, <1>3 DEF Answers

\* MUSIC_InitFM on a Pro AudioSpectrum saves its FM volume if it finds the card.
LEMMA PasFM ==
    ASSUME IInv, music = "off", m.kind = "PAS"
    PROVE  LET d == MUSIC_InitFM IN Retuned(m, d) /\ Music(d, "FM")
<1> DEFINE f == IF m.installed THEN P!Ok(m) ELSE P!FindCard(m)
           u == IF m.installed THEN f.unmuted ELSE TRUE
           d == MUSIC_InitFM
<1>1. /\ CardInv(m) /\ PasInv(m) /\ PasMusic(m, "off") /\ m.interface \in Interfaces
      /\ m.interface = "uart" => m.user.uart
      /\ m.present \in BOOLEAN /\ m.installed \in BOOLEAN /\ m.func \in BOOLEAN
      /\ m.func = TRUE => m.present = TRUE
  BY MusicNow DEF IInv, CardInv, HoldInv, PasInv, Music
<1>2. d = IF f.status = "error" THEN f ELSE [f EXCEPT !.volume.fm = m.fm, !.unmuted = u]
  BY DEF MUSIC_InitFM, P!SaveMusicVolume
<1>3. /\ MidiTuned(m, f) /\ f.volume = m.volume /\ f.fm = m.fm
      /\ f.interface = m.interface /\ f.status \in {"ok", "error"}
      /\ f.status = "ok" => f.func = TRUE
      /\ f.status = "error" =>
             (m.present = FALSE /\ f.func = FALSE) \/ ~Suits(f)
  <2>1. CASE m.installed = TRUE
    <3>1. f = [m EXCEPT !.status = "ok"] /\ m.func = TRUE
      BY <1>1, <2>1 DEF P!Ok, PasInv
    <3>2. f = [m EXCEPT !.status = "ok"]
      BY <3>1
    <3> HIDE DEF f
    <3>3. /\ f.volume = m.volume /\ f.fm = m.fm /\ f.interface = m.interface
          /\ f.status = "ok" /\ f.func = m.func
      BY <3>2
    <3>4. MidiTuned(m, f)
      BY <3>2 DEF MidiTuned, Fixed, Held, Works
    <3>5. QED BY <3>1, <3>3, <3>4
  <2>2. CASE m.installed = FALSE
    <3> DEFINE r == P!FindCard(m)
    <3>1. PasInv(m)
      BY <1>1
    <3>2. Answers(m, r)
      BY <3>1, PasFinds
    <3>3. f = r
      BY <2>2
    <3> HIDE DEF f, r
    <3>4. QED BY <3>2, <3>3 DEF Answers
  <2>3. QED BY <1>1, <2>1, <2>2
<1> HIDE DEF f, u
<1>4. CASE f.status = "error"
  <2>1. d = f
    BY <1>2, <1>4
  <2> HIDE DEF d
  <2>2. PasMusic(d, "FM")
    <3>1. SUFFICES ASSUME P!GetCardSettings(d).status = "ok" PROVE PasMusic(d, "FM")
      BY DEF PasMusic
    <3>2. m.present = FALSE /\ f.func = FALSE
      BY <1>3, <1>4, <2>1, <3>1 DEF Suits
    <3>3. d.irq = m.irq /\ d.channel = m.channel /\ d.present = m.present /\ d.user = m.user
      BY <1>3, <2>1 DEF MidiTuned, Fixed, Works
    <3>4. P!GetCardSettings(m).status = "ok"
      BY <3>1, <3>3 DEF P!GetCardSettings, P!Ok, P!Failed
    <3>5. QED BY <1>1, <1>3, <2>1, <3>2, <3>3, <3>4 DEF PasMusic
  <2>3. Music(d, "FM")
    BY <1>1, <1>3, <2>1, <2>2 DEF Music, Interfaces, MidiTuned, Fixed
  <2>4. QED BY <1>1, <1>3, <2>1, <2>3, TunedRetuned DEF d
<1>5. CASE f.status # "error"
  <2>1. d = [f EXCEPT !.volume.fm = m.fm, !.unmuted = u]
    BY <1>2, <1>5
  <2> HIDE DEF d
  <2>2. /\ d.volume = [f.volume EXCEPT !["fm"] = m.fm] /\ d.fm = f.fm /\ d.func = f.func
        /\ d.interface = f.interface
    BY <2>1
  <2>3. /\ DOMAIN d.volume = DOMAIN f.volume /\ d.volume["fm"] = m.fm
        /\ d.volume["pcm"] = f.volume["pcm"]
    BY <1>1, <1>3, <2>2 DEF PasInv
  <2>4. f.kind = "PAS" /\ f.present = m.present /\ f.user = m.user
    BY <1>3 DEF MidiTuned, Fixed
  <2>5. MidiTuned(f, d)
    <3>1. Fixed(f, d) /\ Held(f, d) /\ Works(f, d)
      BY <2>1 DEF Fixed, Held, Works
    <3>2. /\ d.irq = f.irq /\ d.config = f.config /\ d.version = f.version /\ d.mix = f.mix
          /\ d.mixer = f.mixer /\ d.found = f.found /\ d.installed = f.installed
          /\ d.mpu = f.mpu /\ d.state = f.state /\ d.unpaired = f.unpaired /\ d.pcm = f.pcm
          /\ d.masked = f.masked /\ d.exposed = f.exposed /\ d.playing = f.playing
          /\ d.callback = f.callback
      BY <2>1
    <3>3. QED BY <2>2, <2>3, <2>4, <3>1, <3>2 DEF MidiTuned
  <2>6. MidiTuned(m, d)
    BY <1>3, <2>5, MidiTunedOn
  <2>7. PasMusic(d, "FM")
    <3>1. SUFFICES ASSUME P!GetCardSettings(d).status = "ok" PROVE PasMusic(d, "FM")
      BY DEF PasMusic
    <3>2. d.irq = m.irq /\ d.channel = m.channel /\ d.present = m.present /\ d.user = m.user
      BY <2>6 DEF MidiTuned, Fixed, Works
    <3>3. P!GetCardSettings(m).status = "ok"
      BY <3>1, <3>2 DEF P!GetCardSettings, P!Ok, P!Failed
    <3>4. QED BY <1>1, <1>3, <1>5, <2>2, <2>3, <3>2, <3>3 DEF PasMusic
  <2>8. Music(d, "FM")
    BY <1>1, <1>3, <2>2, <2>4, <2>5, <2>7 DEF Music, Interfaces, MidiTuned, Fixed
  <2>9. QED BY <1>1, <2>6, <2>8, TunedRetuned DEF d
<1>6. QED BY <1>4, <1>5

\* The other cards have only the interface to set up, and the Soundscape has to be found.
LEMMA OtherMidi ==
    ASSUME IInv, NEW dev \in m.devices \ {"FM"}, music = "off", m.kind # "SB"
    PROVE  LET d == MUSIC_InitMidi(dev)
           IN  Retuned(m, d) /\ Music(d, IF d.status = "ok" THEN dev ELSE "off")
<1> DEFINE f == IF dev = "SoundScape" THEN S!FindCard(m) ELSE m
           r == IF f.status = "error" THEN f ELSE U!Init(f)
           d == MUSIC_InitMidi(dev)
<1>1. /\ CardInv(m) /\ m.interface \in Interfaces /\ dev # "off"
      /\ m.interface = "uart" => m.user.uart
      /\ dev = "SoundScape" => m.kind = "SS"
      /\ m.kind = "PAS" => PasMusic(m, "off")
  BY MusicNow DEF Music, IInv
<1>2. d = r
  BY DEF MUSIC_InitMidi
<1> HIDE DEF d
<1>3. /\ CardInv(f) /\ Retuned(m, f) /\ f.interface = m.interface /\ f.user = m.user
      /\ f.kind = m.kind /\ (m.kind = "PAS" => f = m)
  <2>1. CASE dev = "SoundScape"
    <3>1. HoldInv(m) /\ SoundscapeInv(m) /\ m.kind = "SS"
      BY <1>1, <2>1 DEF CardInv
    <3>2. LET s == S!FindCard(m)
          IN  /\ HoldInv(s) /\ SoundscapeInv(s) /\ Fixed(m, s) /\ MusicKept(m, s)
              /\ Held(m, s) /\ s.masked = m.masked
              /\ s.playing = m.playing /\ s.callback = m.callback /\ s.installed = m.installed
              /\ s.mode = m.mode /\ s.length = m.length /\ s.rate = m.rate
              /\ m.playing # "off" => s.channel = m.channel
      BY <3>1, SoundscapeFind
    <3>3. f = S!FindCard(m)
      BY <2>1
    <3>4. f.interface = m.interface
      BY <3>3 DEF S!FindCard, S!Ok, S!Failed
    <3> HIDE DEF f
    <3>5. CardInv(f) /\ f.kind = "SS" /\ f.user = m.user
      BY <3>1, <3>2, <3>3 DEF CardInv, Fixed
    <3>6. Retuned(m, f)
      BY <3>1, <3>2, <3>3, <3>5 DEF Retuned, Held
    <3>7. QED BY <3>1, <3>4, <3>5, <3>6
  <2>2. CASE dev # "SoundScape"
    <3>1. f = m
      BY <2>2
    <3> HIDE DEF f
    <3>2. CardInv(f) /\ f.interface = m.interface /\ f.user = m.user /\ f.kind = m.kind
      BY <1>1, <3>1
    <3>3. MidiTuned(m, f)
      BY <3>1, MidiTunedSame
    <3>4. Retuned(m, f)
      BY <1>1, <3>3, TunedRetuned
    <3>5. QED BY <3>1, <3>2, <3>4
  <2>3. QED BY <2>1, <2>2
<1> HIDE DEF f
<1>4. /\ Sent(f, r) /\ r.interface \in Interfaces /\ r.status \in {"ok", "error"}
      /\ r.status = "error" => r.interface \in {f.interface, "none", "intelligent"}
  <2>1. f.interface \in Interfaces
    BY <1>1, <1>3
  <2>2. QED BY <2>1, ReadySends
<1> HIDE DEF r
<1>5. Retuned(f, r) /\ MidiTuned(f, r)
  BY <1>3, <1>4, TunedRetuned DEF Sent
<1>6. Retuned(m, r)
  <2>1. m.kind # "SS" => MidiTuned(m, r)
    BY <1>3, <1>5, MidiTunedOn DEF Retuned
  <2>2. QED BY <1>3, <1>5, <2>1 DEF Retuned, Fixed
<1>7. r.kind = m.kind /\ r.user = m.user
  BY <1>6 DEF Retuned, Fixed
<1>8. ASSUME m.kind = "PAS" PROVE PasMusic(r, "off") /\ PasMusic(r, dev)
  <2>1. /\ r.irq = m.irq /\ r.channel = m.channel /\ r.volume = m.volume /\ r.func = m.func
        /\ r.fm = m.fm
    BY <1>3, <1>4, <1>8 DEF Sent, MidiTuned, Works
  <2>2. P!GetCardSettings(r).status = "ok" => P!GetCardSettings(m).status = "ok"
    BY <2>1 DEF P!GetCardSettings, P!Ok, P!Failed
  <2>3. QED BY <1>1, <1>7, <1>8, <2>1, <2>2 DEF PasMusic
<1>9. Music(r, IF r.status = "ok" THEN dev ELSE "off")
  <2>1. CASE r.status = "ok"
    BY <1>1, <1>4, <1>7, <1>8, <2>1 DEF Music, Interfaces
  <2>2. CASE r.status = "error"
    <3>1. r.interface = "uart" => r.user.uart
      BY <1>1, <1>3, <1>4, <1>7, <2>2
    <3>2. QED BY <1>1, <1>4, <1>7, <1>8, <2>2, <3>1 DEF Music, Interfaces
  <2>3. QED BY <1>4, <2>1, <2>2
<1>10. QED BY <1>2, <1>6, <1>9 DEF d

\* MUSIC_Init keeps the invariant.
LEMMA MusicInitStep ==
    ASSUME IInv, NEW dev \in m.devices, MUSIC_Init(dev)
    PROVE  IInv'
<1> DEFINE d == IF dev = "FM" THEN MUSIC_InitFM ELSE MUSIC_InitMidi(dev)
           works == dev = "FM" \/ d.status = "ok"
<1>1. /\ pc = "idle" /\ music = "off" /\ (m.kind = "SB" => m.version # 0)
      /\ m' = Done(d) /\ music' = (IF works THEN dev ELSE "off") /\ UNCHANGED <<mv, fx, pc>>
  BY DEF MUSIC_Init
<1>2. m.kind \in {"SB", "PAS", "SS", "DSS"} /\ CardInv(m)
  BY DEF IInv, CardInv, HoldInv
<1>3. Retuned(m, d) /\ Music(d, music')
  <2>1. CASE dev = "FM"
    <3> DEFINE f == MUSIC_InitFM
    <3>1. Retuned(m, f) /\ Music(f, "FM")
      <4>1. CASE m.kind = "SB"
        BY <1>1, <4>1, BlasterFM
      <4>2. CASE m.kind = "PAS"
        BY <1>1, <4>2, PasFM
      <4>3. CASE m.kind \in {"SS", "DSS"}
        <5>1. f = m
          BY <4>3 DEF MUSIC_InitFM
        <5> HIDE DEF f
        <5>2. QED BY <1>1, <1>2, <4>3, <5>1, MidiTunedSame, TunedRetuned, MusicNow
                  DEF Music, Interfaces
      <4>4. QED BY <1>2, <4>1, <4>2, <4>3
    <3>2. d = f /\ music' = "FM"
      BY <1>1, <2>1
    <3> HIDE DEF d, f
    <3>3. QED BY <3>1, <3>2
  <2>2. CASE dev # "FM"
    <3> DEFINE e == MUSIC_InitMidi(dev)
    <3>1. d = e /\ music' = (IF e.status = "ok" THEN dev ELSE "off")
      BY <1>1, <2>2
    <3>2. Retuned(m, e) /\ Music(e, IF e.status = "ok" THEN dev ELSE "off")
      <4>1. CASE m.kind = "SB"
        <5>1. MidiTuned(m, e) /\ Music(e, IF e.status = "ok" THEN dev ELSE "off")
          BY <1>1, <2>2, <4>1, BlasterMidi
        <5> HIDE DEF e
        <5>2. QED BY <1>2, <5>1, TunedRetuned
      <4>2. CASE m.kind # "SB"
        BY <1>1, <2>2, <4>2, OtherMidi
      <4>3. QED BY <4>1, <4>2
    <3> HIDE DEF d, e
    <3>3. QED BY <3>1, <3>2
  <2>3. QED BY <2>1, <2>2
<1> HIDE DEF d
<1>4. QED BY <1>1, <1>3, DoneInv

--------------------------------------------------------------------------------
\* The volume of the music.
LEMMA MusicVolumeStep ==
    ASSUME IInv, NEW volume \in Volumes, MUSIC_SetVolume(volume)
    PROVE  IInv'
<1>1. /\ pc = "idle" /\ music \in {"FM", "WaveBlaster"} /\ UNCHANGED <<mv, fx, music, pc>>
      /\ m' = IF m.kind = "SB" /\ B!CardHasMixer(m) THEN B!SetMixer(m, "midi", volume)
              ELSE IF m.kind = "PAS" /\ music = "FM" THEN P!SetFMVolume(m, volume) ELSE m
  BY DEF MUSIC_SetVolume
<1>2. /\ CardInv(m) /\ Music(m, music) /\ m.interface \in Interfaces
      /\ m.kind = "SB" => SBInv(m) /\ SBMusic(m, music)
      /\ m.kind = "PAS" => PasInv(m) /\ PasMusic(m, music)
  BY MusicNow DEF IInv
<1>3. Retuned(m, m') /\ Music(m', music)
  <2>1. ASSUME m' = m PROVE Retuned(m, m') /\ Music(m', music)
    <3>1. MidiTuned(m, m')
      BY <2>1, MidiTunedSame
    <3>2. QED BY <1>2, <2>1, <3>1, TunedRetuned
  <2>2. CASE m.kind = "SB" /\ B!CardHasMixer(m)
    <3> DEFINE d == B!SetMixer(m, "midi", volume)
    <3>1. m.version # 0
      BY <1>1, <1>2, <2>2 DEF SBMusic
    <3>2. /\ BoardMusic(m, d) /\ d.mpu = m.mpu /\ d.state = m.state
          /\ d.unpaired = m.unpaired /\ d.volume = m.volume
          /\ m.mixer = "none" => d.mix = m.mix
      BY <1>2, <2>2, <3>1, SetMixerMidi
    <3>3. m' = d
      BY <1>1, <2>2
    <3> HIDE DEF d
    <3>4. MidiTuned(m, d) /\ d.interface = m.interface
      BY <3>2 DEF BoardMusic
    <3>5. /\ d.mixer = m.mixer /\ d.version = m.version /\ d.user = m.user /\ d.kind = "SB"
          /\ (TypeFits(d) <=> TypeFits(m))
      BY <2>2, <3>4 DEF MidiTuned, Fixed, TypeFits
    <3>6. SBMusic(d, music)
      BY <1>1, <1>2, <2>2, <3>2, <3>5 DEF SBMusic
    <3>7. Music(d, music)
      BY <1>2, <3>4, <3>5, <3>6 DEF Music
    <3>8. QED BY <1>2, <3>3, <3>4, <3>7, TunedRetuned
  <2>3. CASE m.kind = "PAS" /\ music = "FM"
    <3> DEFINE q == <<P!Percent(volume), P!Percent(volume)>>
    <3>1. m' = P!SetFMVolume(m, volume)
      BY <1>1, <2>3
    <3>2. CASE m.func = TRUE
      <4>1. m' = [m EXCEPT !.fm = q]
        BY <3>1, <3>2 DEF P!SetFMVolume
      <4> HIDE DEF q
      <4>2. MidiTuned(m, m') /\ m'.interface = m.interface
        BY <4>1 DEF MidiTuned, Fixed, Held, Works
      <4>3. /\ m'.volume = m.volume /\ m'.func = m.func /\ m'.present = m.present
            /\ m'.irq = m.irq /\ m'.channel = m.channel /\ m'.user = m.user
            /\ m'.kind = "PAS"
        BY <2>3, <4>1
      <4>4. PasMusic(m', music)
        BY <1>2, <2>3, <3>2, <4>3 DEF PasMusic, P!GetCardSettings, P!Ok, P!Failed
      <4>5. Music(m', music)
        BY <1>2, <4>2, <4>3, <4>4 DEF Music
      <4>6. QED BY <1>2, <4>2, <4>5, TunedRetuned
    <3>3. CASE m.func = FALSE
      <4>1. m' = m
        BY <3>1, <3>3 DEF P!SetFMVolume
      <4>2. QED BY <2>1, <4>1
    <3>4. QED BY <1>2, <2>3, <3>2, <3>3 DEF PasInv
  <2>4. CASE ~(m.kind = "SB" /\ B!CardHasMixer(m)) /\ ~(m.kind = "PAS" /\ music = "FM")
    <3>1. m' = m
      BY <1>1, <2>4
    <3>2. QED BY <2>1, <3>1
  <2>5. QED BY <2>2, <2>3, <2>4
<1>4. QED BY <1>1, <1>3, RetunedInv

--------------------------------------------------------------------------------
\* The end of the music.  The interface is not left in the mode that passes bytes on.
Ended(board, reset) ==
    /\ Sent(board, reset) /\ reset.interface \in Interfaces
    /\ reset.interface = "uart" => board.interface = "uart" /\ music = "FM"

\* MPU_Reset leaves the board as it was.
LEMMA ResetEnds ==
    ASSUME NEW board, board.interface \in Interfaces
    PROVE  LET reset == IF music = "FM" THEN board ELSE U!Reset(board)
           IN  Ended(board, reset)
<1> DEFINE reset == IF music = "FM" THEN board ELSE U!Reset(board)
<1>1. CASE music = "FM"
  <2>1. reset = board
    BY <1>1
  <2> HIDE DEF reset
  <2>2. Sent(board, reset)
    BY <2>1, MidiTunedSame
  <2>3. QED BY <1>1, <2>1, <2>2 DEF Ended, reset
<1>2. CASE music # "FM"
  <2> DEFINE r == U!Reset(board)
  <2>1. Sent(board, r) /\ r.interface \in Interfaces \ {"uart"}
    BY ResetSends
  <2>2. reset = r
    BY <1>2
  <2> HIDE DEF reset, r
  <2>3. QED BY <2>1, <2>2 DEF Ended, reset
<1>3. QED BY <1>1, <1>2

\* MUSIC_Shutdown on a Sound Blaster gives the MIDI volume back.
LEMMA BlasterEnds ==
    ASSUME IInv, m.kind = "SB", music # "off"
    PROVE  LET board == IF music = "WaveBlaster" THEN B!ShutdownWaveBlaster(m) ELSE m
               reset == IF music = "FM" THEN board ELSE U!Reset(board)
               d     == IF music \in {"FM", "WaveBlaster"} THEN B!RestoreVolume(reset, "midi")
                        ELSE reset
           IN  Retuned(m, d) /\ Music(d, "off")
<1> DEFINE board == IF music = "WaveBlaster" THEN B!ShutdownWaveBlaster(m) ELSE m
           reset == IF music = "FM" THEN board ELSE U!Reset(board)
           back  == B!RestoreVolume(reset, "midi")
           d     == IF music \in {"FM", "WaveBlaster"} THEN back ELSE reset
<1>1. /\ CardInv(m) /\ SBInv(m) /\ SBMusic(m, music) /\ m.interface \in Interfaces
      /\ m.version # 0 /\ m.mpu \in BOOLEAN /\ m.state \in BOOLEAN
      /\ music = "FM" => (m.interface = "uart" => m.user.uart)
  BY MusicNow DEF IInv, Music, SBMusic, SBInv
<1>2. /\ MidiTuned(m, board) /\ board.mix = m.mix /\ board.volume = m.volume
      /\ board.unpaired = m.unpaired /\ board.interface = m.interface
      /\ board.mpu = IF music = "WaveBlaster" /\ m.mixer = "SB16" THEN m.state ELSE m.mpu
  <2>1. CASE music = "WaveBlaster" /\ m.mixer = "SB16"
    <3>1. board = [m EXCEPT !.mpu = m.state]
      BY <2>1 DEF B!ShutdownWaveBlaster
    <3> HIDE DEF board
    <3>2. /\ board.mpu = m.state /\ board.mix = m.mix /\ board.volume = m.volume
          /\ board.unpaired = m.unpaired /\ board.interface = m.interface
          /\ board.version = m.version /\ board.state = m.state
      BY <3>1
    <3>3. Fixed(m, board) /\ Held(m, board) /\ Works(m, board)
      BY <3>1 DEF Fixed, Held, Works
    <3>4. /\ board.irq = m.irq /\ board.config = m.config /\ board.mixer = m.mixer
          /\ board.found = m.found /\ board.installed = m.installed /\ board.func = m.func
          /\ board.pcm = m.pcm /\ board.masked = m.masked /\ board.exposed = m.exposed
          /\ board.playing = m.playing /\ board.callback = m.callback
      BY <3>1
    <3>5. MidiTuned(m, board)
      BY <1>1, <3>2, <3>3, <3>4 DEF MidiTuned
    <3>6. QED BY <2>1, <3>2, <3>5
  <2>2. CASE ~(music = "WaveBlaster" /\ m.mixer = "SB16")
    <3>1. board = m
      BY <2>2 DEF B!ShutdownWaveBlaster
    <3> HIDE DEF board
    <3>2. QED BY <2>2, <3>1, MidiTunedSame
  <2>3. QED BY <2>1, <2>2
<1> HIDE DEF board
<1>3. Ended(board, reset)
  <2>1. board.interface \in Interfaces
    BY <1>1, <1>2
  <2>2. QED BY <2>1, ResetEnds
<1> HIDE DEF reset
<1>4. /\ MidiTuned(m, reset) /\ reset.mix = m.mix /\ reset.volume = m.volume
      /\ reset.unpaired = m.unpaired /\ reset.mpu = board.mpu
      /\ reset.interface \in Interfaces /\ (reset.interface = "uart" => m.user.uart)
  BY <1>1, <1>2, <1>3, MidiTunedOn DEF Ended, Sent
<1>5. SBInv(reset) /\ reset.kind = "SB" /\ reset.version # 0
  <2>1. CardInv(reset)
    BY <1>1, <1>4, TunedCard, MidiTunedTuned
  <2>2. reset.kind = "SB" /\ reset.version # 0
    BY <1>1, <1>4 DEF MidiTuned, Fixed
  <2>3. QED BY <2>1, <2>2 DEF CardInv
<1>6. /\ BoardMusic(reset, back) /\ back.mpu = reset.mpu /\ back.unpaired = reset.unpaired
      /\ IF reset.mixer = "none" THEN back.mix = reset.mix
         ELSE back.mix.midi = reset.volume.midi
  BY <1>5, RestoreMidi
<1> HIDE DEF back
<1>7. /\ MidiTuned(m, d) /\ d.mpu = board.mpu /\ d.unpaired = m.unpaired
      /\ d.interface \in Interfaces /\ (d.interface = "uart" => m.user.uart)
      /\ d.mix.midi = IF music \in {"FM", "WaveBlaster"} /\ m.mixer # "none"
                      THEN m.volume.midi ELSE m.mix.midi
  <2>1. CASE music \in {"FM", "WaveBlaster"}
    <3>1. d = back
      BY <2>1
    <3> HIDE DEF d
    <3>2. MidiTuned(m, d)
      BY <1>4, <1>6, <3>1, MidiTunedOn DEF BoardMusic
    <3>3. reset.mixer = m.mixer
      BY <1>4 DEF MidiTuned
    <3>4. QED BY <1>4, <1>6, <2>1, <3>1, <3>2, <3>3 DEF BoardMusic
  <2>2. CASE music \notin {"FM", "WaveBlaster"}
    <3>1. d = reset
      BY <2>2
    <3> HIDE DEF d
    <3>2. QED BY <1>4, <2>2, <3>1
  <2>3. QED BY <2>1, <2>2
<1> HIDE DEF d
<1>8. d.kind = "SB" /\ d.user = m.user /\ (TypeFits(d) <=> TypeFits(m))
  BY <1>7 DEF MidiTuned, Fixed, TypeFits
<1>9. SBMusic(d, "off")
  BY <1>1, <1>2, <1>7, <1>8 DEF SBMusic
<1>10. Music(d, "off")
  BY <1>7, <1>8, <1>9 DEF Music, Interfaces
<1>11. Retuned(m, d)
  BY <1>1, <1>7, TunedRetuned
<1>12. QED BY <1>10, <1>11 DEF d, back, reset, board

\* The other cards.
LEMMA OtherEnds ==
    ASSUME IInv, m.kind # "SB", music # "off"
    PROVE  LET reset == IF music = "FM" THEN m ELSE U!Reset(m)
               d     == IF m.kind = "PAS" /\ music = "FM" THEN P!RestoreMusicVolume(reset)
                        ELSE reset
           IN  Retuned(m, d) /\ Music(d, "off")
<1> DEFINE reset == IF music = "FM" THEN m ELSE U!Reset(m)
           d     == IF m.kind = "PAS" /\ music = "FM" THEN P!RestoreMusicVolume(reset)
                    ELSE reset
<1>1. /\ CardInv(m) /\ m.interface \in Interfaces
      /\ m.kind = "PAS" => PasInv(m) /\ PasMusic(m, music)
      /\ music = "FM" => (m.interface = "uart" => m.user.uart)
  BY MusicNow DEF IInv, Music
<1>2. Ended(m, reset)
  BY <1>1, ResetEnds
<1>3. CASE m.kind = "PAS" /\ music = "FM"
  <2>1. reset = m /\ d = P!RestoreMusicVolume(m)
    BY <1>3
  <2>2. CASE m.func = TRUE
    <3>1. d = [m EXCEPT !.fm = m.volume.fm]
      BY <2>1, <2>2 DEF P!RestoreMusicVolume
    <3> HIDE DEF d
    <3>2. MidiTuned(m, d) /\ d.interface = m.interface
      BY <3>1 DEF MidiTuned, Fixed, Held, Works
    <3>3. /\ d.fm = m.volume.fm /\ d.user = m.user /\ d.irq = m.irq /\ d.channel = m.channel
          /\ d.kind = "PAS"
      BY <1>3, <3>1
    <3>4. PasMusic(d, "off")
      BY <1>1, <1>3, <2>2, <3>3 DEF PasMusic, P!GetCardSettings, P!Ok, P!Failed
    <3>5. Music(d, "off")
      BY <1>1, <1>3, <3>2, <3>3, <3>4 DEF Music, Interfaces
    <3>6. QED BY <1>1, <3>2, <3>5, TunedRetuned DEF d, reset
  <2>3. CASE m.func = FALSE
    <3>1. d = m
      BY <2>1, <2>3 DEF P!RestoreMusicVolume
    <3> HIDE DEF d
    <3>2. MidiTuned(m, d)
      BY <3>1, MidiTunedSame
    <3>3. PasMusic(m, "off")
      BY <1>1, <1>3, <2>3 DEF PasMusic
    <3>4. Music(m, "off")
      BY <1>1, <1>3, <3>3 DEF Music, Interfaces
    <3>5. QED BY <1>1, <3>1, <3>2, <3>4, TunedRetuned DEF d, reset
  <2>4. QED BY <1>1, <1>3, <2>2, <2>3 DEF PasInv
<1>4. CASE ~(m.kind = "PAS" /\ music = "FM")
  <2>1. d = reset
    BY <1>4
  <2> HIDE DEF d, reset
  <2>2. MidiTuned(m, d) /\ d.interface \in Interfaces /\ (d.interface = "uart" => m.user.uart)
    BY <1>1, <1>2, <2>1 DEF Ended, Sent
  <2>3. ASSUME m.kind = "PAS" PROVE PasMusic(d, "off")
    <3>1. /\ d.fm = m.fm /\ d.irq = m.irq /\ d.channel = m.channel /\ d.user = m.user
          /\ PasMusic(m, music) /\ music # "FM"
      BY <1>1, <1>2, <1>4, <2>1, <2>3 DEF Ended, Sent, MidiTuned, Works, Fixed
    <3>2. QED BY <3>1 DEF PasMusic, P!GetCardSettings, P!Ok, P!Failed
  <2>4. d.kind = m.kind /\ d.user = m.user
    BY <2>2 DEF MidiTuned, Fixed
  <2>5. Music(d, "off")
    BY <2>2, <2>3, <2>4 DEF Music, Interfaces
  <2>6. QED BY <1>1, <2>2, <2>5, TunedRetuned DEF d, reset
<1>5. QED BY <1>3, <1>4

\* MUSIC_Shutdown keeps the invariant.
LEMMA MusicShutdownStep == ASSUME IInv, MUSIC_Shutdown PROVE IInv'
<1> DEFINE board == IF music = "WaveBlaster" /\ m.kind = "SB"
                    THEN B!ShutdownWaveBlaster(m) ELSE m
           reset == IF music = "FM" THEN board ELSE U!Reset(board)
           d     == IF m.kind = "SB" /\ music \in {"FM", "WaveBlaster"}
                    THEN B!RestoreVolume(reset, "midi")
                    ELSE IF m.kind = "PAS" /\ music = "FM" THEN P!RestoreMusicVolume(reset)
                    ELSE reset
<1>1. /\ pc = "idle" /\ music # "off" /\ m' = Done(d) /\ music' = "off"
      /\ UNCHANGED <<mv, fx, pc>>
  BY DEF MUSIC_Shutdown
<1>2. Retuned(m, d) /\ Music(d, "off")
  <2>1. CASE m.kind = "SB"
    <3> DEFINE b == IF music = "WaveBlaster" THEN B!ShutdownWaveBlaster(m) ELSE m
               r == IF music = "FM" THEN b ELSE U!Reset(b)
               e == IF music \in {"FM", "WaveBlaster"} THEN B!RestoreVolume(r, "midi") ELSE r
    <3>1. Retuned(m, e) /\ Music(e, "off")
      BY <1>1, <2>1, BlasterEnds
    <3>2. board = b
      BY <2>1
    <3> HIDE DEF board, b
    <3>3. d = e
      BY <2>1, <3>2
    <3> HIDE DEF d, e
    <3>4. QED BY <3>1, <3>3
  <2>2. CASE m.kind # "SB"
    <3> DEFINE r == IF music = "FM" THEN m ELSE U!Reset(m)
               e == IF m.kind = "PAS" /\ music = "FM" THEN P!RestoreMusicVolume(r) ELSE r
    <3>1. Retuned(m, e) /\ Music(e, "off")
      BY <1>1, <2>2, OtherEnds
    <3>2. d = e
      BY <2>2
    <3> HIDE DEF d, e
    <3>3. QED BY <3>1, <3>2
  <2>3. QED BY <2>1, <2>2
<1> HIDE DEF d
<1>3. QED BY <1>1, <1>2, DoneInv

--------------------------------------------------------------------------------
\* A computer on which nothing of the library has run.
LEMMA FreshCard ==
    ASSUME NEW c, Fresh(c),
           c.kind = "SB"  => FreshBlaster(c),
           c.kind = "PAS" => FreshPas(c),
           c.kind = "SS"  => FreshSoundscape(c),
           c.kind = "DSS" => FreshDisney(c)
    PROVE  /\ CardInv(c) /\ Music(c, "off") /\ "off" \notin c.devices
           /\ "SoundScape" \in c.devices => c.kind = "SS"
           /\ c.installed = FALSE /\ c.playing = "off" /\ c.callback = "none" /\ c.task = FALSE
<1>1. /\ c.installed = FALSE /\ c.playing = "off" /\ c.callback = "none" /\ c.task = FALSE
      /\ "off" \notin c.devices /\ ("SoundScape" \in c.devices => c.kind = "SS")
      /\ c.kind \in {"SB", "PAS", "SS", "DSS"} /\ c.exposed = FALSE
      /\ c.masked = c.user.masked /\ c.stacks = 0 /\ c.locked = FALSE
      /\ c.interface \in {"none", "intelligent", "uart"}
      /\ c.interface = "uart" => c.user.uart
  BY DEF Fresh
<1>2. c.vector = NoVectors
  <2>1. {i \in 0..15 : ValidIrq(i)} = Vectored
    BY DEF ValidIrq, Vectored
  <2>2. QED BY <2>1 DEF Fresh, NoVectors
<1>3. NoneOpen(c)
  BY DEF Fresh, NoneOpen, Channels
<1>4. HoldInv(c)
  BY <1>1, <1>2 DEF HoldInv, LetGo
<1>5. ASSUME c.kind = "SB" PROVE SBInv(c) /\ SBMusic(c, "off")
  <2>1. FreshBlaster(c) /\ c.config.type = "none" /\ c.config.address = Undefined
    BY <1>5, ArgumentsAssumption DEF FreshBlaster
  <2>2. Unset(c)
    BY <1>1, <2>1 DEF FreshBlaster, Unset
  <2>3. SBVoice(c)
    BY <1>1, <2>1 DEF FreshBlaster, SBVoice
  <2>4. c.card.run = "off"
    BY <2>1 DEF FreshBlaster, B!Silent
  <2>5. SBInv(c)
    BY <1>1, <1>3, <2>1, <2>2, <2>3, <2>4 DEF FreshBlaster, SBInv
  <2>6. QED BY <2>1, <2>5 DEF FreshBlaster, SBMusic
<1>6. ASSUME c.kind = "PAS" PROVE PasInv(c) /\ PasMusic(c, "off")
  <2>1. FreshPas(c)
    BY <1>6
  <2>2. c.cross \in Crossings /\ c.cross.dma = FALSE
    BY <2>1 DEF FreshPas, Crossings
  <2>3. QED BY <1>1, <1>3, <2>1, <2>2 DEF FreshPas, PasInv, PasMusic
<1>7. ASSUME c.kind = "SS" PROVE SoundscapeInv(c)
  BY <1>1, <1>3, <1>7 DEF FreshSoundscape, SoundscapeInv, SoundscapeHas
<1>8. ASSUME c.kind = "DSS" PROVE DisneyInv(c)
  BY <1>1, <1>3, <1>8 DEF FreshDisney, DisneyInv
<1>9. CardInv(c)
  BY <1>4, <1>5, <1>6, <1>7, <1>8 DEF CardInv
<1>10. Music(c, "off")
  BY <1>1, <1>5, <1>6 DEF Music
<1>11. QED BY <1>1, <1>9, <1>10

\* A machine that has just been started keeps the invariant.
LEMMA InitInv == ASSUME Init PROVE IInv
<1>1. m \in Machines
  BY DEF Init
<1>2. /\ Fresh(m)
      /\ m.kind = "SB"  => FreshBlaster(m)
      /\ m.kind = "PAS" => FreshPas(m)
      /\ m.kind = "SS"  => FreshSoundscape(m)
      /\ m.kind = "DSS" => FreshDisney(m)
  BY <1>1, MachinesAssumption
<1>3. /\ CardInv(m) /\ Music(m, "off") /\ "off" \notin m.devices
      /\ "SoundScape" \in m.devices => m.kind = "SS"
      /\ m.installed = FALSE /\ m.playing = "off" /\ m.callback = "none" /\ m.task = FALSE
  BY <1>2, FreshCard
<1>4. /\ mv.voices = FALSE /\ mv.buffer = FALSE /\ fx.installed = FALSE /\ fx.locked = FALSE
      /\ fx.asked = Undefined /\ fx.last = "none" /\ fx.device = NoDevice
      /\ music = "off" /\ pc = "idle"
  BY DEF Init, NoMV
<1>5. MusicInv
  BY <1>3, <1>4 DEF MusicInv
<1>6. PhaseInv
  BY <1>3, <1>4 DEF PhaseInv, Up, Going
<1>7. ModeInv
  BY <1>3, <1>4 DEF ModeInv, Up, Going
<1>8. VolumeKept
  BY <1>4 DEF VolumeKept
<1>9. QED BY <1>3, <1>5, <1>6, <1>7, <1>8 DEF IInv

\* Every call of the program, and every page, keeps the invariant.
LEMMA StepInv == ASSUME IInv, [Next]_vars PROVE IInv'
<1>1. ASSUME NEW fault, FX_SetupCard(fault) PROVE IInv'
  BY <1>1, SetupCardStep
<1>2. ASSUME NEW fault, FX_SetupSoundBlaster(fault) PROVE IInv'
  BY <1>2, SetupBlasterStep
<1>3. ASSUME NEW request \in Requests, NEW fault, FX_Init(request, fault) PROVE IInv'
  BY <1>3, InitStep
<1>4. (CHOOSE r \in Requests : TRUE) \in Requests
  BY ArgumentsAssumption
<1>5. ASSUME NEW fault, MV_StartPlayback(fault) PROVE IInv'
  BY <1>5, StartStep
<1>6. ASSUME NEW rate \in Rates, FX_StartRecording(rate) PROVE IInv'
  BY <1>6, RecordStep
<1>7. ASSUME NEW volume \in Volumes, FX_SetVolume(volume) PROVE IInv'
  BY <1>7, SetVolumeStep
<1>8. ASSUME NEW volume \in Volumes, MUSIC_SetVolume(volume) PROVE IInv'
  BY <1>8, MusicVolumeStep
<1>9. ASSUME NEW dev \in m.devices, MUSIC_Init(dev) PROVE IInv'
  BY <1>9, MusicInitStep
<1>10. ASSUME UNCHANGED vars PROVE IInv'
  BY <1>10
     DEF vars, IInv, MusicInv, PhaseInv, ModeInv, VolumeKept, FX_GetVolume, Up, Going,
         Recordable
<1>11. QED
  BY <1>1, <1>2, <1>3, <1>4, <1>5, <1>6, <1>7, <1>8, <1>9, <1>10, TestStep, ShutdownStep,
     FreeStep,
     StopRecordStep, MusicShutdownStep, InterruptStep DEF Next

\* The inductive invariant holds in every state.
LEMMA Invariance == Spec => []IInv
<1>1. Init => IInv
  BY InitInv
<1>2. IInv /\ [Next]_vars => IInv'
  BY StepInv
<1>3. QED BY <1>1, <1>2, PTL DEF Spec

--------------------------------------------------------------------------------
\* What the invariant says of the interrupts.
LEMMA SafeNow == ASSUME IInv PROVE InterruptsSafe
<1>1. m.exposed = FALSE
  BY DEF IInv, CardInv, HoldInv
<1>2. m.callback # "none" => mv.voices /\ mv.buffer
  BY DEF IInv, PhaseInv, Up, Going
<1>3. QED BY <1>1, <1>2 DEF InterruptsSafe

\* Of what is given back.
LEMMA QuietNow == ASSUME IInv PROVE Quiet
<1> SUFFICES ASSUME pc = "idle", m.playing = "off" PROVE Quiet
  BY DEF Quiet
<1>1. CardInv(m) /\ HoldInv(m) /\ m.kind \in {"SB", "PAS", "SS", "DSS"} /\ m.task \in BOOLEAN
  BY DEF IInv, CardInv, HoldInv
<1>2. NoneOpen(m)
  BY <1>1 DEF CardInv, SBInv, PasInv, SoundscapeInv, DisneyInv
<1>3. Busy(m) = {}
  BY <1>2 DEF NoneOpen, Busy
<1>4. ~CardDoes(m).asks
  <2>1. CASE m.kind = "SB"
    <3>1. m.card.run = "off"
      BY <1>1, <2>1 DEF CardInv, SBInv
    <3>2. QED BY <2>1, <3>1 DEF CardDoes, B!Does
  <2>2. CASE m.kind = "PAS"
    <3>1. m.cross.dma = FALSE
      BY <1>1, <2>2 DEF CardInv, PasInv
    <3>2. QED BY <2>2, <3>1 DEF CardDoes, P!Does
  <2>3. CASE m.kind = "SS"
    <3>1. m.run = FALSE
      BY <1>1, <2>3 DEF CardInv, SoundscapeInv
    <3>2. QED BY <2>3, <3>1 DEF CardDoes, S!Does
  <2>4. CASE m.kind = "DSS"
    <3>1. m.task = FALSE
      BY <1>1 DEF HoldInv
    <3>2. QED BY <2>4, <3>1 DEF CardDoes, D!Does
  <2>5. QED BY <1>1, <2>1, <2>2, <2>3, <2>4
<1>5. ASSUME m.installed, fx.installed PROVE m.masked = m.saved
  <2>1. m.kind \in {"SB", "PAS"}
    BY <1>5 DEF IInv, ModeInv, Going, Recordable
  <2>2. m.installed = TRUE
    BY <1>1, <1>5 DEF HoldInv
  <2>3. QED BY <1>1, <2>1, <2>2 DEF HoldInv
<1>6. QED BY <1>3, <1>4, <1>5 DEF Quiet

\* Once the library has no card, the machine is as the program found it.
LEMMA FoundNow == ASSUME IInv, ~m.installed PROVE AsFound
<1>1. CardInv(m) /\ HoldInv(m) /\ m.installed = FALSE /\ m.task \in BOOLEAN /\ LetGo(m)
  BY DEF IInv, CardInv, HoldInv
<1>2. \A irq \in DOMAIN m.vector : m.vector[irq] = "dos"
  BY <1>1 DEF LetGo, NoVectors
<1>3. ASSUME m.kind = "SB", TypeFits(m) PROVE m.mix.voice = m.user.voice
  BY <1>1, <1>3 DEF CardInv, SBInv, SBVoice
<1>4. ASSUME m.kind = "PAS" PROVE m.pcm = m.user.voice
  BY <1>1, <1>4 DEF CardInv, PasInv
<1>5. ASSUME m.kind = "DSS" PROVE ~m.task /\ ~m.power
  BY <1>1, <1>5 DEF CardInv, DisneyInv, HoldInv, LetGo
<1>6. ASSUME m.kind = "SS" PROVE m.codec = m.user.codec /\ m.sbline = m.ini.sbemul
  BY <1>1, <1>6 DEF CardInv, SoundscapeInv, SoundscapeHas
<1>7. QED BY <1>1, <1>2, <1>3, <1>4, <1>5, <1>6 DEF AsFound, LetGo

\* At program start nothing is locked, and nothing has been shut down.
LEMMA LocksInit == Init => Locks
BY DEF Init, Locks

\* Setting the other variables of Multivoc locks and unlocks nothing.
LEMMA LocksOther ==
    /\ mv' = [mv EXCEPT !.installed = FALSE] => mv'.locked = mv.locked
    /\ mv' = [mv EXCEPT !.voices = FALSE, !.buffer = FALSE] => mv'.locked = mv.locked
    /\ \A c : mv' = Playing(c, mv) => mv'.locked = mv.locked
    /\ \A c : mv' = [Playing(c, mv) EXCEPT !.recording = FALSE] => mv'.locked = mv.locked
    /\ \A v : mv' = [mv EXCEPT !.volume = v] => mv'.locked = mv.locked
    /\ \A v : mv' = [mv EXCEPT !.page = 0, !.recording = v] => mv'.locked = mv.locked
    /\ \A page : mv' = [mv EXCEPT !.page = page] => mv'.locked = mv.locked
<1>1. ASSUME mv' = [mv EXCEPT !.installed = FALSE] PROVE mv'.locked = mv.locked
  BY <1>1
<1>2. ASSUME mv' = [mv EXCEPT !.voices = FALSE, !.buffer = FALSE] PROVE mv'.locked = mv.locked
  BY <1>2
<1>3. ASSUME NEW c, mv' = Playing(c, mv) PROVE mv'.locked = mv.locked
  BY <1>3 DEF Playing
<1>4. ASSUME NEW c, mv' = [Playing(c, mv) EXCEPT !.recording = FALSE]
      PROVE  mv'.locked = mv.locked
  BY <1>4 DEF Playing
<1>5. ASSUME NEW v, mv' = [mv EXCEPT !.volume = v] PROVE mv'.locked = mv.locked
  BY <1>5
<1>6. ASSUME NEW v, mv' = [mv EXCEPT !.page = 0, !.recording = v] PROVE mv'.locked = mv.locked
  BY <1>6
<1>7. ASSUME NEW page, mv' = [mv EXCEPT !.page = page] PROVE mv'.locked = mv.locked
  BY <1>7
<1>8. QED BY <1>1, <1>2, <1>3, <1>4, <1>5, <1>6, <1>7

\* MV_UnlockMemory is called where MV_Init fails, and nowhere else.
LEMMA LocksStep == Locks /\ [Next]_vars => Locks'
<1> SUFFICES ASSUME Locks, [Next]_vars PROVE Locks'
  OBVIOUS
<1>1. ASSUME NEW fault, FX_SetupCard(fault) \/ FX_SetupSoundBlaster(fault) PROVE Locks'
  <2>1. PICK d : fx' = [fx EXCEPT !.last = "setup", !.device = d]
    BY <1>1 DEF FX_SetupCard, FX_SetupSoundBlaster
  <2>2. pc' = "idle" /\ ~fx.installed
    BY <1>1 DEF FX_SetupCard, FX_SetupSoundBlaster
  <2>3. fx'.installed = fx.installed /\ fx'.last \in {"setup", fx.last} /\ fx'.last = "setup"
    BY <2>1
  <2>4. QED BY <2>2, <2>3 DEF Locks
<1>2. ASSUME NEW request, NEW fault, FX_Init(request, fault) PROVE Locks'
  BY <1>2 DEF Locks, FX_Init, MV_Init, MV_LockMemory, NoMV
<1>3. ASSUME mv'.locked = mv.locked, pc # "idle" \/ fx.installed = TRUE
      PROVE  Locks'
  BY <1>3 DEF Locks
<1>4. ASSUME NEW fault, MV_StartPlayback(fault) PROVE Locks'
  <2>1. pc # "idle" /\ (mv' = [mv EXCEPT !.installed = FALSE] \/ \E c : mv' = Playing(c, mv))
    BY <1>4 DEF MV_StartPlayback
  <2>2. mv'.locked = mv.locked
    BY <2>1, LocksOther
  <2>3. QED BY <1>3, <2>1, <2>2
<1>5. CASE MV_TestPlayback \/ MV_Free
  <2>1. pc # "idle" /\ \/ mv' = mv \/ mv' = [mv EXCEPT !.installed = FALSE]
                       \/ mv' = [mv EXCEPT !.voices = FALSE, !.buffer = FALSE]
    BY <1>5 DEF MV_TestPlayback, MV_Free
  <2>2. mv'.locked = mv.locked
    BY <2>1, LocksOther
  <2>3. QED BY <1>3, <2>1, <2>2
<1>6. CASE FX_Shutdown \/ FX_StopRecord
  <2>1. /\ fx.installed
        /\ \/ mv' = [mv EXCEPT !.installed = FALSE]
           \/ \E c : mv' = [Playing(c, mv) EXCEPT !.recording = FALSE]
    BY <1>6 DEF FX_Shutdown, FX_StopRecord
  <2>2. mv'.locked = mv.locked
    BY <2>1, LocksOther
  <2>3. QED BY <2>1, <2>2 DEF Locks
<1>7. ASSUME NEW x, FX_StartRecording(x) \/ FX_SetVolume(x) PROVE Locks'
  <2>1. /\ fx.installed
        /\ \/ mv' = mv \/ \E v : mv' = [mv EXCEPT !.volume = v]
           \/ \E recording : mv' = [mv EXCEPT !.page = 0, !.recording = recording]
    BY <1>7 DEF FX_StartRecording, FX_SetVolume
  <2>2. mv'.locked = mv.locked
    BY <2>1, LocksOther
  <2>3. QED BY <2>1, <2>2 DEF Locks
<1>8. ASSUME mv'.locked = mv.locked, UNCHANGED <<fx, pc>> PROVE Locks'
  BY <1>8 DEF Locks
<1>9. ASSUME NEW x, MUSIC_SetVolume(x) \/ MUSIC_Init(x) \/ MUSIC_Shutdown PROVE Locks'
  BY <1>8, <1>9 DEF MUSIC_SetVolume, MUSIC_Init, MUSIC_Shutdown
<1>10. CASE Interrupt
  <2>1. UNCHANGED <<fx, pc>> /\ (mv' = mv \/ \E page : mv' = [mv EXCEPT !.page = page])
    BY <1>10 DEF Interrupt
  <2>2. mv'.locked = mv.locked
    BY <2>1, LocksOther
  <2>3. QED BY <1>8, <2>1, <2>2
<1>11. CASE UNCHANGED vars
  BY <1>8, <1>11 DEF vars
<1>12. QED
  BY <1>1, <1>2, <1>4, <1>5, <1>6, <1>7, <1>9, <1>10, <1>11 DEF Next

\* What the invariant says of what is given back.
LEMMA GivenNow == ASSUME IInv, Locks PROVE GivesBack
<1> SUFFICES ASSUME pc = "idle" PROVE GivesBack
  BY DEF GivesBack
<1>1. Quiet /\ (~m.installed => AsFound)
  BY QuietNow, FoundNow
<1>2. /\ ~fx.installed => ~mv.voices /\ ~mv.buffer /\ ~fx.locked
      /\ fx.last = "shutdown" => ~m.installed /\ mv.locked
  BY DEF IInv, PhaseInv, Locks
<1>3. music = "off" /\ m.kind = "SB" /\ TypeFits(m) =>
          m.mix.midi = m.user.midi /\ (m.mpu \/ m.unpaired)
  BY DEF IInv, MusicInv, Music, SBMusic
<1>4. music = "off" => (m.interface = "uart" => m.user.uart)
  BY DEF IInv, MusicInv, Music
<1>5. music = "off" /\ m.kind = "PAS" /\ P!GetCardSettings(m).status = "ok" =>
          m.fm = m.user.midi
  BY DEF IInv, MusicInv, Music, PasMusic
<1>6. QED BY <1>1, <1>2, <1>3, <1>4, <1>5 DEF GivesBack

--------------------------------------------------------------------------------
\* Of what the card does while it plays.
Does(c, does) ==
    /\ does.run = c.playing /\ does.bytes = c.length /\ does.rate = c.rate
    /\ does.channel = c.channel

Width(does, mode) == does.bits = mode.bits /\ does.channels = mode.channels

\* While it plays, for MV_ServiceVoc, or records.
LEMMA ModeNow ==
    ASSUME IInv, m.playing # "off"
    PROVE  LET mode == IF m.playing = "record" THEN Mono8 ELSE mv.mode
           IN  /\ mode \in Modes /\ m.length = BufferSize(mode)
               /\ m.kind # "DSS" => m.mode = mode
               /\ m.kind = "DSS" => mode = Mono8
               /\ m.playing = "play" => /\ mode = Fit(m, mv.asked) /\ mv.rate = m.rate
                                        /\ mv.channel = m.channel
               /\ m.installed = TRUE /\ m.playing \in Runs
<1> DEFINE mode == IF m.playing = "record" THEN Mono8 ELSE mv.mode
<1>1. Going /\ Up
  BY DEF IInv, PhaseInv, Going, Up
<1>2. m.installed = TRUE /\ m.playing \in Runs
  BY <1>1, WhileUp DEF CardInv, HoldInv
<1>3. CASE m.playing = "record"
  <2>1. m.kind # "DSS"
    BY <1>1, <1>3 DEF IInv, ModeInv, Recordable
  <2>2. mode = Mono8 /\ mode \in Modes
    BY <1>3 DEF Mono8, Modes
  <2>3. m.mode = Mono8 /\ m.length = MixBufferSize
    BY <1>3 DEF IInv, ModeInv
  <2>4. BufferSize(Mono8) = MixBufferSize
    BY SizesAssumption DEF BufferSize, SampleSize, Mono8
  <2>5. QED BY <1>2, <1>3, <2>1, <2>2, <2>3, <2>4
<1>4. CASE m.playing = "play"
  <2>1. mode = mv.mode /\ mode \in Modes /\ mode = Fit(m, mv.asked)
    BY <1>1, <1>4, WhileUp DEF IInv, ModeInv
  <2>2. /\ m.length = BufferSize(mv.mode) /\ mv.rate = m.rate /\ mv.channel = m.channel
        /\ (m.kind # "DSS" => m.mode = mv.mode)
    BY <1>1, <1>4 DEF IInv, ModeInv
  <2>3. ASSUME m.kind = "DSS" PROVE mv.mode = Mono8
    <3>1. Able(m) = Mono8
      BY <2>3 DEF Able
    <3>2. mv.asked \in Modes /\ mv.mode = Fit(m, mv.asked)
      BY <1>1 DEF IInv, ModeInv
    <3>3. Fit(m, mv.asked) = Mono8
      BY <3>1, <3>2 DEF Fit, Modes, Mono8, MinOf
    <3>4. QED BY <3>2, <3>3
  <2> HIDE DEF mode
  <2>4. QED BY <1>2, <1>4, <2>1, <2>2, <2>3 DEF mode
<1>5. QED BY <1>2, <1>3, <1>4 DEF Runs

\* A Sound Blaster whose type fits does what its driver has noted.
LEMMA BlasterDoes ==
    ASSUME IInv, m.kind = "SB", m.playing # "off", Heard(m), TypeFits(m), m.mode \in Modes
    PROVE  LET does == CardDoes(m)
           IN  Does(m, does) /\ Width(does, m.mode) /\ OnlyOpen(m, m.channel)
<1> DEFINE does == CardDoes(m)
<1>1. SBPlays(m) /\ SBInv(m)
  BY DEF IInv, CardInv, SBInv
<1>2. m.wired = m.irq
  BY DEF Heard
<1>3. does = B!Does(m)
  BY DEF CardDoes
<1>4. /\ does.run = m.card.run /\ does.bits = m.card.bits /\ does.channels = m.card.channels
      /\ does.bytes = m.card.bytes
      /\ does.rate = IF m.dsp >= 400 THEN m.clock ELSE m.clock \div m.card.channels
      /\ does.channel = IF m.card.bits = 16 THEN m.config.dma16 ELSE m.config.dma8
  BY <1>3 DEF B!Does
<1> HIDE DEF does
<1>5. does.run = m.playing /\ does.bytes = m.length
  BY <1>1, <1>2, <1>4 DEF SBPlays
<1>6. Width(does, m.mode) /\ m.card.bits = m.mode.bits /\ m.card.channels = m.mode.channels
  BY <1>1, <1>4 DEF SBPlays, Width
<1>7. does.channel = m.channel
  BY <1>1, <1>4, <1>6 DEF SBPlays, B!ChannelOf
<1>8. does.rate = m.rate
  <2>1. CASE m.dsp >= 400
    BY <1>1, <1>4, <2>1 DEF SBPlays, SBInv
  <2>2. CASE m.dsp < 400
    <3>1. m.mode.bits = 8 /\ m.mode.channels \in {1, 2}
      BY <1>1, <2>2 DEF SBPlays, Modes
    <3>2. m.packet = m.mode.channels
      BY <1>1, <3>1 DEF SBPlays
    <3>3. QED BY <1>1, <1>4, <1>6, <2>2, <3>2 DEF SBPlays, SBInv
  <2>3. QED BY <1>1, <2>1, <2>2 DEF SBInv
<1>9. OnlyOpen(m, m.channel)
  BY <1>1 DEF SBPlays
<1>10. QED BY <1>5, <1>6, <1>7, <1>8, <1>9 DEF Does, does

\* A Pro AudioSpectrum does what its driver has noted.
LEMMA PasDoes ==
    ASSUME IInv, m.kind = "PAS", m.playing \in Runs, m.mode \in Modes,
           m.length = BufferSize(m.mode)
    PROVE  LET does == CardDoes(m)
           IN  Does(m, does) /\ Width(does, m.mode) /\ OnlyOpen(m, m.channel)
<1> DEFINE does == CardDoes(m)
<1>1. PasPlays(m)
  BY DEF IInv, CardInv, PasInv, Runs
<1>2. /\ m.cross.run = TRUE /\ m.gates = TRUE /\ m.cross.dac = (m.playing = "play")
      /\ m.cross.mono = (m.mode.channels = 1)
  BY <1>1 DEF PasPlays
<1>3. does = P!Does(m)
  BY DEF CardDoes
<1>4. /\ does.run = (IF ~m.cross.run \/ ~m.gates THEN "off"
                     ELSE IF m.cross.dac THEN "play" ELSE "record")
      /\ does.bits = m.sixteen /\ does.channels = (IF m.cross.mono THEN 1 ELSE 2)
      /\ does.bytes = (IF P!Words(m.channel) THEN 2 * m.count ELSE m.count)
      /\ does.rate = (P!Clock \div m.interval) \div (IF m.cross.mono THEN 1 ELSE 2)
      /\ does.channel = m.channel
  BY <1>3 DEF P!Does
<1> HIDE DEF does
<1>5. does.run = m.playing
  BY <1>2, <1>4 DEF Runs
<1>6. (IF m.cross.mono THEN 1 ELSE 2) = m.mode.channels
  BY <1>2 DEF Modes
<1>7. Width(does, m.mode) /\ does.rate = m.rate
  BY <1>1, <1>4, <1>6 DEF PasPlays, Width
<1>8. does.bytes = m.length
  <2>1. m.length \in Nat /\ 2 * (m.length \div 2) = m.length
    <3>1. PICK half \in Nat : MixBufferSize = 2 * half
      BY SizesAssumption
    <3>2. SampleSize(m.mode) \in Nat
      BY DEF Modes, SampleSize
    <3>3. PICK size \in Nat : SampleSize(m.mode) = size
      BY <3>2
    <3>4. m.length = 2 * (half * size) /\ half * size \in Nat
      BY <3>1, <3>3 DEF BufferSize
    <3>5. QED BY <3>4
  <2>2. CASE Words(m.channel)
    <3>1. P!Words(m.channel) /\ m.count = m.length \div 2
      BY <1>1, <2>2 DEF PasPlays, Words, P!Words
    <3>2. QED BY <1>4, <2>1, <3>1
  <2>3. CASE ~Words(m.channel)
    <3>1. ~P!Words(m.channel) /\ m.count = m.length
      BY <1>1, <2>3 DEF PasPlays, Words, P!Words
    <3>2. QED BY <1>4, <3>1
  <2>4. QED BY <2>2, <2>3
<1>9. QED BY <1>1, <1>4, <1>5, <1>7, <1>8 DEF PasPlays, Does, does

\* A Soundscape does what its driver has noted.
LEMMA SoundscapeDoes ==
    ASSUME IInv, m.kind = "SS", m.playing \in Runs, m.mode \in Modes,
           m.length = BufferSize(m.mode)
    PROVE  LET does == CardDoes(m)
           IN  Does(m, does) /\ Width(does, m.mode) /\ OnlyOpen(m, m.channel)
<1> DEFINE does == CardDoes(m)
<1>1. SoundscapePlays(m)
  BY DEF IInv, CardInv, SoundscapeInv, Runs
<1>2. /\ m.run = TRUE /\ m.playing = "play" /\ m.format.rate = m.rate
      /\ m.format.bits = m.mode.bits /\ m.format.channels = m.mode.channels
  BY <1>1 DEF SoundscapePlays
<1>3. does = S!Does(m)
  BY DEF CardDoes
<1>4. /\ does.run = (IF m.run THEN "play" ELSE "off")
      /\ does.bits = m.format.bits /\ does.channels = m.format.channels
      /\ does.bytes = m.count * m.format.channels * (m.format.bits \div 8)
      /\ does.rate = m.format.rate /\ does.channel = m.channel
  BY <1>3 DEF S!Does
<1> HIDE DEF does
<1>5. m.count * m.mode.channels * (m.mode.bits \div 8) = m.length
  <2>1. MixBufferSize \in Nat
    BY SizesAssumption
  <2>2. m.count = S!SampleLength(m, m.length)
    BY <1>1 DEF SoundscapePlays
  <2>3. CASE m.mode.bits = 8 /\ m.mode.channels = 1
    BY <2>1, <2>2, <2>3 DEF S!SampleLength, BufferSize, SampleSize
  <2>4. CASE m.mode.bits = 8 /\ m.mode.channels = 2
    <3>1. m.length = MixBufferSize * 2
      BY <2>4 DEF BufferSize, SampleSize
    <3>2. QED BY <2>1, <2>2, <2>4, <3>1 DEF S!SampleLength
  <2>5. CASE m.mode.bits = 16 /\ m.mode.channels = 1
    <3>1. m.length = MixBufferSize * 2
      BY <2>5 DEF BufferSize, SampleSize
    <3>2. QED BY <2>1, <2>2, <2>5, <3>1 DEF S!SampleLength
  <2>6. CASE m.mode.bits = 16 /\ m.mode.channels = 2
    <3>1. m.length = MixBufferSize * 4
      BY <2>6 DEF BufferSize, SampleSize
    <3>2. m.count = MixBufferSize
      BY <2>1, <2>2, <2>6, <3>1 DEF S!SampleLength
    <3>3. QED BY <2>1, <2>6, <3>1, <3>2
  <2>7. QED BY <2>3, <2>4, <2>5, <2>6 DEF Modes
<1>6. QED BY <1>1, <1>2, <1>4, <1>5 DEF SoundscapePlays, Does, Width, does

\* A Sound Source does what its driver has noted.
LEMMA DisneyDoes ==
    ASSUME IInv, m.kind = "DSS", m.playing # "off", pc = "test" => m.task
    PROVE  LET does == CardDoes(m)
           IN  Does(m, does) /\ Width(does, Mono8) /\ NoneOpen(m) /\ m.channel = Undefined
<1> DEFINE does == CardDoes(m)
<1>1. DisneyInv(m) /\ m.playing = "play" /\ HoldInv(m)
  BY DEF IInv, CardInv, DisneyInv
<1>2. m.task = TRUE
  <2>1. Going
    BY DEF IInv, PhaseInv
  <2>2. m.task
    BY <2>1 DEF IInv, ModeInv, Going
  <2>3. QED BY <1>1, <2>2 DEF HoldInv
<1>3. does = D!Does(m)
  BY DEF CardDoes
<1>4. /\ does.run = (IF m.task THEN "play" ELSE "off")
      /\ does.bits = 8 /\ does.channels = 1 /\ does.bytes = m.length
      /\ does.rate = D!SampleRate /\ does.channel = Undefined
  BY <1>3 DEF D!Does, D!Undefined, Undefined
<1> HIDE DEF does
<1>5. QED BY <1>1, <1>2, <1>4 DEF DisneyInv, Does, Width, Mono8, does

\* The only channel that is open.
LEMMA BusyChannel ==
    ASSUME NEW channel, OnlyOpen(m, channel)
    PROVE  /\ Busy(m) = {channel} /\ {channel} \ {Undefined} = {channel}
           /\ m.dma[channel].size = TotalBufferSize /\ m.dma[channel].to = m.playing
<1>1. channel \in Channels /\ channel # Undefined
  BY DEF OnlyOpen, VerifyChannel, Channels, Undefined
<1>2. TotalBufferSize # 0
  <2>1. /\ MixBufferSize \in Nat /\ NumberOfBuffers \in Nat /\ MixBufferSize # 0
        /\ NumberOfBuffers # 0
    BY SizesAssumption
  <2>2. QED BY <2>1, SizesAssumption
<1>3. m.dma[channel] # Idle
  BY <1>2 DEF OnlyOpen, Idle
<1>4. QED BY <1>1, <1>3 DEF OnlyOpen, Busy

\* What the invariant says of what the card does.
LEMMA AgreesNow == ASSUME IInv PROVE CardAgrees
<1> DEFINE does  == CardDoes(m)
           mode  == IF m.playing = "record" THEN Mono8 ELSE mv.mode
           opens == {does.channel} \ {Undefined}
<1> SUFFICES
        ASSUME Heard(m), TypeFits(m), m.playing # "off",
               pc = "test" /\ m.kind = "DSS" => m.task
        PROVE  /\ does.run = m.playing
               /\ <<does.bits, does.channels>> = <<mode.bits, mode.channels>>
               /\ m.playing = "play" => Promised(mv.asked, mode, fx.device)
               /\ does.bytes = BufferSize(mode)
               /\ does.rate = m.rate /\ (m.playing = "play" => does.rate = mv.rate)
               /\ Busy(m) = opens
               /\ \A channel \in opens :
                      m.dma[channel].size = TotalBufferSize /\ m.dma[channel].to = m.playing
               /\ m.playing = "play" => mv.channel = does.channel
  BY DEF CardAgrees
<1>1. /\ mode \in Modes /\ m.length = BufferSize(mode)
      /\ m.kind # "DSS" => m.mode = mode
      /\ m.kind = "DSS" => mode = Mono8
      /\ m.playing = "play" =>
             mode = Fit(m, mv.asked) /\ mv.rate = m.rate /\ mv.channel = m.channel
      /\ m.installed = TRUE /\ m.playing \in Runs
  BY ModeNow
<1> HIDE DEF mode
<1>2. m.kind \in {"SB", "PAS", "SS", "DSS"}
  BY DEF IInv, CardInv, HoldInv
<1>3. Does(m, does) /\ Width(does, mode)
  <2>1. CASE m.kind = "SB"
    BY <1>1, <2>1, BlasterDoes
  <2>2. CASE m.kind = "PAS"
    BY <1>1, <2>2, PasDoes
  <2>3. CASE m.kind = "SS"
    BY <1>1, <2>3, SoundscapeDoes
  <2>4. CASE m.kind = "DSS"
    BY <1>1, <2>4, DisneyDoes
  <2>5. QED BY <1>2, <2>1, <2>2, <2>3, <2>4
<1>4. /\ Busy(m) = opens
      /\ \A channel \in opens :
             m.dma[channel].size = TotalBufferSize /\ m.dma[channel].to = m.playing
  <2>1. CASE m.kind = "DSS"
    <3>1. NoneOpen(m) /\ m.channel = Undefined
      BY <2>1, DisneyDoes
    <3>2. does.channel = Undefined
      BY <1>3, <3>1 DEF Does
    <3> HIDE DEF does
    <3>3. QED BY <3>1, <3>2 DEF NoneOpen, Busy
  <2>2. CASE m.kind # "DSS"
    <3>1. OnlyOpen(m, m.channel)
      BY <1>1, <1>2, <2>2, BlasterDoes, PasDoes, SoundscapeDoes
    <3>2. does.channel = m.channel
      BY <1>3 DEF Does
    <3> HIDE DEF does
    <3>3. QED BY <3>1, <3>2, BusyChannel
  <2>3. QED BY <2>1, <2>2
<1>5. m.playing = "play" => Promised(mv.asked, mode, fx.device)
  BY <1>1 DEF IInv, ModeInv, Promised, Fit
<1>6. /\ does.run = m.playing /\ does.bytes = BufferSize(mode) /\ does.rate = m.rate
      /\ does.channel = m.channel
  BY <1>1, <1>3 DEF Does
<1>7. does.bits = mode.bits /\ does.channels = mode.channels
  BY <1>3 DEF Width
<1> HIDE DEF does
<1>8. QED BY <1>1, <1>4, <1>5, <1>6, <1>7

--------------------------------------------------------------------------------
\* Whatever cards, faults and order of calls: no interrupt and no task finds a driver half
\* in place.  While a handler has its vector its stack and the locked memory are there
\* (Reserve, Release and the drivers' Init and Shutdown), and while one is to call
\* MV_ServiceVoc the voices and the buffer of Multivoc are.
THEOREM HandlersSafe == Spec => []InterruptsSafe
BY Invariance, SafeNow, PTL

\* Whatever fails on the way, the computer is given back as it was found, but for what MV_Init
\* locks: after FX_Shutdown and after an FX_Init that fails the vectors, the masks, the stack,
\* the voices, the buffer, the memory the driver and LL_LockMemory lock, and the volumes are
\* as the program found them, and after MUSIC_Shutdown the music's volume is.  After
\* FX_Shutdown the memory of MV_LockMemory is still locked.
THEOREM GivenBack == Spec => []GivesBack
<1>1. Spec => []Locks
  BY LocksInit, LocksStep, PTL DEF Spec
<1>2. QED BY <1>1, Invariance, GivenNow, PTL

\* The volume that FX_SetVolume sets is the one that FX_GetVolume reads back, but for what
\* the mixer of the card rounds, whatever is recorded, played or asked of the music between.
THEOREM VolumeStands == Spec => []VolumeKept
<1>1. IInv => VolumeKept
  BY DEF IInv
<1>2. QED BY <1>1, Invariance, PTL

\* While it plays or records, the card does what Multivoc mixes for, whatever mode was asked
\* for on whatever card: so many bits and channels, a page of Multivoc's between two
\* interrupts, at Multivoc's rate, from the one DMA channel that is open.
THEOREM CardAgreed == Spec => []CardAgrees
BY Invariance, AgreesNow, PTL

--------------------------------------------------------------------------------
(* The one-voice effects of PCFX and ADLIBFX. *)

\* A sound that plays has both its pointers, values left and no callback yet.
\* A pointer is left behind only by ADLIBFX_Stop, and without one the sound has
\* ended for all who ask.
SoundInv ==
    /\ sound => pointer /\ called = 0
    /\ pointer /\ sound => left > 0
    /\ pointer /\ ~sound => mpc = "clear"
    /\ ~pointer => priority = 0 /\ left = 0

\* Stop has a sound to forget until it calls back, and whoever called it goes
\* on with none.
StopInv ==
    /\ mpc \in {"clear", "callback", "begin", "down"} => ~sound
    /\ mpc \in {"run", "stop", "forget", "begin", "down"} /\ ~sound => called >= 1
    /\ mpc \in {"forget", "clear"} => device = "adlib"
    /\ mpc = "begin" => ret = "begin"

\* The speaker sounds for a sound only.
SpeakerInv == device = "pc" /\ ~sound => ~on

EffectInv == EffectTypeOK /\ SoundInv /\ StopInv /\ SpeakerInv

--------------------------------------------------------------------------------
\* What the program starts with.
LEMMA EffectInitInv == EffectInit => EffectInv
<1> SUFFICES ASSUME EffectInit PROVE EffectInv
  OBVIOUS
<1>1. MinHandle \in MinHandle..MaxHandle
  BY ConstantsAssumption
<1>2. EffectTypeOK
  <2>1. /\ handle \in MinHandle..MaxHandle /\ priority \in Nat /\ left \in Nat \cup {-1}
        /\ last \in {0, 1} /\ asked \in Nat /\ called \in 0..2
    BY <1>1, SMT DEF EffectInit
  <2>2. /\ device \in Devices /\ installed \in BOOLEAN
        /\ sound \in BOOLEAN /\ pointer \in BOOLEAN /\ on \in BOOLEAN /\ loud \in BOOLEAN
        /\ mpc \in {"run", "stop", "forget", "clear", "callback", "begin", "down"}
        /\ ret \in {"run", "begin", "down"}
    BY Zenon DEF EffectInit
  <2>3. QED
    BY <2>1, <2>2 DEF EffectTypeOK
<1>3. SoundInv /\ StopInv /\ SpeakerInv
  BY DEF EffectInit, SoundInv, StopInv, SpeakerInv
<1>4. QED
  BY <1>2, <1>3 DEF EffectInv

\* Every step of the main program and of the service keeps the invariant.
LEMMA EffectStepInv == EffectInv /\ [EffectNext]_effectVars => EffectInv'
<1> SUFFICES ASSUME EffectInv, [EffectNext]_effectVars PROVE EffectInv'
  OBVIOUS
<1> USE ConstantsAssumption
    DEF EffectInv, EffectTypeOK, SoundInv, StopInv, SpeakerInv, player, main
<1>1. ASSUME InitDevice PROVE EffectInv'
  BY <1>1 DEF InitDevice
<1>2. ASSUME Shutdown PROVE EffectInv'
  BY <1>2 DEF Shutdown
<1>3. ASSUME Terminate PROVE EffectInv'
  BY <1>3 DEF Terminate
<1>4. ASSUME NEW h \in MinHandle..MaxHandle, Stop(h) PROVE EffectInv'
  BY <1>4 DEF Stop
<1>5. ASSUME NEW p \in Priorities, Play(p) PROVE EffectInv'
  BY <1>5 DEF Play
<1>6. ASSUME NEW v \in BOOLEAN, SetTotalVolume(v) PROVE EffectInv'
  BY <1>6 DEF SetTotalVolume
<1>7. CASE Halt
  BY <1>7 DEF Halt, Clear
<1>8. CASE HaltVoice
  BY <1>8 DEF HaltVoice
<1>9. CASE ForgetSound
  BY <1>9 DEF ForgetSound
<1>10. CASE ForgetPointer
  BY <1>10 DEF ForgetPointer, Clear
<1>11. CASE StopCallBack
  BY <1>11 DEF StopCallBack, CallBack
<1>12. ASSUME NEW n \in Lengths, Begin(n) PROVE EffectInv'
  BY <1>12 DEF Begin, NextHandle
<1>13. CASE Ends
  <2>1. called' \in 0..2
    BY <1>13 DEF Ends, CallBack
  <2>2. /\ sound' \in BOOLEAN /\ pointer' \in BOOLEAN /\ on' \in BOOLEAN
        /\ left' = 0 /\ last' = 0 /\ priority' = 0
    BY <1>13 DEF Ends, Clear
  <2>3. EffectTypeOK'
    BY <1>13, <2>1, <2>2 DEF Ends
  <2>4. SoundInv' /\ SpeakerInv'
    BY <1>13 DEF Ends, Clear
  <2>5. StopInv'
    BY <1>13 DEF Ends, Clear, CallBack
  <2>6. QED
    BY <2>3, <2>4, <2>5
<1>14. ASSUME NEW value \in {0, 1}, Sounds(value) PROVE EffectInv'
  <2>1. on' \in BOOLEAN /\ last' \in {0, 1}
    BY <1>14 DEF Sounds, Output
  <2>2. left' \in Nat /\ left' > 0
    BY <1>14 DEF Sounds, Shorter
  <2>3. EffectTypeOK'
    BY <1>14, <2>1, <2>2 DEF Sounds
  <2>4. SoundInv' /\ StopInv'
    BY <1>14, <2>2 DEF Sounds
  <2>5. SpeakerInv'
    BY <1>14 DEF Sounds
  <2>6. QED
    BY <2>3, <2>4, <2>5
<1>15. ASSUME NEW value \in {0, 1}, Overruns(value) PROVE EffectInv'
  BY <1>15 DEF Overruns, Output, Shorter
<1>16. CASE UNCHANGED effectVars
  BY <1>16 DEF effectVars
<1>17. QED
  BY <1>1, <1>2, <1>3, <1>4, <1>5, <1>6, <1>7, <1>8, <1>9, <1>10, <1>11, <1>12, <1>13, <1>14,
     <1>15, <1>16 DEF EffectNext, MainStep, MainCall, Service

\* The inductive invariant holds wherever the service interrupts.
THEOREM EffectSafety == EffectSpec => []EffectInv
BY EffectInitInv, EffectStepInv, PTL DEF EffectSpec

\* Every variable keeps its type.
THEOREM EffectTypeCorrect == EffectSpec => []EffectTypeOK
<1>1. EffectInv => EffectTypeOK
  BY DEF EffectInv
<1>2. QED BY <1>1, EffectSafety, PTL

\* When a sound has ended, PCFX_VoiceAvailable and PCFX_SoundPlaying agree that
\* it has and the PC speaker is silent, and while it plays they agree that it does.
THEOREM FreeCorrect == EffectSpec => []EndedIsFree
<1>1. EffectInv => EndedIsFree
  BY DEF EffectInv, SoundInv, StopInv, SpeakerInv, EndedIsFree
<1>2. QED BY <1>1, EffectSafety, PTL

\* A sound is called back when it has ended, however Stop and the service meet,
\* and not before.
THEOREM CallBackCorrect == EffectSpec => []CalledBackWhenEnded
<1>1. EffectInv => CalledBackWhenEnded
  BY DEF EffectInv, SoundInv, StopInv, CalledBackWhenEnded
<1>2. QED BY <1>1, EffectSafety, PTL
===============================================================================
