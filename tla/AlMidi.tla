-------------------------------- MODULE AlMidi ------------------------------
(***************************************************************************)
(* The music on the FM chip: source/al_midi.c.  Which note each voice of   *)
(* the chip plays, the list of every MIDI channel and the pool of free     *)
(* voices, the controllers of the channels, and what the registers of the  *)
(* chip were told by all that.                                             *)
(*                                                                         *)
(* Two callers meet here.  Messages come from the timer interrupt, of the  *)
(* song and of a fade, or from the program while the song is not active: a *)
(* message is one step, but the loop of AL_AllNotesOff.  (Left out: a fade *)
(* that comes in the midst of a message of the program, as during          *)
(* MIDI_PauseSong or a seek, which do not stop it.)  While the song is     *)
(* active the program comes here as well, as MUSIC_SetVolume of a card     *)
(* without a mixer and MUSIC_SetMidiChannelVolume call AL_ControlChange    *)
(* with interrupts enabled (midi.c:869).  So a message may come in the     *)
(* midst of AL_SetChannelVolume: between two voices of its walk, or        *)
(* between the two writes of AL_SendOutputToPort, the register and its     *)
(* value, and then the value goes to whatever register the message has     *)
(* selected last.                                                          *)
(*                                                                         *)
(* AL_Stereo is never set, so the code for two chips does not run;         *)
(* AL_ReserveVoice has no caller.                                          *)
(***************************************************************************)
EXTENDS FmChip, FiniteSets

CONSTANTS
    Pieces,     \* of each song: the cards it is played on, its events, and what the
                \* program may set meanwhile, the volumes of channels among it
    Drums,      \* channel 9, which gives way when no voice is free
    DefaultBank, \* ADLIB_TimbreBank before another one is registered
    GlideRate,  \* of each portamento time: semitones between two ticks
    Waves,      \* what the vibrato may add to a tone
    MaxAge,     \* bound: how many calls of AL_RunTimers an age tells apart
    MaxHeld,    \* bound: how often a key is down at the same time
    MaxGliding, \* bound: of gliding_voices, which AL_AllocVoice lets grow
    MaxAstray   \* bound: after how many registers that a call of the program has hit
                \* by mistake there is another call

\* An event: what it is, its channel, and its data.
Events == UNION {s.events : s \in Pieces}
Channels == {e[2] : e \in Events}
Notes == {<<e[2], e[3]>> : e \in {f \in Events : f[1] = "note"}}
Controls == {"modulation", "bankLsb", "bankMsb", "portamento", "portamentoOn", "volume",
             "pan", "expression", "pedal", "sostenuto", "soft", "reset", "nrpnLsb",
             "rpnLsb", "dataMsb", "dataLsb"}

Pool == None    \* the pool, as a list beside those of the channels

ASSUME AlAssumption ==
    /\ NumVoices \in Nat \ {0} /\ MaxAge \in Nat \ {0} /\ MaxHeld \in Nat
    /\ Channels \subseteq 0..15 /\ 0 \in Waves /\ Waves \subseteq Int
    /\ MaxGliding \in Nat /\ MaxAstray \in Nat
    /\ \A p \in Pieces : p.cards \subseteq BOOLEAN /\ p.volumes \subseteq Channels \X Nat
    /\ \A e \in Events : /\ e[1] = "program" => e[3] \in 0..127
                         /\ e[1] \in Controls \cup {"note", "touch"} => e[3] \in Nat

EndOfList == 2 * NumVoices

Lists == INSTANCE NullList WITH Node <- Voices, List <- Channels \cup {Pool},
                                Null <- EndOfList

VARIABLES
    al,       \* the lists, the voices, the channels, and the chip
    bank,     \* ADLIB_TimbreBank
    mode,     \* VoiceAllocMode is 1
    limit,    \* AL_MaxMidiChannel
    ending,   \* None, or the channel of the AL_AllNotesOff that runs
    held,     \* of each note: note-ons without their note-off
    piece,    \* the song that is played
    call,     \* the AL_SetChannelVolume of the program: the voice it has come to, and
              \* of its registers the one that it has selected
    late,     \* history: the registers of voices that a call may have missed, as a
              \* message came before it had come to them
    astray    \* history: the registers a call has written otherwise than it should, as
              \* a message came while it set a voice

alVars == <<al, bank, mode, limit, ending, held, piece, call, late, astray>>

\* The voices of channel c, the first one first.
VoicesOf(s, c) == Lists!Nodes(s.lists, c)

\* The voices of s that play.
Playing(s) == UNION {Range(VoicesOf(s, c)) : c \in Channels}

\* No call of the program runs.  `slot' is the operator whose volume is under way;
\* 2 is always heard, 1 only of an additive timbre.  A message has come since the
\* call reached the voice (stale), since it selected the register (torn).  `left':
\* the voices it has yet to set, as long as no message has come.
NoCall == [voice |-> None, slot |-> 0, additive |-> FALSE, stale |-> FALSE,
           torn |-> FALSE, left |-> {}]

-----------------------------------------------------------------------------
\* What the calls do to the voices s.

\* AL_SetVoiceTimbre, AL_SetVoiceVolume, AL_SetVoicePan, AL_SetVoicePitch.
SetVoiceTimbre(s, v) ==
    LET patch == PatchOf(s.channel[s.voice[v].channel], s.voice[v].key)
        pan == s.channel[s.voice[v].channel].pan
    IN IF s.voice[v].timbre = patch THEN s
       ELSE [s EXCEPT !.voice[v].timbre = patch,
                      !.chip[Cell(s.opl3, v)] =
                          IF s.opl3 THEN PannedTo(WithTimbre(@, bank, patch), pan)
                          ELSE WithTimbre(@, bank, patch)]

SetVoiceVolume(s, v) ==
    [s EXCEPT !.chip[Cell(s.opl3, v)] =
        WithVolume(@, s.channel[s.voice[v].channel], s.voice[v], bank[s.voice[v].timbre])]

SetVoicePan(s, v) ==
    IF ~s.opl3 THEN s
    ELSE [s EXCEPT !.chip[Cell(TRUE, v)] =
             PannedTo(@, s.channel[s.voice[v].channel].pan)]

SetVoicePitch(s, v) ==
    [s EXCEPT !.chip[Cell(s.opl3, v)].on = s.voice[v].on,
              !.chip[Cell(s.opl3, v)].pitch =
                  PitchOf(s.channel[s.voice[v].channel], s.voice[v], bank)]

\* The same for every voice of a channel.
ForVoices(s, c, Set(_, _)) == FoldLeft(Set, s, VoicesOf(s, c))

\* AL_VoiceOff.
VoiceOff(s, v) == [s EXCEPT !.chip[Cell(s.opl3, v)].on = FALSE]

\* The first voice of a list that fits, or None (AL_VoiceNotFound).
FirstOf(voices, Fits(_)) ==
    LET fitting == {i \in DOMAIN voices : Fits(voices[i])}
    IN IF fitting = {} THEN None ELSE voices[Min(fitting)]

\* (Mutant: a voice whose key is up already is found too.)
GetVoiceAny(s, c, key) == FirstOf(VoicesOf(s, c), LAMBDA v : s.voice[v].key = key)

\* AL_GetVoice.
GetVoice(s, c, key) ==
    FirstOf(VoicesOf(s, c), LAMBDA v : s.voice[v].key = key /\ s.voice[v].on)

\* The voice falls silent and is back in the pool, where nobody asks what it
\* has played, but for its timbres.
Free(s, c, v) ==
    LET removed == Lists!Remove(s.lists, c, v)
    IN [VoiceOff(s, v) EXCEPT
           !.lists = IF mode THEN Lists!AddToHead(removed, Pool, v)
                     ELSE Lists!AddToTail(removed, Pool, v),
           !.channel[c].gliding = IF s.voice[v].glides THEN @ - 1 ELSE @,
           !.voice[v] = Idle(@)]

\* AL_NoteOff, where the pedal is `down'.
NoteOff(s, c, key, down) ==
    LET v == GetVoice(s, c, key)
        sustain == s.voice[v].sustain \cup {p \in {"pedal"} : down}
        off == [s EXCEPT !.voice[v].on = FALSE, !.voice[v].sustain = sustain]
    IN IF v = None THEN s
       ELSE IF sustain # {} THEN off
       ELSE Free(off, c, v)

\* AL_KillSustainedVoices, for one voice and for the channel.
Kill(s, c, by, v) ==
    LET without == [s EXCEPT !.voice[v].sustain = @ \ {by}]
    IN IF s.voice[v].on \/ by \notin s.voice[v].sustain THEN s
       ELSE IF without.voice[v].sustain = {} THEN Free(without, c, v)
       ELSE without

KillSustained(s, c, by) == ForVoices(s, c, LAMBDA u, v : Kill(u, c, by, v))

\* AL_AllocVoice takes the oldest voice when the pool is empty, the first one of
\* the first channel that has one; voices that began in this very tick, of age 0,
\* are not taken.
Oldest(s) ==
    LET aged == {v \in Playing(s) : s.voice[v].age > 0}
        oldest == {v \in aged : \A u \in aged : s.voice[u].age <= s.voice[v].age}
        first == Min({c \in Channels : \E v \in oldest : v \in Range(VoicesOf(s, c))})
    IN IF aged = {} THEN None ELSE FirstOf(VoicesOf(s, first), LAMBDA v : v \in oldest)

Taken(s, v, k) == [s EXCEPT !.lists = Lists!Remove(@, k, v)]

\* AL_AllocVoice: the voice it takes, or None, and what it does to the others.
\* A voice that is taken while it glides is counted as gliding still.
AllocVoice(s) ==
    LET pool == VoicesOf(s, Pool)
        oldest == Oldest(s)
    IN IF pool # <<>> THEN [to |-> Taken(s, Head(pool), Pool), voice |-> Head(pool)]
       ELSE IF oldest # None
       THEN [to |-> Taken(VoiceOff(s, oldest), oldest, s.voice[oldest].channel),
             voice |-> oldest]
       ELSE [to |-> s, voice |-> None]

\* AL_AllocVoiceByTimbre.
AllocVoiceByTimbre(s, patch) ==
    LET v == FirstOf(VoicesOf(s, Pool), LAMBDA u : s.voice[u].recent = patch)
    IN IF v = None THEN AllocVoice(s) ELSE [to |-> Taken(s, v, Pool), voice |-> v]

\* The voice plays the note.
Struck(s, v, c, key, velocity) ==
    LET ch == s.channel[c]
        glides == ~ch.isDrum /\ ch.glides /\ ch.src # None /\ ch.portamento > 0
        voice == [Fresh EXCEPT
                     !.channel = c, !.key = key, !.on = TRUE,
                     !.velocity = IF ch.soft THEN (velocity * 80) \div 100 ELSE velocity,
                     !.timbre = s.voice[v].timbre, !.recent = PatchOf(ch, key),
                     !.glides = glides, !.from = IF glides THEN ch.src ELSE key,
                     !.rate = IF glides THEN GlideRate[ch.portamento] ELSE 0]
        set == [s EXCEPT !.lists = Lists!AddToTail(@, c, v), !.voice[v] = voice,
                         !.channel[c].src = key,
                         !.channel[c].gliding = IF glides THEN @ + 1 ELSE @]
    IN SetVoicePitch(SetVoicePan(SetVoiceVolume(SetVoiceTimbre(set, v), v), v), v)

-----------------------------------------------------------------------------
\* (Mutant: the timbre of the voice is kept as well.)
ForgottenBut(voice) == [Fresh EXCEPT !.recent = voice.recent, !.timbre = voice.timbre]

\* AL_ResetVoicesPart; VoiceRecentTimbre is kept.
Forgotten(voice) == [Fresh EXCEPT !.recent = voice.recent]

\* The first n voices in the pool.
Pooled(n) == FoldLeft(LAMBDA l, v : Lists!AddToTail(l, Pool, v), Lists!Empty,
                      [i \in 1..n |-> i - 1])

\* AL_ResetVoices, on an OPL3 or an OPL2.
ResetVoices(opl3, voice, chip) ==
    LET n == IF opl3 THEN 2 * NumVoices ELSE NumVoices
    IN [lists |-> Pooled(n),
        voice |-> [v \in Voices |-> Forgotten(voice[v])],
        channel |-> [c \in Channels |-> Channel(c = Drums)],
        opl3 |-> opl3, chip |-> chip]

AlInit ==
    /\ piece \in Pieces
    /\ \E opl3 \in piece.cards :
           al = ResetVoices(opl3, [v \in Voices |-> Fresh], [x \in Cells |-> Flushed])
    /\ bank = DefaultBank
    /\ mode = FALSE /\ limit = 16 /\ ending = None
    /\ held = [n \in Notes |-> 0]
    /\ call = NoCall /\ late = {} /\ astray = {}

\* AL_Reset: an OPL3 is flushed as a whole, of another card the first half.
Unflushed(opl3) == {x \in Cells : x[1] = "second" /\ ~opl3}

Reset(chip, opl3) ==
    [x \in Cells |-> IF x \in Unflushed(opl3) THEN chip[x] ELSE Flushed]

\* AL_Shutdown, and AL_Init for a card of the song.  The sequencer has ended all
\* notes; the second half of an OPL3 is flushed by AL_Init only.
Restart ==
    /\ ending = None /\ Playing(al) = {}
    /\ \E opl3 \in piece.cards :
          /\ al' = ResetVoices(opl3, al.voice, Reset(al.chip, opl3))
          /\ astray' = astray \cap Unflushed(opl3)
    /\ held' = [n \in Notes |-> 0] /\ late' = {}
    /\ UNCHANGED <<bank, mode, limit, ending, piece, call>>

\* AL_RegisterTimbreBank.  (Bound: before the first note.  The voices are not
\* told, and one that has played goes on with its timbre of the old bank.)
RegisterTimbreBank(b) ==
    /\ \A v \in Voices : al.voice[v].timbre = None
    /\ bank' = b
    /\ UNCHANGED <<al, mode, limit, ending, held, piece, call, late, astray>>

\* AL_SetVoiceAllocMode.
SetVoiceAllocMode(m) ==
    /\ ending = None /\ mode' = m
    /\ UNCHANGED <<al, bank, limit, ending, held, piece, call, late, astray>>

\* AL_SetMaxMidiChannel.  (Bound: while nothing plays.  A note of a channel that
\* is not heard any more would hang.)
SetMaxMidiChannel(n) ==
    /\ Playing(al) = {} /\ ending = None
    /\ limit' = n - 1
    /\ UNCHANGED <<al, bank, mode, ending, held, piece, call, late, astray>>

\* AL_NoteOn; when no voice is to be had, a drum gives way if it can.
NoteOn(c, key, velocity) ==
    /\ ending = None /\ c <= limit
    /\ held[<<c, key>>] < MaxHeld /\ al.channel[c].gliding < MaxGliding
    /\ LET drums == IF Drums \in Channels THEN VoicesOf(al, Drums) ELSE <<>>
           first == IF mode THEN AllocVoiceByTimbre(al, PatchOf(al.channel[c], key))
                    ELSE AllocVoice(al)
           found == IF first.voice = None /\ drums # <<>>
                    THEN AllocVoice(NoteOff(al, Drums, al.voice[Head(drums)].key,
                                            al.channel[Drums].pedal))
                    ELSE first
       IN al' = IF found.voice = None THEN found.to
                ELSE Struck(found.to, found.voice, c, key, velocity)
    /\ held' = [held EXCEPT ![<<c, key>>] = @ + 1]
    /\ UNCHANGED <<bank, mode, limit, ending, piece>>

\* A note-off of the song, or a note-on of velocity 0.
KeyUp(c, key) ==
    /\ ending = None /\ c <= limit
    /\ al' = NoteOff(al, c, key, al.channel[c].pedal)
    /\ held' = [held EXCEPT ![<<c, key>>] = IF @ > 0 THEN @ - 1 ELSE @]
    /\ UNCHANGED <<bank, mode, limit, ending, piece>>

\* (Mutant: only the first voice of the channel is bent.)
SetPitchBendFirst(c, bend) ==
    /\ ending = None /\ c <= limit
    /\ LET bent == [al EXCEPT !.channel[c].bend = bend]
       IN al' = IF VoicesOf(al, c) = <<>> THEN bent
                ELSE SetVoicePitch(bent, Head(VoicesOf(al, c)))
    /\ UNCHANGED <<bank, mode, limit, ending, held, piece>>

\* AL_SetPitchBend.
SetPitchBend(c, bend) ==
    /\ ending = None /\ c <= limit
    /\ al' = ForVoices([al EXCEPT !.channel[c].bend = bend], c, SetVoicePitch)
    /\ UNCHANGED <<bank, mode, limit, ending, held, piece>>

\* AL_ProgramChange.
ProgramChange(c, patch) ==
    /\ ending = None /\ c <= limit
    /\ al' = [al EXCEPT !.channel[c].program = patch]
    /\ UNCHANGED <<bank, mode, limit, ending, held, piece>>

\* AL_ChannelAfterTouch.
ChannelAfterTouch(c, data) ==
    /\ ending = None /\ c <= limit
    /\ al' = [al EXCEPT !.channel[c].aftertouch = data]
    /\ UNCHANGED <<bank, mode, limit, ending, held, piece>>

-----------------------------------------------------------------------------
\* What the controllers of a channel do to the voices s.

Clamped(volume) == IF volume > MaxVolume THEN MaxVolume ELSE volume

\* AL_SetChannelVolume, AL_SetChannelExpression.
SetChannelVolume(s, c, volume) ==
    ForVoices([s EXCEPT !.channel[c].volume = Clamped(volume)], c, SetVoiceVolume)

SetChannelExpression(s, c, expression) ==
    ForVoices([s EXCEPT !.channel[c].expression = Clamped(expression)], c, SetVoiceVolume)

\* AL_SetChannelPan.
SetChannelPan(s, c, pan) ==
    LET set == IF s.opl3 \/ c # Drums THEN [s EXCEPT !.channel[c].pan = pan] ELSE s
    IN IF s.opl3 THEN ForVoices(set, c, SetVoicePan) ELSE set

\* AL_SetChannelSostenuto.
Sustained(voice) == [voice EXCEPT !.sustain = @ \cup {"sostenuto"}]

SetChannelSostenuto(s, c) ==
    [s EXCEPT !.voice = [v \in Voices |->
        IF v \in Range(VoicesOf(s, c)) THEN Sustained(@[v]) ELSE @[v]]]

\* AL_UpdateBanks.
UpdateBanks(ch, c) ==
    IF c = Drums THEN ch
    ELSE [ch EXCEPT !.isDrum = ch.bankLo = 0 /\ ch.bankHi = 127]

\* MIDI_RESET_ALL_CONTROLLERS.
ResetControllers(ch) ==
    LET new == Channel(FALSE)
    IN [ch EXCEPT !.bend = new.bend, !.msb = new.msb, !.lsb = new.lsb,
            !.vibrato = new.vibrato, !.aftertouch = new.aftertouch, !.wave = new.wave,
            !.pedal = new.pedal, !.soft = new.soft, !.portamento = new.portamento,
            !.glides = new.glides, !.src = new.src]

\* Data entry sets the range of the wheel, or nothing; the voices that play
\* keep their pitch.
SetsRange(ch) == ~ch.nrpn /\ ch.rpn = 0

\* AL_ControlChange, but for the loop that ends all notes.
Controlled(s, c, type, data) ==
    LET ch == s.channel[c]
        Put(changed) == [s EXCEPT !.channel[c] = changed]
        down == data >= 64
    IN CASE type = "modulation" -> Put([ch EXCEPT !.vibrato = data])
         [] type = "bankLsb" -> Put(UpdateBanks([ch EXCEPT !.bankLo = data], c))
         [] type = "bankMsb" -> Put(UpdateBanks([ch EXCEPT !.bankHi = data], c))
         [] type = "portamento" -> Put([ch EXCEPT !.portamento = data])
         [] type = "portamentoOn" -> Put([ch EXCEPT !.glides = down])
         [] type = "volume" -> SetChannelVolume(s, c, data)
         [] type = "pan" -> SetChannelPan(s, c, data)
         [] type = "expression" -> SetChannelExpression(s, c, data)
         [] type = "pedal" ->
              IF down THEN Put([ch EXCEPT !.pedal = TRUE])
              ELSE KillSustained(Put([ch EXCEPT !.pedal = FALSE]), c, "pedal")
         [] type = "sostenuto" ->
              IF down THEN SetChannelSostenuto(s, c) ELSE KillSustained(s, c, "sostenuto")
         [] type = "soft" -> Put([ch EXCEPT !.soft = down])
         [] type = "reset" ->
              SetChannelExpression(Put(ResetControllers(ch)), c, 127)
         [] type = "nrpnLsb" -> Put([ch EXCEPT !.rpn = data, !.nrpn = TRUE])
         [] type = "rpnLsb" -> Put([ch EXCEPT !.rpn = data, !.nrpn = FALSE])
         [] type = "dataMsb" -> Put([ch EXCEPT !.msb = IF SetsRange(ch) THEN data ELSE @])
         [] type = "dataLsb" -> Put([ch EXCEPT !.lsb = IF SetsRange(ch) THEN data ELSE @])

ControlChange(c, type, data) ==
    /\ ending = None /\ c <= limit
    /\ al' = Controlled(al, c, type, data)
    /\ UNCHANGED <<bank, mode, limit, ending, held, piece>>

\* MIDI_ALL_NOTES_OFF, MIDI_ALL_SOUNDS_OFF: AL_AllNotesOff, with the pedal up
\* for as long as it runs.
AllNotesOff(c) ==
    /\ ending = None /\ c <= limit /\ ending' = c
    /\ UNCHANGED <<al, bank, mode, limit, held, piece>>

AllNotesOffStep ==
    /\ ending \in Channels
    /\ LET voices == VoicesOf(al, ending)
       IN IF voices = <<>> THEN ending' = None /\ UNCHANGED al
          ELSE /\ al' = NoteOff([al EXCEPT !.voice[Head(voices)].sustain = {}],
                                ending, al.voice[Head(voices)].key, FALSE)
               /\ UNCHANGED ending
    /\ UNCHANGED <<bank, mode, limit, held, piece>>

-----------------------------------------------------------------------------
\* AL_RunTimers, at the end of a tick.

\* Ages stop at 4000000000, here at MaxAge.
Older(voice) ==
    IF (voice.on \/ voice.sustain # {}) /\ voice.age < MaxAge
    THEN [voice EXCEPT !.age = @ + 1] ELSE voice

\* A voice glides on, and ends when it has come to its note.
Glided(s, v) ==
    LET voice == s.voice[v]
        up == voice.from < voice.key
        now == IF up THEN voice.from + voice.rate ELSE voice.from - voice.rate
        ends == ~(IF up THEN now < voice.key ELSE now > voice.key)
    IN IF ~voice.glides THEN s
       ELSE [s EXCEPT !.voice[v].from = now, !.voice[v].glides = ~ends,
                      !.channel[voice.channel].gliding = IF ends THEN @ - 1 ELSE @]

Wavers(ch) == ch.vibrato > 0 \/ ch.aftertouch > 0

\* A voice of a channel that wavers or does not.
Wave(s, wavers, v) ==
    LET glided == Glided(s, v)
    IN IF wavers \/ glided.voice[v].glides THEN SetVoicePitch(glided, v) ELSE glided

WaveAll(s, c, wavers) == ForVoices(s, c, LAMBDA u, v : Wave(u, wavers, v))

\* The voices of a channel, whose vibrato then stands at `wave'.
Waved(s, c, wave) ==
    LET ch == s.channel[c]
    IN IF VoicesOf(s, c) # <<>> /\ (Wavers(ch) \/ ch.gliding > 0)
       THEN [WaveAll(s, c, Wavers(ch)) EXCEPT !.channel[c].wave = wave]
       ELSE [s EXCEPT !.channel[c].wave = 0]

Ticked(s, wave) == FoldLeft(LAMBDA u, c : Waved(u, c, wave), s, SetToSeq(Channels))

RunTimers ==
    /\ ending = None
    /\ \E wave \in Waves :
           al' = Ticked([al EXCEPT !.voice = [v \in Voices |-> Older(@[v])]], wave)
    /\ UNCHANGED <<bank, mode, limit, ending, held, piece>>

-----------------------------------------------------------------------------
\* The AL_SetChannelVolume of the program, while messages come.

\* The call has come to voice v, or to the end of the list.
At(v, left) ==
    IF v = EndOfList THEN NoCall ELSE [NoCall EXCEPT !.voice = v, !.left = left]

\* AL_SetChannelVolume sets the volume and starts at the head of the list.
VolumeCall(c, volume) ==
    /\ call = NoCall /\ ending = None /\ c <= limit /\ Cardinality(astray) <= MaxAstray
    /\ al' = [al EXCEPT !.channel[c].volume = Clamped(volume)]
    /\ call' = At(al.lists.start[c], Range(VoicesOf(al, c)))
    /\ UNCHANGED <<bank, mode, limit, ending, held, piece, late, astray>>

\* AL_SetVoiceVolume reads the voice, and selects the first register.  A voice
\* without a timbre is reached when the walk has got into the pool: what it finds
\* before the bank is any timbre.
ReachVoice ==
    /\ call.voice # None /\ call.slot = 0 /\ ending = None
    /\ \E additive \in BOOLEAN :
          LET timbre == al.voice[call.voice].timbre
          IN /\ timbre # None => additive = bank[timbre].additive
             /\ call' = [call EXCEPT !.slot = 2, !.additive = additive]
    /\ UNCHANGED <<al, bank, mode, limit, ending, held, piece, late, astray>>

\* (Mutant: the walk ends at the first voice.)
SentOnce ==
    IF call.slot = 2 /\ call.additive THEN [call EXCEPT !.slot = 1, !.torn = FALSE]
    ELSE NoCall

\* After a write: the next register of the voice, or the voice that is behind it
\* now, in whatever list.
Sent ==
    IF call.slot = 2 /\ call.additive THEN [call EXCEPT !.slot = 1, !.torn = FALSE]
    ELSE At(al.lists.next[call.voice], call.left \ {call.voice})

\* The volume of one operator.
WithLevel(cell, slot, level) ==
    [cell EXCEPT !.level = IF slot = 2 THEN <<@[1], level>> ELSE <<level, @[2]>>]

\* No message has come since the voice was reached.  Of a voice that is free
\* nothing is kept, as its next note sets these registers.
SendLevel ==
    /\ call.slot # 0 /\ ~call.stale /\ ending = None
    /\ LET v == call.voice
           voice == al.voice[v]
           timbre == bank[voice.timbre]
           level == Loudness(al.channel[voice.channel], voice, timbre,
                             timbre.level[call.slot])
       IN /\ al' = IF v \in Playing(al)
                   THEN [al EXCEPT !.chip[Cell(al.opl3, v)] =
                                       WithLevel(@, call.slot, level)]
                   ELSE al
          /\ late' = IF Sent.slot = 1 THEN late ELSE late \ {Cell(al.opl3, v)}
    /\ call' = Sent
    /\ UNCHANGED <<bank, mode, limit, ending, held, piece, astray>>

\* What a value that was meant for another register may make of a voice: a key-on
\* or its end, a pitch, and no timbre, panning or volume that was asked for.
Garbled(cell) ==
    {[cell EXCEPT !.on = on, !.pitch = <<None, 0>>] : on \in BOOLEAN}
        \cup {[cell EXCEPT !.timbre = None], [cell EXCEPT !.pan = {}]}
        \cup {WithLevel(cell, slot, None) : slot \in {1, 2}}

\* A message has come.  The value was computed before, so it is no volume that was
\* asked for; and if the message came after the register was selected, the value
\* goes to the register the message has selected last: the model does not keep
\* which one that is.
SendAstray ==
    /\ call.slot # 0 /\ call.stale /\ ending = None
    /\ \E x \in IF call.torn THEN {Cell(al.opl3, v) : v \in Voices}
                 ELSE {Cell(al.opl3, call.voice)} :
          /\ \E cell \in IF call.torn THEN Garbled(al.chip[x])
                          ELSE {WithLevel(al.chip[x], call.slot, None)} :
                al' = [al EXCEPT !.chip[x] = cell]
          /\ astray' = astray \cup {x}
    /\ call' = Sent
    /\ UNCHANGED <<bank, mode, limit, ending, held, piece, late>>

\* What a message does to the call it interrupts.
Interrupted ==
    /\ call' = IF call.slot = 0 THEN [call EXCEPT !.left = {}]
               ELSE [call EXCEPT !.stale = TRUE, !.torn = TRUE, !.left = {}]
    /\ late' = late \cup {Cell(al.opl3, v) : v \in (call.left \cup {call.voice}) \ {None}}
    /\ UNCHANGED astray

-----------------------------------------------------------------------------
Happens(e) ==
    LET c == e[2]
    IN \/ e[1] = "note" /\ (NoteOn(c, e[3], e[4]) \/ KeyUp(c, e[3]))
       \/ e[1] = "bend" /\ SetPitchBend(c, e[3])
       \/ e[1] = "program" /\ ProgramChange(c, e[3])
       \/ e[1] = "touch" /\ ChannelAfterTouch(c, e[3])
       \/ e[1] = "off" /\ AllNotesOff(c)
       \/ e[1] \in Controls /\ ControlChange(c, e[1], e[3])

\* What the interrupt does.
Message == (\E e \in piece.events : Happens(e)) \/ AllNotesOffStep \/ RunTimers

\* What the program does between two calls.
Setting ==
    \/ Restart
    \/ \E m \in piece.modes : SetVoiceAllocMode(m)
    \/ \E n \in piece.limits : SetMaxMidiChannel(n)
    \/ \E b \in piece.banks : RegisterTimbreBank(b)

AlNext ==
    \/ Message /\ Interrupted
    \/ Setting /\ call = NoCall
    \/ \E s \in piece.volumes : VolumeCall(s[1], s[2])
    \/ ReachVoice \/ SendLevel \/ SendAstray

AlSpec == AlInit /\ [][AlNext]_alVars

-----------------------------------------------------------------------------
(* Properties.                                                             *)

AlTypeOK ==
    /\ al.lists.start \in [Channels \cup {Pool} -> Voices \cup {2 * NumVoices}]
    /\ al.lists.next \in [Voices -> Voices \cup {2 * NumVoices}]
    /\ \A v \in Voices : LET voice == al.voice[v] IN
           /\ voice.channel \in Channels \cup {None} /\ voice.on \in BOOLEAN
           /\ voice.age \in 0..MaxAge /\ voice.sustain \subseteq {"pedal", "sostenuto"}
    /\ \A c \in Channels : al.channel[c].gliding \in Nat
    /\ ending \in Channels \cup {None} /\ mode \in BOOLEAN /\ limit \in Int
    /\ held \in [Notes -> 0..MaxHeld] /\ piece \in Pieces
    /\ call.voice \in Voices \cup {None} /\ call.slot \in 0..2 /\ call.left \subseteq Voices
    /\ late \subseteq Cells /\ astray \subseteq Cells

\* The voices that the card has.
Present == {v \in Voices : al.opl3 \/ v < NumVoices}

\* Every voice is in the pool or in the list of the channel it plays for, and
\* nowhere else, and a list reads the same from both its ends.  A voice that
\* drops out is lost to the music; one in two lists plays two notes.
VoicesPartitioned ==
    LET Listed(k) == VoicesOf(al, k)
        Backwards(k) == Lists!Nodes(Lists!Mirror(al.lists), k)
    IN /\ \A k \in Channels \cup {Pool} :
            IsInjective(Listed(k)) /\ Backwards(k) = Reverse(Listed(k))
       /\ \A v \in Present : Cardinality({k \in Channels \cup {Pool} :
                                             v \in Range(Listed(k))}) = 1
       /\ \A c \in Channels : \A v \in Range(Listed(c)) : al.voice[v].channel = c

\* The voices of a channel that sound with the key down.
Pressed(s, c, key) ==
    {v \in Range(VoicesOf(s, c)) : s.voice[v].key = key /\ s.voice[v].on}

\* No note hangs: of each key, no more voices sound as pressed than there are
\* note-ons without a note-off, whatever notes were doubled, held by a pedal,
\* or lost their voice to others.
NoNoteHangs ==
    \A n \in Notes : Cardinality(Pressed(al, n[1], n[2])) <= held[n]

\* What the chip was told agrees with the lists, in both halves of it: it sounds
\* the voices whose keys are down, and no voice that plays for no channel.  A
\* key-on that is left behind sounds for good.  This holds of every voice whose
\* registers no volume call of the program has written amiss: a message that comes
\* amid such a call harms one register of one voice for each register it finds
\* selected, and no other voice.
ChipSoundsWhatPlays ==
    /\ \A v \in Playing(al) : LET x == Cell(al.opl3, v)
                              IN al.voice[v].on /\ x \notin astray => al.chip[x].on
    /\ \A x \in Cells \ astray :
          al.chip[x].on => \E v \in Playing(al) : Cell(al.opl3, v) = x

\* A voice sounds with the timbre, the volume and the panning that its channel
\* has: what AL_SetVoiceTimbre leaves as it was is what the chip still holds,
\* and no change of a controller is missed by a voice that plays.  Of the voices
\* whose registers no volume call of the program has written amiss; and of those
\* that it had yet to come to when a message came, and that none has reached
\* since, the volume may be an older one.  A call that is not interrupted
\* reaches them all.
ChipSetAsAsked ==
    \A v \in Playing(al) :
        LET voice == al.voice[v]
            ch == al.channel[voice.channel]
            x == Cell(al.opl3, v)
            cell == al.chip[x]
            timbre == bank[voice.timbre]
        IN x \notin astray =>
           /\ cell.timbre = voice.timbre
           /\ ~timbre.additive => cell.level[1] = timbre.level[1]
           /\ al.opl3 => cell.pan = PannedTo(cell, ch.pan).pan
           /\ x \notin late /\ v \notin call.left =>
                 /\ cell.level[2] = Loudness(ch, voice, timbre, timbre.level[2])
                 /\ timbre.additive =>
                        cell.level[1] = Loudness(ch, voice, timbre, timbre.level[1])

\* The pitch a voice should have: its key in its timbre, and the wheel.
InTune(s, v) ==
    LET voice == s.voice[v]
        ch == s.channel[voice.channel]
        transpose == bank[voice.timbre].transpose
        note == IF voice.timbre > 127 THEN transpose ELSE voice.key + transpose
    IN s.chip[Cell(s.opl3, v)].pitch = Tuned(note * Semitone + ch.bend * BendMult(ch))

\* The step is an event of one of these kinds on the channel.
Occurs(kinds, c) == \E e \in piece.events : e[1] \in kinds /\ e[2] = c /\ Happens(e)

\* A voice gets out of tune by what the code does not send to the chip: a new
\* range of the wheel, the end of a vibrato, the end of a glide, and the wheel
\* when the channel has another timbre by now.  And it wavers.
Untunes(v) ==
    LET voice == al'.voice[v]
        ch == al'.channel[voice.channel]
    IN \/ Wavers(ch) \/ voice.glides \/ al.voice[v].glides
       \/ PatchOf(ch, voice.key) # voice.timbre
       \/ Occurs({"modulation", "reset", "dataMsb", "dataLsb", "touch"}, voice.channel)

\* The step is a write of a call that a message has come amid (SendAstray), and it
\* goes to the registers of the voice.
IsHit(v) ==
    /\ call.stale /\ ~call'.torn
    /\ al'.chip[Cell(al.opl3, v)] # al.chip[Cell(al.opl3, v)]

\* By nothing else: whatever voices are taken, held and played again, a note
\* begins in tune, and one that is in tune remains so.  And a voice that sounds
\* goes on sounding until it is freed, unless its pitch is set while a pedal
\* holds it: that ends it, as its key is up.  The one exception is the step in
\* which a volume call of the program writes to a register that a message of the
\* interrupt has selected: nothing else that the two do at the same time does it.
StaysInTune ==
    [][\A v \in Playing(al)' :
          \/ IsHit(v)
          \/ /\ \/ InTune(al, v)' \/ Untunes(v)
                \/ v \in Playing(al) /\ ~InTune(al, v)
             /\ \/ al'.chip[Cell(al'.opl3, v)].on
                \/ v \in Playing(al) /\ ~al.chip[Cell(al.opl3, v)].on
                \/ /\ ~al'.voice[v].on
                   /\ \/ Wavers(al.channel[al.voice[v].channel]) \/ al.voice[v].glides
                      \/ Occurs({"bend"}, al.voice[v].channel)
      ]_alVars

-----------------------------------------------------------------------------
AlFairSpec == AlSpec /\ WF_alVars(AllNotesOffStep /\ Interrupted)

\* "Turns off all currently playing voices", says AL_AllNotesOff of itself: its
\* loop comes to an end.
AllNotesOffReturns == (ending # None) ~> (ending = None)
=============================================================================
