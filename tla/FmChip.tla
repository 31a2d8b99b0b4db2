-------------------------------- MODULE FmChip ------------------------------
(***************************************************************************)
(* What source/al_midi.c writes to the registers of the FM chip, for one   *)
(* voice: timbre, volume, panning and pitch, from the controllers of the   *)
(* channel the voice plays for.                                            *)
(*                                                                         *)
(* A register of a volume holds 63 less than what is kept here, a pitch is *)
(* the note and the part of a semitone, whose frequencies are a table; of  *)
(* a timbre the model tells only which one it is.                          *)
(***************************************************************************)
EXTENDS Integers, SequencesExt

CONSTANT
    NumVoices   \* NUM_VOICES: voices of an OPL2, half of those of an OPL3

None == -1
Voices == 0..(2 * NumVoices - 1)

Semitone == 1048576     \* BENDSENS_RANGE
MaxNote == 95           \* MAX_NOTE
FineTuneRange == 32     \* FINETUNE_RANGE
MaxVolume == 127        \* AL_MaxVolume, MAX_VELOCITY

\* (Mutant: both ports are those of the first half.)
CellFirst(opl3, v) == <<"first", v % NumVoices>>

\* Where the registers of a voice are: in which half of the chip.  The voices
\* of port 0 are written to AL_RightPort, which is the first half of an OPL2
\* and the second one of an OPL3.
Cell(opl3, v) == <<IF opl3 /\ v < NumVoices THEN "second" ELSE "first", v % NumVoices>>

Cells == {"first", "second"} \X (0..(NumVoices - 1))

\* The registers of a voice after AL_FlushCard.
Flushed == [on |-> FALSE, pitch |-> <<0, 0>>, timbre |-> None, level |-> <<0, 0>>,
            pan |-> {}]

\* A channel after AL_ResetVoices.
Channel(isDrum) ==
    [bankLo |-> 0, bankHi |-> 0, isDrum |-> isDrum, program |-> 0, bend |-> 0,
     volume |-> 100, expression |-> 127, pan |-> 64, rpn |-> 0, nrpn |-> FALSE,
     msb |-> 2, lsb |-> 0, vibrato |-> 0, aftertouch |-> 0, wave |-> 0,
     pedal |-> FALSE, soft |-> FALSE,
     portamento |-> 0, glides |-> FALSE, src |-> None, gliding |-> 0]

\* A voice after AL_ResetVoices, and one that went back to the pool.
Fresh == [channel |-> None, key |-> 0, velocity |-> 0, on |-> FALSE, sustain |-> {},
          age |-> 0, timbre |-> None, recent |-> 0,
          glides |-> FALSE, from |-> 0, rate |-> 0]

Idle(voice) == [Fresh EXCEPT !.timbre = voice.timbre, !.recent = voice.recent]

\* The timbre of a note.
PatchOf(c, key) == IF c.isDrum THEN key + 128 ELSE c.program

\* AL_SetVoiceTimbre, when the voice has another timbre.
WithTimbre(cell, bank, patch) ==
    [cell EXCEPT !.on = FALSE, !.pitch = <<0, 0>>, !.timbre = patch,
                 !.level = <<bank[patch].level[1], 0>>]

\* AL_Pan2Chan, in the register of the timbre.
PannedTo(cell, pan) ==
    [cell EXCEPT !.pan = {s \in {"left", "right"} :
                             IF s = "left" THEN pan < 80 ELSE pan >= 48}]

\* AL_SetVoiceVolume.
Loudness(c, voice, timbre, level) ==
    LET midiVolume == (c.volume * c.expression) \div 127
        loud == voice.velocity + timbre.velocity
        velocity == IF loud > MaxVolume THEN MaxVolume ELSE loud
    IN (midiVolume * level * (velocity + 128)) \div 32768

WithVolume(cell, c, voice, timbre) ==
    [cell EXCEPT !.level =
        <<IF timbre.additive THEN Loudness(c, voice, timbre, timbre.level[1]) ELSE @[1],
          Loudness(c, voice, timbre, timbre.level[2])>>]

\* The range of the wheel, and the tone it makes of a note.
BendMult(c) == c.msb * 128 + c.lsb

\* The registers of a tone: its note, and 32 parts of a semitone.
Tuned(tone) ==
    LET note == tone \div Semitone - 12
    IN <<IF note > MaxNote THEN MaxNote ELSE IF note < 0 THEN 0 ELSE note,
         ((tone % Semitone) * FineTuneRange) \div Semitone>>

\* AL_SetVoicePitch.  The timbre is that which the channel has now, not the one
\* the voice was given; a glide takes no account of the timbre at all.
PitchOf(c, voice, bank) ==
    LET transpose == bank[PatchOf(c, voice.key)].transpose
        note == IF voice.glides THEN voice.from
                ELSE IF c.isDrum THEN transpose ELSE voice.key + transpose
        vibrato == IF c.vibrato > c.aftertouch THEN c.vibrato ELSE c.aftertouch
        tone == note * Semitone + c.bend * BendMult(c)
    IN Tuned(IF vibrato = 0 THEN tone ELSE tone + vibrato * c.wave)
=============================================================================
