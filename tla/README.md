# Verification of the Apogee audio library

TLA+ models of the sound library in `src/source/` (C and assembler for DOS, one
processor, no operating system underneath), TLC configurations that check them on
small instances, and proofs that TLAPS checks for every value of the constants.

1. [The system](#1-the-system): components, what they keep, how they interact
2. [Plan](#2-plan): modules, in their order, done and to come
3. [The modules](#3-the-modules): how states and actions correspond to the code
4. [The runs](#4-the-runs): what each checks and shows, bounds, fairness
5. [The proofs](#5-the-proofs)
6. [What the models leave out](#6-what-the-models-leave-out)

To check a module: `tlc -config MultiVoc.cfg MCMultiVoc.tla`; to prove one:
`tlapm TaskManProofs.tla`. `PROJECT.json` lists the runs, maps every definition to the
lines it stands for, and lists the hazards of the code with the properties that
catch them.

## 1. The system

A game links the library and calls `FX_*` (effects) and `MUSIC_*` (songs). Everything
that takes time happens in interrupt handlers, on the stack of whatever they interrupt:

    game ── FX_* ──> fx_man.c ──> multivoc.c ──> blaster.c / pas16.c / sndscape.c / sndsrc.c
      │                               ▲   │               │
      │                       mixing  │   └─ mv_mix*.asm  └──> dma.c
      │                     card IRQ ─┘ (sndsrc: task)
      ├── PCFX_*, ADLIBFX_* ──> pcfx.c, adlibfx.c┐
      └── MUSIC_* ──> music.c ──> midi.c ────────┤ tasks
                                    │            ▼
                                    │        task_man.c <── IRQ 0 (PIT)
                                    └──> al_midi.c, mpu401.c, awe32

The communication is shared memory: linked lists, fields of tasks and voices, a few
global flags. A `cli` section protects some accesses, and there are no other locks. Two
facts about these sections shape the models.

- `RestoreInterrupts` (`interrup.h`) is `popf; sti`. It does not restore the
  interrupt flag, it sets it. When functions with sections of their own call each
  other, the section of the caller ends at the FIRST restore of the callee.
- A handler runs to its end once it has begun; the main program stands still meanwhile.
  So the interleavings are: the main program between any two accesses that are not in
  one section, and there a whole run of a handler, whose steps the models keep apart
  only to describe the handler, not to interleave them.

| Component | State | Operations | What is hard | What makes it correct |
|---|---|---|---|---|
| Circular lists, `linklist.h` | `next`, `prev` of every node and of the root | `LL_AddNode`, `LL_RemoveNode`, `LL_SortedInsertion` | four writes for an insertion, with an interrupt that walks the list | a ring in both directions; insertion and removal change the members by one |
| Null-terminated lists, `ll_man.c` | `start`, `end`, `next`, `prev` | `LL_AddToHead`, `LL_AddToTail`, `LL_RemoveNode` | first and last nodes | both directions agree |
| Critical sections, `interrup.h` | the interrupt flag | `DisableInterrupts`, `RestoreInterrupts` | nested sections end early | no handler sees what a caller meant to hide |
| Task manager, `task_man.c` | list of tasks sorted by priority, the PIT's rate, a 16-bit count for the BIOS, `TS_Suspend` | `TS_ScheduleTask`, `TS_Dispatch`, `TS_SetTaskRate`, `TS_Terminate`, `TS_Shutdown`, the handler of IRQ 0 | insertion while the handler walks; services that end themselves or change their own rate; clock changes inside the handler; counts that wrap | no task lost or called after its end; called in the order of priorities, at its rate; the BIOS clock stays exact |
| Multivoc voices, `multivoc.c` | play list, pool, handles, state of the card | `MV_Play*`, `MV_Kill`, `MV_KillAllVoices`, `MV_EndLooping`, recording, `MV_ServiceVoc` | sounds that end while the program stops or replaces them; handles that wrap; callbacks | every voice in one list; one sound per handle; the right sound is replaced; each sound is called back once |
| Mixers, `mv_mix*.asm`, `mv_mix2c.c` | the page, a position in the sample | mixing one voice into one page | odd and single samples | the position handed on is where the sample goes on |
| MIDI sequencer, `midi.c` | per track position, delay, activity, loop, context; the clock of the song; three volumes | `MIDI_PlaySong` ... `MIDI_SetSongPosition`, `_MIDI_ServiceRoutine` | EMIDI loops that take back other tracks in the middle of a tick; seeks that play loops silently | the count of active tracks, tracks in step with each other, the clock is that of the notes, ticks and songs end |
| Adlib melody, `al_midi.c` | 9 or 18 voices in lists per channel and a pool; controllers of 16 channels; pedals; ages; what each voice has cached of the chip | note-on, note-off, programs, banks, volumes, bends, vibrato, portamento, pedals, all notes off | more notes than voices; pedals and repeated keys; registers that are not written again | no note hangs, no voice lost, the oldest gives way; the chip holds what the channels ask for |
| Sound Blaster, `blaster.c` | DSP, IRQ and DMA programming, what is going on; settings of the environment; mixer | initialize, begin and stop playback or recording, its IRQ, volumes, shut down | an interrupt of the sound before; single transfers that the handler must start again; DSPs of five kinds | the page that is mixed is the one behind the page that plays; every page is played once; rate, mode and channel are those Multivoc mixes for; everything is given back |
| DMA controller, `dma.c` | address, length, mode of a channel | setup, end, position | reading a running counter in two halves | the position is one the transfer has had |
| Pro AudioSpectrum, Soundscape, `pas16.c`, `sndscape.c` | as Sound Blaster | as Sound Blaster; no recording on the Soundscape | pending interrupts at a start | what is given to the program has been recorded |
| Disney Sound Source, `sndsrc.c` | FIFO on the printer port | detect, start, stop; a task feeds it | pages counted, not read; a task that may be missing | all data in order |
| PC speaker and Adlib effects, `pcfx.c`, `adlibfx.c` | one sound, its handle, priority and rest | play, stop, a task that plays it | a sound that ends while it is stopped | one callback for each sound |
| Music manager, `music.c` | device, song volume, fade task | initialize, shut down, play, stop, fade | a device that does not answer half-way; the fade task ends itself in the interrupt; volumes are read, computed and sent with interrupts enabled | the volume arrives, the task is ended once, what was sent last is what the volumes make |
| Effects manager, `fx_man.c` | the device in use | look for a card, initialize, shut down, volumes; dispatch to the device and to `multivoc.c`; error codes and `FX_ErrorString` | memory, locking or stack that is not to be had half-way; two error codes that every failing call has to set | the computer is given back as it was found; a call that fails says why |
| MPU-401, `mpu401.c` | the mode of the MIDI interface | reset, UART mode, MIDI messages | an interface that somebody left in UART mode, or that is not there | the interface is left as it comes up |
| Pitch table, `pitch.c`; `a_dpmi.c`, `debugio.c` | | table, memory locking, text | | |
| Programs, `util/`, `pm/` | | play files; set `TS_Suspend` around `printf` | | |
| Unbuilt code, `unused/`, `old/`, `leeold` ... | | not compiled | | |

## 2. Plan

In the order of importance:

1. `LinkList` - the operations on circular lists that everything shares.
2. `TaskMan` - the task manager, main program and IRQ 0; `TaskQueue` - the abstract queue
   that it implements; `LinkListProofs`, `TaskManProofs`.
3. `MultiVoc` - voices, handles, callbacks, main program and card interrupt;
   `MultiVocProofs`. `Player` over it - what the calls of `fx_man.c` for sounds return and
   which error they leave.
4. `Stream` over `Mixers` - what `MultiVoc` abstracts to a number of pages: the blocks of
   one sound, the mixing of pages, pitch, pan and loops changed meanwhile; `StreamProofs`.
5. `SoundCard` - the page numbers of `multivoc.c` and the interrupt and DMA of its cards;
   `SoundCardProofs`. It provides what `MultiVoc` and `Stream` assume of the card: a page
   is mixed again and again, ahead of the card.
6. `Midi` - the sequencer; `AlMidi` over `FmChip` and `NullList` - the FM voices it plays
   on, and the registers of the chip; `MusicProofs`. `Fade` - the volumes and fades of the
   music; `FadeProofs`.
7. `Setup` over `Hardware` and the drivers `Blaster`, `Pas`, `Soundscape`, `Disney`, `Mpu`
   - finding, initializing and shutting down cards, modes, rates, mixers; `FxProofs`.
8. `Effect` - `pcfx.c` and `adlibfx.c`, a client of the task manager, also proved in
   `FxProofs`. What it takes from `TaskMan` is `EveryTaskServed`: a scheduled service is called.

All of these are written, and the safety properties that the runs check proved, two of them
for songs that are looped as a whole only (section 5).
An abstract specification still worth stating is a sound as its user sees it
(started, playing, ended, called back once) for `MultiVoc`; the properties of `Effect` say
the same of its one voice.

## 3. The modules

### LinkList

The links are two functions on nodes. `AddedNext`/`AddedPrev` and
`RemovedNext`/`RemovedPrev` are the links after `LL_AddNode` and `LL_RemoveNode`;
`FirstIn` is the search of `LL_SortedInsertion` from the root; `Ring` says that a set
of nodes is linked in a circle both ways. `Members`, the nodes one comes across from
the root, is the least set closed under `next`, and `Met`, those the search looks at, the
least one closed up to where it stops: no recursion, so they can be proved about.

### TaskMan, TaskQueue

The heap is a set of cells: `malloc` returns any free one, and `free` leaves the fields as
they are, since the handler may still read them. `next`, `prev`, `rate`,
`count`, `priority`, `active` are the fields of `struct task`; `clock` is
`TaskServiceRate`, `sum` is `TaskServiceCount`, `suspend` is `TS_Suspend`.

`mpc` is where the main program is inside a call, and `node`, `hoya`, `speed` are its
locals there. `ScheduleTask`, `SetTimer`, `SetClockSpeed`, `FillTask`, `Search`,
`Link`, `Link3`, `Link4` are `TS_ScheduleTask` from its `malloc` to the last of the four
pointer writes; the two writes to the new node, which nobody else reaches, are one step.
`SetTaskRate` ends after the restore inside `TS_SetTimer`, when the clock gets faster, and
`FinishRetime` does the rest. `FreeTaskList`, `StopClock`, `RestoreVector` are
`TS_Shutdown`. `ipc` is where the handler is: `TimerInterrupt`, `VisitTask`,
`Service`, `NextTask`, `ChainBios`. A service may do nothing, terminate its own task
or change its own rate, which is what the library's services do. `owed` is a ghost:
the time the PIT has counted that has not been given to the BIOS.

`Careful` is an assumption about the environment: no service ends its task while an
insertion of the main program walks through the list or writes its links (`Calm`). That is
all it excludes: services may change their rates at any time, and end their tasks between
any other two steps of a call. `MUSIC_FadeRoutine` (`music.c:935`) does not keep to it, and
with `Careful = FALSE` TLC finds `EveryTaskListed` and `ClockKeepsUp` violated: the insertion
that was interrupted holds a pointer to the task that was freed.

`overtaken` is a ghost for what goes wrong with `Careful = TRUE` as well. `TS_SetTimer`
compares with `TaskServiceRate` and sets it in two steps (`task_man.c:239`), and
`TS_ScheduleTask` links the task in later ones. A service that changes the clock in between
(`TS_SetTaskRate` at `task_man.c:772`, `TS_Terminate`) looks for the fastest task in a list
that does not have the new one, so that the decision may be wrong (`Overtakes`) and the
timer stays too slow until the clock is computed from the list again. The state has this;
`ClockKeepsUp` exempts it and holds otherwise, and fails without the exemption.

`TaskQueue` is what clients see: a sequence of tasks sorted by priority, a new one in front
of its equals, with `Insert`, `Remove` and `Clear`. `TaskMan` implements it
under the refinement mapping `WalkedQueue`: the tasks from the root, in the order of `next`.

### MultiVoc

`next`, `prev` link the voices into `VoiceList` or `VoicePool`; `left` is the
number of pages to the end of the sound, which stands for the block pointers and
`MV_Mix`; `kind` is what `GetSound` does at that end: nothing more (`once`), the loop
again (`loop`), more data from the program (`feed`). `mpc`, `voice`, `asked`, `ret` are
the main program, `ipc` and `mixed` the handler.

`MV_Kill` looks the voice up in a section that `MV_GetVoice` ends (`Kill`), then
stops it in a section of its own (`KillStop`), then calls back (`KillCallBack`).
`MV_AllocVoice` is one section when a voice is free; when not, `MV_Kill` of the victim
ends it, and `AllocCheck`, `AllocFirst`, `AllocUnlink1..3` run with interrupts enabled.
`AllocNumber` is a round of the search for an unused handle, `PlayVoice` the insertion
by `MV_PlayVoice`. `MixVoice` is one round of the loop of `MV_ServiceVoc`. Recording
stops playback, drains the list (`Drain`) and then starts (`BeginRecording`). Ghosts are
`called` (callbacks of the sound in a voice, up to 2) and `older` (the pairs of playing
voices of which the first was started before the second).

`Untroubled = TRUE` leaves out one case: that a sound ends between the two writes with
which `AllocUnlink` takes a voice from the pool. With `FALSE` and two voices TLC finds
`VoicesPartitioned` violated: after `MV_Kill`, `MV_AllocVoice` runs with interrupts enabled
in spite of its own `DisableInterrupts`, and the voice that is retired meanwhile is lost
from the pool for good.

### Player

`Player` adds no variable: it says what each `FX_` function for sounds, and the `MV_`
function below it, would return in a state of `MultiVoc` in which the program may call it,
and the two error codes, `FX_ErrorCode` and `MV_ErrorCode`, after it. `codes` are those
before, left by any earlier call (`Before`). What a call does is the action of `MultiVoc`:
`MV_Kill` is `Kill`, `MV_Play` begins with `AllocVoice`. Each `FX_` function makes the test
it makes in the source, of which there are three (`IfError`, `UnlessOk`, `IfLess`).
Messages are told apart by what they say and not by their words.

### Stream, Mixers

`Mixers` has the sixteen procedures of `mv_mix.asm`, `mv_mix16.asm` and `mv_mix2c.c`:
how many samples each writes for a length, where the last one of these ends (`end`), up to
which byte it reads (`read`), and which position it hands on in `MV_MixPosition`. There are
three families. `Pairs` takes two samples in a round and has fetched the next two when it
leaves its loop; `Singles` has fetched one and steps over it; the others have fetched one and
hand on exactly where it is. What a sample becomes is left out.

`Stream` is one voice: `sound` is what the program plays (raw, WAV, a demand feed, a VOC
file as the list of its blocks), `voice` the fields of `VoiceNode`. Positions are
fixed-point as in the code, with `One` in place of `0x10000`, and addresses count bytes.
The handler walks as `MV_Mix` does: `BeginPage`, `BeginMix`, `MixPart` for each call of a
mixer, `GetNextRawBlock`, `GetNextDemandFeedBlock`, `GetNextVOCBlock` with an action for
each type of block, `EndPage`. The main program writes field by field what
`MV_SetVoicePitch` (`SetRateScale`, `SetFixedPoint`) and `MV_SetVoiceVolume`
(`SetRightVolume`, `SetMode`) write with interrupts enabled.

Ghosts say what the properties need: `goal` is where the data that now plays ends, `gone`
where the next sample may be, `reach` the ends of the bytes played and of those read, `dest`
and `odds` how many samples the page has got. `torn` is a page that began between the two
writes of a change of pitch (`multivoc.c:1356`): it is mixed with the new step and the old
limit, past the end of the block. `astray` is a voice that took over `MV_MixPosition` from
another voice, because the mono mixers store no position for a single sample
(`multivoc.c:332`). The properties exempt those two and nothing else.

### Midi

A song is a sequence of tracks, a track a sequence of events with a delta. `pos`, `delay`,
`on` are `pos`, `delay`, `active` of `struct track`; `saved` is its `context[ 0 ]`, and
`contexts` what `_MIDI_InitEMIDI` has noted of the others, computed by `InitEMIDI`, which
walks the tracks as the code does. `clock` is the record of `_MIDI_Time`,
`_MIDI_FPSecondsPerTick`, `_MIDI_Tick`, `_MIDI_Beat`, `_MIDI_Measure`,
`_MIDI_BeatsPerMeasure` and `_MIDI_TicksPerBeat`, which the contexts also copy as a whole.

One activity runs at a time (`at`): `_MIDI_ServiceRoutine` does nothing while
`_MIDI_SongActive` is FALSE, and the seeks clear it first. `Tick` begins a service; for
each track in turn the actions `PlayEvent`, `EndOfTrack`, `LoopStart`, `LoopEnd`,
`ContextEnd` play the events due, and `TrackDone` counts its delay down, or
ends the song or begins it again with the last track; `ServiceDone` advances the clock.
`MIDI_SetSongTick`, `MIDI_SetSongTime` and `MIDI_SetSongPosition` begin a seek (`SetSong`,
`SeekTest`), whose rounds go through the same events in `_MIDI_ProcessNextTick`
(`SkipEvent` in place of `PlayEvent`) and end in `SeekDone`.

### AlMidi, FmChip, NullList

`al` is the lists (a record of `NullList`: the pool and one list for each channel), for
every voice its `channel`, `key`, `status`, `sustain` marks, `age` and cached `timbre`, the
controllers of every channel, and `chip`, what the registers of each voice hold. `FmChip`
computes those: `WithTimbre`, `WithVolume`, `PannedTo`, `Tuned` are what `AL_SetVoiceTimbre`,
`AL_SetVoiceVolume`, `AL_Pan2Chan` and `AL_SetVoicePitch` send, and `Cell` is where
`AL_SendOutput` sends it: in which half of the chip.

There are two callers. The song's messages come from the timer interrupt and run to their
end: each is one action (`Message`), but for the loop of `AL_AllNotesOff`. Messages of the
program while the song is not active (a seek, a reset, a stop) are the same actions. While
it is active the program calls only `AL_ControlChange` with a volume: `MUSIC_SetVolume` on a
card without a mixer (`music.c:380`, `midi.c:1027`, `869`) and `MUSIC_SetMidiChannelVolume`
(`music.c:398`, `midi.c:895`), with interrupts enabled. That call is taken apart:
`VolumeCall` sets the volume of the channel and takes the first voice of its list,
`ReachVoice` reads the voice and selects its register (`al_midi.c:184`), `SendLevel` writes
the value (`192`), of one or both operators, and `Sent` takes the next voice. A message
between any two of these (`Interrupted`) may move the voice into another list, along which
the walk then goes on, the pool included; the value computed before it is out of date; and
between the two `outp` it selects another register, into which the value goes: `SendAstray`
lets that be any register of any voice of the card, with any content (`Garbled`). The ghosts
are `astray`, the voices whose registers were hit so, and `late`, those that such a call may
have missed and none has reached since.

`NoteOn` has the allocation, which takes a voice that has the timbre already
(`VoiceAllocMode`), steals the oldest voice or gives a drum up; `KeyUp`, `ProgramChange`,
`SetPitchBend`, `ChannelAfterTouch`, `ControlChange` for sixteen controllers;
`AllNotesOff` (a step for each round of its loop); `RunTimers`, which ages the voices and
moves vibrato and portamento on; `RegisterTimbreBank`, `SetMaxMidiChannel`, `Restart`. The
ghost `held` counts the note-ons of a key without note-off. `ForVoices` is the loop over the
voices of a channel, `FirstOf` the search for one of them, `Kill` and `Waved` what
`AL_KillSustainedVoices` and `AL_RunTimers` do to one. `Pieces` are the songs, each with the
cards it is played on and what the program may set meanwhile.

`AlAssumption` says of an event what a MIDI file lets it be: its channel is the low nibble
of a status byte, the number of a program below 128 (`MIDI_PatchMap[ c & 0x7f ]`), a key or
the value of a controller not negative.

### Fade

The volume of a note is made of three: `chan` that the song has set, `user` that the program
has set for a channel, `total` that of the whole song, which is a factor of what each
channel is sent or, if the card has a mixer, `mixer`. `sent` and `told` are what the card
and the program's reroute functions were told last. The main program's accesses are a step
each: `SendNext` to `ControlChange` are `_MIDI_SetChannelVolume`, `StoreTotal` and
`SetMixer` are `MIDI_SetVolume`. `MIDI_PlaySong`, the seeks, `MIDI_StopSong` take from
`Midi` only what they do to volumes. `SetFade` to `ForgetFade` are `MUSIC_FadeVolume` and
`MUSIC_StopFade`; `FadeRoutine` is the task, `SongVolume` a volume event of the song, both
in the interrupt and one step.

`crossed` is the ghost that keeps `VolumesAgree` honest: the channels, or the mixer, for
which an interrupt came between what the main program has read and its use. These may
hold an older value until they are sent again, and the property leaves out exactly them.

### Setup, Hardware, Blaster, Pas, Soundscape, Disney, Mpu

Everything is on one record, the machine `m`: the interrupt controllers (`masked`), the
vectors, the DMA channels (`Hardware`), the registers of the card and the variables of its
driver. The drivers are modules of operators, one for each function of the driver, from
machine to machine; `Does` is what the card does with the registers as they stand - that
it plays, in which mode, at which rate, how many bytes between two interrupts, through
which channel. `Setup` has the switches of `fx_man.c` and `multivoc.c` over the drivers
(`CardInit` ...), the variables of Multivoc `mv`, and an action for each call of the
program: `FX_SetupCard`, `FX_SetupSoundBlaster`, `FX_Init` (then `MV_StartPlayback`,
`MV_TestPlayback`), `FX_Shutdown` (then `MV_Free`), recording, volumes, `MUSIC_Init` and
`MUSIC_Shutdown`. `Interrupt` is a page of the card.

A call may meet a `fault`: no memory, no locked memory, no stack, no task. `Watched` notes
in `exposed`, at every change of a mask, a vector, the stack or the locks inside a call,
whether a handler could now run without its stack or its memory. The Sound Source has no
interrupt; a task that its driver schedules does the same.

Three assumptions say what the constants of `Setup` may be. `SizesAssumption`: the sizes of
the page and of the buffer, as far as the code relies on them. `MachinesAssumption`: a
machine is as the library finds it, its lines and vectors are those of DOS, the drivers have
their initial values (`Fresh`, `FreshBlaster` ...); what card is in it, with which
interrupt, channel, version and volumes, is free, and so is the fault it will meet.
`ArgumentsAssumption`: the modes that a program may ask for, and volumes in their range.

`Mpu` is the MIDI interface: it is reset up to four times, as the first reset only takes it
out of UART mode and is not acknowledged, and then put in that mode. `MUSIC_InitMidi` has
disabled the MPU-401 interrupts of a Sound Blaster 16 before it knows whether the interface
answers; `MUSIC_Shutdown` enables them again for the WaveBlaster alone. `unpaired` notes
where nothing does: after a `MUSIC_Init` that failed, and for General MIDI.

### Effect

The two files have the same structure, and `device` says which one the program uses.
`handle`, `priority`, `left` are `PCFX_VoiceHandle`, `PCFX_Priority`, `PCFX_LengthLeft` and
their counterparts; `sound` and `pointer` say that `ADLIBFX_Sound` and `ADLIBFX_SoundPtr`
are not NULL (`PCFX_Sound` is both). `on` is what the hardware does. `mpc`, `asked`, `ret`
are the main program: `Stop`, `Play` and `Shutdown` make the test of `PCFX_Stop` with
interrupts enabled and `Halt` is its section; `HaltVoice`, `ForgetSound`, `ForgetPointer`
are the same section of `ADLIBFX_Stop`, which its first `ADLIBFX_SendOutput` opens to
interrupts; `Begin` and `Terminate` are the rest of the callers. The service is one
step, as it runs on the timer interrupt: `Sounds`, `Ends`, or `Overruns` when the Stop it
calls finds that the main program has already cleared `ADLIBFX_Sound`. A value of a
sound is 0, silence, or 1, a tone. The ghost `called` counts the callbacks of the latest
sound. `PCFX_Init` of an installed driver is `Shutdown` and `InitDevice`.

### SoundCard

`at` is the half page that the DMA controller has reached in a ring of `Pages`,
`running` whether the card plays or records. `line` is the card's request, `masked` the
interrupt controller, `gate` the `intrctlr` register of the Pro AudioSpectrum; `flag`,
`callback`, `page`, `channel` are `BLASTER_SoundPlaying` and `BLASTER_SoundRecording`,
`BLASTER_CallBack`, `MV_MixPage`, and whether `MV_DMAChannel` is set. `content` says for
each page whether it is blank, holds something new, or has been played.

Three actors run in turns. `Advance` is half a page of the card: the end of a page is a
request, and a DSP 1.xx stops there. `Interrupt` to `Give` are the handler up to the end
of its callback: it acknowledges, starts a DSP 1.xx again, then `MV_ServiceVoc` reads the
DMA address in two halves (`ReadLow`, `ReadHigh`), between which the card goes on, and
mixes (`Mix`), or `MV_ServiceRecord` gives a page away and counts (`Give`). The main
program is at `mpc`: `InitCard`, `StartRecording`, `StopRecord`, `Shutdown` begin a call,
the latter three with the interrupt taken away (`StopCard`); then the card is halted
(`HaltToPlay`, `HaltToRecord`, `HaltForGood`), set up again (`Prepare`, or `Fail` if there
is no DMA channel) and started (`Transfer`, `SetChannel`). The card may reach the end of
a page between any two of these, and such a request is then delivered when the interrupt
is enabled again. `Feed` is the Sound Source: no DMA, no interrupt, a task that counts.

With interrupts enabled the handler runs before the next step of the main program.
Outside these functions a critical section may hold it up for any time (`mpc = "run"`):
then an interrupt is late, and several ends of pages are one request. The ghost `lapse`
notes that an interrupt has waited for a whole page, or that an address was torn.

`skew` is where the buffer begins between two carries into the high byte of the address:
`DPMI_GetDOSMemory` aligns it to 16 bytes only. `Torn` is a carry between the two reads
that does not come with the end of a page; the position is then 256 bytes too far, or in
front of the buffer, and the wrong page is mixed. The properties exempt that one case:
without `~Torn`, TLC finds `MixesAhead` violated with `Skews = {1}`, never with `{0}`.

## 4. The runs

| Run | Question | Instance |
|---|---|---|
| `taskman` | Do list, clock and BIOS count survive every interleaving of the calls with IRQ 0? | 3 tasks of 2 priorities and 2 rates, each of which may end itself and change its rate |
| `taskman_live` | Is every task called again and again, does the list behave as `TaskQueue`? | 2 tasks |
| `multivoc` | Voices, handles, replacement, callbacks; what the program is told | 3 voices, 2 priorities, handles 1 to 4, recording, a card that may refuse |
| `multivoc_live` | Does every sound end? | 2 voices; sounds that end, loop, or are fed |
| `stream` | Is every sample mixed once, none played behind the end, and how far is read? | 10 sounds of every kind, pages of 4 samples, blocks of 6 frames |
| `soundcard` | Is the right page mixed, played, given away, whatever is late or left over? | five kinds of card, 3 pages, both alignments |
| `setup` | Does the card do what Multivoc expects; is the computer given back? | 28 computers and cards, 4 modes, a fault at every place |
| `midi` | Counts, step, clock, end of songs, through loops, contexts and seeks | songs of 2 and 3 tracks |
| `almidi` | Voices and notes, and the registers of the chip, under stealing, pedals, controllers, and volumes that the program sets meanwhile | 12 songs on 2 voices (OPL2) or 4 (OPL3) |
| `almidi_alloff` | Does `AL_AllNotesOff` return? Not if the head of the list is held by a pedal | 1 voice |
| `fade` | Is what was sent what the volumes make; does a fade arrive, evenly, and end? | 3 kinds of card, 2 channels, one of them rerouted |
| `effect` | Does a sound end once for all who ask, whenever the timer meets the program? | both devices, lengths 1 and 3, 2 priorities, 3 handles |

### What each property says

`taskman`. `EveryTaskListed`, `ListIsSorted`: whenever the handler may run, the list it
walks has exactly the tasks that are scheduled, sorted. The four pointer writes can be
interrupted anywhere, so this depends on their order. `ClockKeepsUp`: the PIT is never
slower than a task needs, whatever tasks end or change their rates between the steps of a
call, unless a service has overtaken the decision of `TS_SetTimer` (`overtaken`, section 3).
`BiosClockExact`: all the time the PIT has counted at whatever speed is chained to the BIOS
handler or in the 16-bit sum, but that an interrupt in which a service changes the clock
counts as long as the new period: `TS_ServiceSchedule` adds `TaskServiceRate` at its end
(`task_man.c:340`), when it no longer is the period that has passed. After each tempo change
the BIOS clock is off by that difference; the property does not forbid it, and says that
there is no other.

`taskman_live`. `EveryTaskServed` and the refinement `ImplementsQueue`. All tasks of the run
have one rate and keep it: it is about tasks behind the first, and about what piles up while
`TS_Suspend` is set.

`multivoc`. `VoicesPartitioned`: no voice in two lists or none. `HandlesAreUnique`: also
when the counter has wrapped. `ReplacesOldestLowest`: the oldest sound of the least
priority gives way. `CalledBackWhenStopped`: a sound is called back when it has stopped
and not before. `SaysWhy`: a call for a sound, a voice or a file fails when there is a
reason to and never without one, and `FX_ErrorString` gives a reason that is true and not
the error of an earlier call; `FX_VoiceAvailable` foretells what a play function does, unless
the library records; a sound that has been stopped for another one has not been stopped in
vain. `multivoc_live`. `EverySoundEnds`.

`stream`. `GoesOn`: a sound goes on where it was left, from page to page and from block to
block; no more is lost than the samples that the mono mixers fetch in advance and do
not give back (a flaw of the code, at most three samples, named `Ahead`). `PlaysInside`: what
is played lies in front of the end of the data. The mixers do read behind it, as each fetches
one or two samples more before it leaves its loop (`mv_mix.asm:169`, `297`,
`mv_mix2c.c:82-89`), and throws them away: no further than two steps of the rate, the
property says. `PlaysThrough`: no block is left before its end. The end of a loop (`LoopGoal`)
is that of the code: of a raw sound it is behind the sample at `loopend`
(`multivoc.c:2464`), but of a WAV or VOC file in front of it (`2710-2718`, `867-881`).
`public/notes.txt:316-317` and `346-347` say of both files that "the sample will loop after
this sample is played": the code leaves that one sample out, and the property does not ask
for it.
`StaysInPage`: no page gets more samples than it has room for, but one for each block of an
odd length, which `MV_Mix` does not count.

`soundcard`. `MixesAhead`: the page that `MV_ServiceVoc` mixes into is the one behind the
page that plays at that moment - also after late interrupts, also for an interrupt that
an earlier transfer has left behind, also while pages are counted.
`EveryPageOnce`: no page is played that was not mixed again since, none is mixed twice.
`GivesWhatIsRecorded`: the Pro AudioSpectrum flushes what is left over from playback before
it records. The Sound Blaster does not: for it the formula fails, since
`MV_ServiceRecord` counts pages and never asks the DMA controller. `PlaybackGoesOn`: no
card stops for good, which a DSP 1.xx does whenever an interrupt goes missing.

`setup`. `InterruptsSafe`: no handler can run without its stack, its locked memory and, if
it calls Multivoc, voices and buffer, at any place of any call and whatever fails in it.
`CardAgrees`: while it plays or records, the card does it in the mode, at the rate, in the
pages and through the DMA channel that Multivoc works with, and no other channel is open.
`GivesBack`: after `FX_Shutdown`, and after an initialization that did not succeed, vectors,
masks, stack, voices, buffer, the locked memory of the driver and the lists, and the user's
volumes are as they were found; and a card that does not play asks for no data. One thing is
not given back, and the property says so: what `MV_Init` has locked of Multivoc's own code
and data stays locked after `FX_Shutdown` (`mv.locked`), since `MV_Shutdown`
(`multivoc.c:3459-3542`) never calls `MV_UnlockMemory`, though its header has it "restore
any resources allocated by Multivoc" and `public/notes.txt:925-926` has `FX_Shutdown`
restore "any system resources that were used". After `MUSIC_Shutdown` the MIDI volume, the
MPU-401 interrupts (but for `unpaired`) and the mode of the interface are too. `VolumeKept`:
a volume that was set is the one that is read, but for the rounding of the mixer.

`midi`. `ActiveTracksCounted`: `_MIDI_ActiveTracks`, which decides when the song is over,
is the number of active tracks, although loops revive tracks that have ended.
`TracksInStep`: what the tracks have still to wait agrees with how far each has
come, although a loop takes back tracks that have had their turn in this tick and
tracks that have not. `ClockRight`: the time, measure, beat and tick that a song reports
are those of the notes it plays. `SongEnds`: a song that is not looped ends.

`almidi`. `VoicesPartitioned`; `NoNoteHangs`: no more voices sound as pressed than keys
are down. `ChipSoundsWhatPlays`: the chip has exactly those voices on that play for some
channel, in both of its halves. `ChipSetAsAsked`: timbre, volume and panning of a voice are
those its channel has - also where the code leaves registers alone because it believes
that they are right. `StaysInTune`: a voice gets out of tune, or silent, only by what is
meant to do that. The last three make way for one thing, a message that comes in the midst of
a volume call of the program: the registers that the call then hits (`astray`; for
`StaysInTune` the step in which it does, `IsHit`), until the chip is reset, and the volume of
the voices that the call had yet to come to (`late`), until one reaches them. Without these
exemptions TLC finds each of the three violated: a note can be cut off, begun or put out of
tune by a `MUSIC_SetVolume` while the song plays. With them they say that the damage stays
with the registers hit: no other voice is harmed, no list is, and a call that no message
comes amid reaches every voice of its channel.

`fade`. `FadeIsKnown`: at most one fade runs, and it is the one that `MUSIC_FadeActive`
reports and `MUSIC_StopFade` ends. `VolumesAgree`: what the card and the program's functions
were told last is what the three volumes make. `FadesEvenly`: each step goes
towards the goal and not past it, and none, the last one included, is more than its share;
that goes for fades of up to `Precision` steps (3.2 s), as the quotients that are rounded off
add up to one volume for every `Precision` steps, which the last one makes up for.
`FadeEnds`.

`effect`. `EndedIsFree`: what `VoiceAvailable` reads (the priority), what `SoundPlaying`
reads (the length) and the sound itself agree whenever the program can ask, and no tone goes
on in the speaker behind the end of a sound; `CalledBackWhenEnded`: no sound is called back
while it plays, and none is left without its callback by a Stop and a service that meet;
`EverySoundEnds`: also at volume 0, and also if the service runs past the end that
`ADLIBFX_Stop` has hidden from it.

### A violation, and what else was found

`almidi_alloff` (`AllNotesOffReturns`): `AL_NoteOff` does not find a voice whose key is up,
so that the loop of `AL_AllNotesOff` takes nothing off the list any more when the first
voice of the channel is held by a pedal only.

No run repeats the following, which the models have and whose properties make way for:

- The inner loop of `TS_ServiceSchedule` goes on with the count and rate of a task that its
  service has just terminated and freed, and may call it once more.
- A service that ends its task while an insertion walks through the list (`Careful`), and a
  sound that ends while another takes its victim's voice (`Untroubled`): see section 3.
- A service that changes the clock between the comparison of `TS_SetTimer` and the end of the
  insertion (`overtaken`), and the time that the BIOS clock gains or loses by an interrupt in
  which a service changes the clock.
- A volume of the program amid which a message comes: it may miss voices, and write to the
  registers of others (`astray`, `late`).
- The sample at `loopend` of a looped WAV or VOC file is not played, though the documentation
  has it so; the memory of Multivoc stays locked after `FX_Shutdown`.
- The mixers read up to two samples behind the end of a sound, a block or a loop.
- `MV_Kill` and `PCFX_Stop` call back a sound a second time if the interrupt has retired it
  since it was looked up (`called = 2`).
- `ADLIBFX_Stop` silences the voice before it forgets the sound, and the write to the chip
  has enabled interrupts: the service may turn it on again.
- A recording on a Sound Blaster that begins with a request left over from playback gives
  away each page one interrupt too early; a DMA address that is read torn (`Torn`).
- The samples that the mono mixers skip (`Ahead`), a page mixed in the middle of a change
  of pitch (`torn`), a position taken over from another voice (`astray`).
- A pitch bend ends a note that only a pedal holds, as the pitch is sent with the status of
  its key (`al_midi.c:698`); the last step of a portamento is not sent (`al_midi.c:1876`).
- A volume that the song sets while the program sends an older one is lost (`crossed`), and a
  seek that meets the last step of a fade undoes it (`midi.c:1609`).
- For a sound that has ended `MV_EndLooping` and `MV_SetPan` return `MV_Warning`
  (`multivoc.c:1723`, `1764`), and `FX_EndLooping` and `FX_SetPan` test for `MV_Error` only
  (`fx_man.c:797`, `825`): the program is told `FX_Warning`, and `FX_ErrorString` gives
  whatever failed before. `FX_Pan3D`, over the same `MV_SetPan`, tests for `MV_Ok` and is
  right. `SaysWhy` leaves out this one case.
- `FX_VoiceAvailable` says yes while the library records, when every play function fails with
  "No free voices".
- After `MV_StartRecording` has failed, playback stays off and later sounds never end.
- `MV_EndLooping` clears the start of a loop before its end (`multivoc.c:1726`): a block that
  ends in between is played again from the repeat on, for ever.
- Fades shorter than 25 ms divide by zero (`music.c:993`).
- The MPU-401 interrupts of a Sound Blaster 16 stay disabled after a `MUSIC_Init` in which
  `MPU_Init` fails (`music.c:849`) and after General MIDI (`music.c:310-314`).

### Bounds

- `taskman`: three tasks are an insertion at the front, in the middle and at the end of a
  list while another task ends itself. `Hz = 16`, `Full = 8` and rates of 2 and 4 calls a
  second give periods of 8 and 4: the slowest clock and one faster, so that the clock
  changes both ways, and a sum that overflows on every second interrupt or on each one.
  `MaxBacklog = 0` lets a suspended backlog grow to one period.
  The tasks are interchangeable (symmetry), and the view drops the fields of cells that
  are neither allocated nor still read.
- `multivoc`: three voices are one that is replaced, one that ends meanwhile and one that
  plays on; four handles make the counter come back to handles in use. One page is
  enough for safety, as the handler may run at any time; the liveness run has two.
  `MV_Init` takes the voices in any order, which makes them interchangeable. Of the older
  errors there are none and one that no call for a sound may leave to be read.
- `midi`: the songs have loops of one track, loops of all tracks in which another track ends
  or waits, tempo and meter changes inside a loop, contexts with and without a loop, tracks
  for other cards, a loop without end. The position stays at 12, longer than any of the
  songs played straight through; seeks go to a tick, a time or a beat that some of them
  reach and others never do. `Division = 1`: every tick is a beat, so that bars change
  often.
- `almidi`: two voices for three notes, so that notes are stolen from their own channel
  and from the drums; ages up to 2 tell a new voice, an old one and one that is older.
  `MaxHeld = 2` allows the same key to be struck twice, `MaxGliding = 3` bounds
  `gliding_voices`, which a stolen voice leaves too high. Each song takes on one group of
  controllers, whose effects on the chip do not depend on the others. In two songs the
  program sets volumes amid notes, programs and expressions. `MaxAstray = 0`: when such a
  call has hit a register, the next one comes after the chip is reset; what one call does
  ends before the next begins. The view leaves out what the registers of a voice hold that
  was hit: nothing else reads them, and the properties exempt them.
- `stream`: a page of four samples and a block of six frames are not multiples of each
  other, so that blocks end at every place of a page; `One = 2` has positions between two
  frames; lengths of 6 to 14 frames are one whole block, two, and odd rests.
- `setup`: a page of 256 samples and 16 of them are the code's own numbers; the rates
  cross the limits of each DSP, with the channels, interrupts and DMA channels of each
  generation, wrong ones among them. The MIDI interfaces are one that is as it came up, one
  in UART mode and one that is missing, on seven of the computers.
- `fade`: a volume from 0 to 2 with 8 parts, a fade of two steps and a last one, which is
  enough for a step that is not a whole volume; two channels, one told to the program. The
  view drops what the rest of a behaviour cannot read: the variables of a fade that has
  ended, what a channel was sent where it is old anyway.
- `effect`: a sound of one value ends at its first tick, one of three can be
  stopped at each place; three handles let the counter wrap while a caller still holds
  an old one. A callback is counted up to two.
- `soundcard`: three pages are one that plays, one that has been mixed and one to go;
  the code has 16 or fewer, of 256 bytes. Half a page is the finest the DMA position has
  to be for a handler that may run in either half. The proofs are for any number.

### Fairness

- `TaskMan`: `WF(IsrStep)`: a handler runs to its end. `SF(MainStep)`: the main program
  gets the processor back whenever a handler returns - strong, as every interrupt disables
  it. `SF(TimerInterrupt /\ ~suspend)` and `SF(Resume)`: the PIT ticks, and not only while
  the program suspends. None is assumed of the calls a program makes.
- `MultiVoc`: the same, with `SF(CardInterrupt)`: a card that plays interrupts.
- `Midi`: `WF` of the steps of an activity; `SF(Tick)`: the task of the sequencer is
  called again and again, which is `EveryTaskServed` of `TaskMan`.
- `AlMidi`: `WF(AllNotesOffStep)`: the processor goes on executing the loop.
- `Fade`: `FairSpec` has the main program go on with a call it has begun, and the task of
  the fade called again and again while it is listed (`EveryTaskServed`).
- `Effect`: `WF(MainStep)`: a call that has begun goes on (a service is one step and
  disables nothing for long); `SF(Service)`: the task is called again and again,
  `EveryTaskServed` once more. None is assumed of the calls a program makes.
- `SoundCard`: `WF(Advance \/ Feed)`: the card goes on, and the task of the Sound Source is
  called; `WF(Handler)`, `WF(MainStep)`: a handler and a call that have begun go on, and an
  interrupt that stays requested is taken.

## 5. The proofs

All hold for any constants that satisfy the assumptions of the module (`ConstantsAssumption`;
`SizesAssumption`, `MachinesAssumption` and `ArgumentsAssumption` of `Setup`), infinite sets
of tasks or machines included; the voices of `MultiVoc` are a finite set that is not empty.

- `LinkListProofs`: `MembersAdded`, `MembersRemoved`, `RingAdded`, `RingRemoved`: what
  insertion and removal do to the members of a ring and that the ring stays one. They
  argue with `Members` as the least closed set, which needs no induction. `FirstInMember`:
  the search finds a member if there is one. `TwoListsRemove`, `TwoListsAdd`: both
  operations on one of two lists of the same cells leave the other alone.
  `CircleOfMembers`, `MetLeast`, `MetOne`, `CircleBack`: what a search along a list passes,
  that it can end at one cell only, and that the list is the same one backwards.
  `LaidWalk`, `LaidAdded`, `LaidRemoved`: a list whose cells are laid out in a row is walked
  in the order of the row, and what insertion and removal do to the row.
- `TaskManProofs`: `QueueSorted` of `TaskQueue`; `TypeCorrect`; `RingCorrect`,
  `ListCorrect`, `OrderCorrect`, `ClockCorrect` (that `ListIsRing`, `EveryTaskListed`,
  `ListIsSorted`, `ClockKeepsUp` are invariants; the first, that the links make a ring both
  ways, is proved only) and `Implements` (the refinement `ImplementsQueue`), assuming
  `Careful`; and `BiosCorrect` (`BiosClockExact`), which does without it. What
  `ClockKeepsUp` and `BiosClockExact` leave to services that change the clock (section 4)
  they leave in the theorems as well.
- `FxProofs`: of `Setup`, `HandlersSafe`, `GivenBack`, `VolumeStands` and `CardAgreed` (that
  `InterruptsSafe`, `GivesBack`, `VolumeKept` and `CardAgrees` are invariants: all that
  `setup` checks; `GivesBack` with the memory that stays locked, by `Locks`), for any
  machines, requests, rates, volumes and faults; of `Effect`, `EffectTypeCorrect`,
  `FreeCorrect` and `CallBackCorrect`, for any lengths, priorities and handles.
- `SoundCardProofs`: `TypeCorrect`, `MixesAheadCorrect` (the action property
  `MixesAhead`), `EveryPageOnceCorrect` and `GivesWhatIsRecordedCorrect`, for any number of
  pages from three on and every kind of card.
- `MultiVocProofs`: `VoicesKept`, `HandlesKept`, `CalledBackCorrect`, `ReplacesCorrect`,
  `SaysWhyCorrect` (that `VoicesPartitioned`, `HandlesAreUnique`, `CalledBackWhenStopped`,
  `ReplacesOldestLowest` and `SaysWhy` are invariants: all that `multivoc` checks), for any
  finite number of voices, any priorities, handles and older errors, assuming `Untroubled`.
- `StreamProofs`: `StreamTypeCorrect`; `StaysInPageCorrect`, `PlaysInsideCorrect`,
  `GoesOnCorrect`, `PlaysThroughCorrect`: all that `stream` checks, for any page, block, mode,
  pitches and sounds - of 0x8000 frames a block and `One = 0x10000`, too. The last three need
  something of the sounds, see below.
- `MusicProofs`: of `Midi`, `TracksCounted` (that `ActiveTracksCounted` is an invariant), for
  any songs, and `SongInStep` and `SongClockRight` (`TracksInStep` and `ClockRight`), for
  those of any songs that are looped as a whole only (`SongLoopsOnly`), see below. On
  `NullList`: `HeadLinked`, `TailLinked`, `RemoveLinked`: what the operations do to lists that
  are laid out in rows (`Rows`), each voice in one of them at most; a row has no circle and
  reads the same from both ends. Of `AlMidi`, all that `almidi` checks: `VoicesKept`,
  `NoteEnds`, `ChipAgrees`, `ChipObeys` (that `VoicesPartitioned`, `NoNoteHangs`,
  `ChipSoundsWhatPlays`, `ChipSetAsAsked` are invariants) and `TuneStays` (the action property
  `StaysInTune`), for any number of voices, and any songs, banks, bounds and volume calls
  amid the messages, with the exemptions of section 4.
- `FadeProofs`: `FadeKnown` (`FadeIsKnown`), `FadeTypeCorrect`, `VolumesCorrect`
  (`VolumesAgree`), for any volumes, lengths, channels and tasks; `FadeCorrect`
  (`FadesEvenly`), for fades of at most `Precision` steps.

The type invariants of `TaskMan`, `Effect`, `SoundCard`, `Fade` and `Stream` are proved and
therefore no part of a run.

The properties of `TaskMan` speak of the list at rest, so that none is inductive.
`IInv` is `TypeInv /\ SafeInv`, and `SafeInv` has four parts:

- `ListInv`: what the two directions look like after each of the four writes of an
  insertion, and that the node `hoya` at which it will link is still in the list;
- `HeapInv`: the cells in the heap are those in the list and the one being inserted;
- `OrderInv`: nodes up to `hoya` are not above the new task, so that linking in front of
  `hoya` keeps the order;
- `ClockInv`: how the period in `speed` relates to the clock between the comparison of
  `TS_SetTimer`, the write to the PIT and the link, unless `overtaken`.

`SafetyInit` and `SafetyNext` show that it holds initially and is kept by each action,
one step for each; the theorems follow with `PTL`. `Careful` is used exactly where a
service ends its task while an insertion is under way: `hoya` may not be the task that is
freed.
`BiosInv`, for the BIOS clock, is an invariant of its own, which relates `owed`, `sum`
and `clock` inside and outside the handler.

For `Implements`, `LaidInv` adds that the list can be laid out in a row at any time, also
between the writes of an insertion, which the walk that makes `WalkedQueue` then finds. The
new task enters the row with the write to `hoya->prev->next`, and the place in which it
lands is the one in which `Insert` of `TaskQueue` puts it: nobody in front of `hoya` is
above the task and nobody behind is not (`OrderInv`, `RowSorted`). What the walk finds is
proved by induction, on sets of numbers instead of predicates: `AllNumbers` of
`LinkListProofs` says that a set that holds 0, and i + 1 with each i, holds all numbers, and
rests on the least elements that `WellFoundedInduction` provides.

`FadeIsKnown` does not hold between the two writes of `MUSIC_StopFade`. `FadeInv` adds that
the list is empty there (`FadesApart`), that no fade is listed when the next one is begun,
and - what makes this inductive - where each call goes on (`GoesOnRight`): whatever begins a
fade has come by `MUSIC_StopFade` or has seen that there is none, and a fade that ends in
the interrupt since then only makes that true earlier.

The invariant of `MultiVocProofs` says in `ListInv` where every voice is, also while
`AllocUnlink1..3` take one from the pool: after the first write the pool is still whole in
`Whole`, the links without that write. `ProgramInv` is what the main program knows where the
interrupt may come in between: that the pool, once not empty, stays so, and that its first
voice stays first, since `MV_StopVoice` adds at the end. `InterruptInv` is where
`Untroubled` is used: the handler that began while the pool was cut has a sound that ends
nowhere on the rest of its way. It is not enough that none ends when it begins, as `left` of
a voice it has passed may be down to its last page; `BehindMember` says that the loop does
not come back to it. `HandleInv` says that a handle once found is still free when it is used.
`InitStep` needs that a surjection of as many indices as there are voices is an injection.

`CalledInv` adds to `CalledBackWhenStopped` that the one voice without its callback is the
one that `MV_Kill` has in hand. `SortedInv` is why the oldest sound of the lowest priority is
replaced: `MV_AllocVoice` takes the first voice of that priority in the play list, and the
list goes from the highest priority to the lowest and among equals from the oldest to the
newest, link by link (`Above`). That the first of its priority is then older than all others
of it (`VictimRight`), and that `LL_SortedInsertion` stops where the new voice keeps the list
sorted (`PlaceRight`), is again argued with least closed sets, without induction: what a
search has met, together with the voices for which the claim holds, is closed under `next`
and so the whole list.

For `SaysWhy` the invariant has to say one thing more, `FoundInv`: from the end of
`MV_StopVoice` until `MV_AllocVoice` looks again the pool is not empty, as the interrupt only
adds to it. The rest follows from what the searches find (`LooksUp`, `RefusesMeans`) and from
which test lets which result through (`FailedSays`, `PassedIs`).

What is in the pages of `SoundCard` hangs together in `ContentInv`: where the card may be
when the interrupt is masked (`MaskInv`), that handler, card and callback do the same thing
when it is not (`ModeInv`), that nothing but the next page holds what is to be played
(`AheadInv`) and that the page given next is the one that was recorded last (`RecordInv`).

The proof of `ActiveTracksCounted` needs of the songs and contexts only that a context has a
record for each track, and says whether it was on (`TracksInv`): a loop may then turn any
tracks on, and is counted right as the code counts the records that it takes back.

`SongInv`, the invariant for `TracksInStep` and `ClockRight`, says in which tick n of the
song each track is, while some have had their turn in it and others have not (`Stands`,
`AllStand`), and that the clock is the one of tick n, after the tracks before this one and
this one's events so far (`Mid`). For the loops it says the same of what is saved: put back,
all tracks stand in the tick in which the loop began, in the turn of its track (`BackTo`),
with the clock of that moment (`LoopInv`). The ticks at which events are due and the clock of
a song played straight to a tick are recursive functions; that they are what their
equations say, for any number of events, tracks and ticks, is proved by induction with
`AllNumbers` (`DueNext`, `PassedNext`, `TracksPassedNext`, `StraightNext`).

Three hypotheses say of which songs this is true. `SongLoopsOnly`: all loops are song loops,
in one track, and there are no contexts. The code takes a single track back by itself, and
leaves it to the author of the song that the others fit; the run `midi` has such songs too,
written with care. `LoopsLast`: no loop begins and ends in one tick; the second time a loop
goes back in a tick the code leaves the clock alone. `TempoFirst`: a track that is played sets
a tempo in the first tick. A song that is begun again keeps the tempo it has ended with until
it sets another, so that without one it is played at another speed the second time; then
`ClockRight` fails. All songs of the run set theirs, and `PlainSongs` and `LoopSongs` of `MCMidi`
meet the other two as well. No more is assumed of the songs than
that each track ends in its one `eot` event (`ConstantsAssumption`).

`VolumesAgree` fails inside a call, where some channels are not sent yet. `AgreeInv` says
which (`Pending`: the rest of a loop over all channels), what the locals of the call hold
(`HeldRight`), and that all other channels agree, `crossed` or not; the type invariant it
needs has the ranges of these locals (`RangesInv`). `FadesEvenly` follows from the course of
a fade (`Course`): what is left to go is the rate times the steps left, but for less than
one volume. The rest is what the divisions of `MUSIC_FadeVolume` round off, up to one
`Precision`th of a volume a step; hence the limit of `Precision` steps.

The invariants of `Stream` build on each other. `PageInv`: samples written and samples to
go add up to the page, and `fixed` is that of the samples to go. `ReadInv`: where everything
ends that a voice still has to play, the part that plays (`BlockLies`), the rest of the block
behind it (`RestLies`), the loop of a raw sound (`RawLies`) and of a VOC file (`VocLies`), none
of it behind `goal`; and that the mixer in use counts bytes as the voice does (`MixAgrees`),
which is not so while a VOC file is being searched. `GoesInv`: the next part begins where
the last one ended (`Follows`), and the position is that which the mixers left (`HereInv`).
`EndInv`: the parts add up to the end exactly (`PartsEnd`, `VocEnds`).

The code does not work for every sound, and the hypotheses say for which it does.
`RepeatsInBytes`: a VOC file of which a part is repeated or looped has one byte a frame, as
`MV_GetNextVOCBlock` sets the length of what it repeats to a number of bytes.
`StereoInOne`: a stereo sound comes in one block, as the code moves on by frames as if they
were mono. `WholeFrames`: the blocks of a VOC file hold whole frames; the rest of one is not
played. `DataFirst`: a VOC file that the program wants looped has data in front of its end.
The loop is held as offsets until then, and the code would take one for an address.
`MCStream` assumes all four (`SoundsPlayable`), so that the run shows that they can be met.

The invariant of `Setup`, `IInv` of `FxProofs`, was checked by TLC on the run `setup` before
it was proved. Its parts:

- `CardInv`: the machine. `HoldInv` is common to the drivers: one that is not installed
  holds nothing (`LetGo`), one that is has its vector, a stack and locked memory and has
  saved the mask it found (`Hooked`), and the card's line is open while it plays
  (`Reaches`). `SBInv`, `PasInv`, `SoundscapeInv` and `DisneyInv` are what each driver adds:
  what its card does while it plays, which DMA channel is open and how far, and that none is
  when it does not play. The Sound Blaster's also says when the settings that `BLASTER_Init`
  keeps from one call to the next are none or complete (`Unset`, `SetOnce`).
- `MusicInv`: what of the machine the music holds - the volume it has saved, and the
  interface it has taken - so that it can be given back while sounds come and go.
- `PhaseInv`: what there is in each phase of `FX_Init` and `FX_Shutdown`, in whichever of
  them an error ended it.
- `ModeInv`: that the mode of Multivoc is the one that the program asked for, as far as the
  card can (`Fit`), and, while it plays, that the driver's mode, rate and channel are those
  which Multivoc has noted. `CardAgrees` needs both: `ModeInv` for the driver, `CardInv` for
  the card.
- `VolumeKept` itself.

None of the four properties is inductive: `GivesBack`, for one, speaks of the computer after
the shutdown, and that it then is as it was is due to what each driver saved when it was
installed and did not lose since. Every function of a driver has lemmas of its own, which say
what it establishes and what it leaves (`Kept`, `Fixed`, `MusicKept`); `Watched` calls for
one for each change inside of a call. The functions that choose a driver (`CardInit`,
`MV_StartPlayback` ...) combine those of the four, and the proof for an action puts some of
these together. The numbers that matter, what is left of a rate after the divisors of a card,
never need to be computed: both sides are the same function of the same registers.

The invariant of `Effect`, `EffectInv`, adds to the properties, which hold when the program is at
rest, what is true between the writes of `ADLIBFX_Stop`: a pointer without a sound is
seen only before `ForgetPointer`, and whoever goes on after Stop finds no sound
(`SoundInv`, `StopInv`); the speaker sounds for a sound only (`SpeakerInv`).

`MixesAhead` follows from the types when the DMA address is read: `PositionRight` says
that the two halves make the right page if no carry came between them or came with the
end of a page. For counted pages the invariant says which page is right: `SourceInv` for
the Sound Source, always one behind; `FirstInv` for the other cards until
`MV_DMAChannel` is set, one behind or, while an interrupt is requested, the page of the
card. It needs that a card that has not been started neither moves nor is restarted by a
handler (`OffInv`).

The invariant of `AlMidi`, `AlInv`, is `Well`, `Asked`, `Ranges`, `Calls` and `NoNoteHangs`
with the type of `held`. `Well` says that the lists are rows in which each voice of the card
stands once, at the channel that it plays for (`Placed`), and that the chip sounds them
(`Sounds`); while `AL_NoteOn` has a voice in its hands, the same but for that voice (the set
`L` of `Well(s, L)`). `Asked` adds to `ChipSetAsAsked` what a voice of the pool has left
behind (`Holds`): its cell still holds the cached timbre, which is why `AL_SetVoiceTimbre`
may leave registers alone when it is played next. What a loop over the voices of a channel
does is proved once (fold lemmas, by induction on the set of the numbers of rounds after
which it holds), and then for classes of changes in place of single functions: `Fades` -
voices may end but those that play on are as they were; `Turns` - a controller changes;
`Drifts` - time passes. `Remains` says that a voice is as well in tune as it was, and each
class is shown to keep it unless `Untunes` names the cause. The frequency a tone has is
never computed: both sides are the same function of key, timbre and wheel. `Calls` is about
the volume call of the program: that as long as no message has come, the voices it has yet
to set are just that one and those behind it in its list (`WalkLeft`), and that what it has read
and written of the one it has come to is so (`Underway`). A message makes all of these
`late` (`Disturbed`), so that nothing has to be said of where the walk goes on after it.

Only model-checked: `TracksInStep` and `ClockRight` of songs with loops of single tracks or
with contexts; `ENABLED` and liveness (`EveryTaskServed`, `EverySoundEnds`, `SongEnds`,
`FadeEnds`, `PlaybackGoesOn`), which are beyond the prover.

## 6. What the models leave out

- `MultiVoc`: what `Stream` has, and what is heard: volumes and reverb. Recording's own
  handler copies data only.
- `Player`: the wording of messages; calls from a callback, where the interrupt may leave an
  error behind for the program; errors of the drivers, of `FX_Init` and of recording.
- `Stream`, `Mixers`: the values of samples; reverb; loops and feeds as short as one mixed
  sample; stereo raw and WAV data of more than one block, where `MV_GetNextWAVBlock` moves
  on by frames as if they were mono; looped VOC files of 16 bits or in stereo, whose byte
  counts the code takes for frames; a VOC repeat without data, in which the handler stays
  for ever.
- `TaskMan`: `malloc` does not fail; the calls of `TS_LockMemory`; a rate outside the PIT's
  range.
- `Midi`: bytes, running status, delta encoding, program changes and the device; the rate of
  the task, which follows the tempo. Songs of which the card plays nothing: looped, they
  would hold up the interrupt for ever.
- `AlMidi`: a fade that comes in the midst of a message of the program, as during
  `MIDI_PauseSong` or a seek, which do not stop it; frequencies (a table); `AL_DetectFM`;
  the stereo of two chips, whose setting is commented out;
  `AL_ReserveVoice`/`AL_ReleaseVoice`, which nothing calls. A bank is registered before the
  first note only: voices do not hear of a later one.
- `Fade`: devices other than a general one without and one with a mixer; fades shorter than
  25 ms; the queries.
- `Effect`: the instrument and the volumes of an Adlib effect, which are writes to other
  registers; changes of the callback function while a sound plays; the values of the
  lookup table; lengths of 0.
- `SoundCard`: `BLASTER_CurrentDMABuffer` and its kind, which only `BLASTER_GetCurrentPos`
  reads; a second interrupt of the Pro AudioSpectrum inside its handler, which ends the
  interrupt before its callback; an IRQ that was enabled before the library started and so
  is never masked; other programs on the same IRQ.
- `Setup` and the drivers: single port writes and delays; filters, swapped stereo, the MIDI
  interrupt of the Sound Blaster; `PAS_RestoreState`, which is commented out; the text of
  the environment variable and of `SNDSCAPE.INI`; `FX_SetupCard` and `FX_SetupSoundBlaster` of
  an installed library; an environment that contradicts the DSP (`TypeFits`); no memory for the
  timer task with which `SS_TestSoundSource` waits; music before the Sound Blaster has been
  initialized, when its mixer is not known; AWE32 and GUS, which are not in `src/`.
- Not modelled: `pitch.c`, `a_dpmi.c`, `debugio.c`, `user.c`, which hold a table, lock
  memory, print or read the command line; the MIDI messages of `mpu401.c`; what `fx_man.c`
  (the reverb) and `music.c` only pass on; the programs, of which `pm.c` is the reason for
  `Suspend` and `Resume`; and the directories that are not built.
