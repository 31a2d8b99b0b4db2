-------------------------------- MODULE Fade --------------------------------
(***************************************************************************)
(* The volume of the music (source/midi.c) and its fades (source/music.c). *)
(*                                                                         *)
(* A note sounds as loud as its channel: as loud as the song has set it    *)
(* (_MIDI_ChannelVolume), the program has (_MIDI_UserChannelVolume), and   *)
(* the volume of the whole song (_MIDI_TotalVolume), which is either a     *)
(* factor of what each channel is sent or a setting of the card's mixer.   *)
(*                                                                         *)
(* The calls of the program run with interrupts enabled, one access to     *)
(* what it shares with them at a time.  The interrupt runs the task of a   *)
(* fade, and the song with its volume events; each is one step.            *)
(***************************************************************************)
EXTENDS Integers, FiniteSets

CONSTANTS
    Cards,        \* the kinds of cards: see hasMixer and atOnce
    Channel,      \* the channels, 1 to NUM_MIDI_CHANNELS
    Rerouted,     \* those with a function of the program: _MIDI_RerouteFunctions
    Kept,         \* those of them whose function answers MIDI_DONT_PLAY
    MaxVolume,    \* MIDI_MaxVolume
    Full,         \* 256: a user volume that changes nothing
    Precision,    \* 1 << 7: the parts of a volume that a fade counts in
    DefaultVolume,                      \* GENMIDI_DefaultVolume
    Grain,        \* the mixer keeps multiples of it
    Volumes, UserVolumes, SongVolumes,  \* what the program and the song ask for
    Lengths,      \* how long fades are, in 25 ms
    Task,         \* what TS_ScheduleTask hands out
    Null

ASSUME ConstantsAssumption ==
    /\ Cards \subseteq BOOLEAN \X BOOLEAN
    /\ Channel \subseteq Nat \ {0} /\ IsFiniteSet(Channel)
    /\ Kept \subseteq Rerouted /\ Rerouted \subseteq Channel
    /\ {MaxVolume, Full, Precision, Grain} \cup Lengths \subseteq Nat \ {0}
    /\ DefaultVolume \in Nat /\ Volumes \cup UserVolumes \subseteq Int
    /\ SongVolumes \subseteq Nat
    /\ Null \notin Task

VARIABLES
    hasMixer,            \* does the card have a mixer: Funcs->SetVolume, GetVolume
    atOnce,              \* is it one of those whose volume is not faded
    total, chan, user,   \* _MIDI_TotalVolume, ..._ChannelVolume, ..._UserChannelVolume
    mixer,               \* the volume the mixer is set to
    sent, told,          \* per channel, what the card and the function were told last
    loaded, active,      \* _MIDI_SongLoaded, _MIDI_SongActive
    cleared,             \* Reset
    fade,                \* MUSIC_FadeLength, ...Rate, ...LastFadeVolume, ...
    fadeTask,            \* MUSIC_FadeTask
    listed, dispatched,  \* the fade tasks in TaskList, and those that are active
    at, todo, arg, value, after,  \* what the program does: see below
    crossed              \* where the interrupt made what the program held old

device == <<hasMixer, atOnce>>
volumes == <<total, chan, user, mixer, sent, told>>
song    == <<loaded, active, cleared>>
fading  == <<fade, fadeTask, listed, dispatched>>
call    == <<at, todo, arg, value, after>>
vars    == <<device, volumes, song, fading, call, crossed>>

\* `at' is what the program does next, `todo' the channels it still goes
\* through, `arg' and `value' what it holds in between, and `after' what it
\* goes on with.  In `crossed', Mixer stands for the card's mixer.
Mixer == 0
Idle == "idle"
Current == CHOOSE c \in todo : \A d \in todo : c <= d

\* What the program has read, or computed, and not yet stored or sent.
Held == IF at = "mixer" THEN {Mixer}
        ELSE IF at \in {"store", "tell", "level", "play"} THEN {Current} ELSE {}

Clamp(v, most) == IF v < 0 THEN 0 ELSE IF v > most THEN most ELSE v

\* What _MIDI_SetChannelVolume makes of a channel's volume v, for the function
\* of the program and for the card.
Remote(v, u, t) == ((v * u * t) \div MaxVolume) \div Full
Level(v, u, t) == (IF hasMixer THEN v * u ELSE (v * u * t) \div MaxVolume) \div Full

\* MIDI_GetVolume.
GetVolume == IF hasMixer THEN (mixer \div Grain) * Grain ELSE total

Init ==
    /\ \E card \in Cards : hasMixer = card[1] /\ atOnce = card[2]
    /\ total = MaxVolume /\ mixer \in IF hasMixer THEN {0, MaxVolume} ELSE {0}
    /\ chan = [c \in Channel |-> 0] /\ user = [c \in Channel |-> Full]
    /\ sent = chan /\ told = chan
    /\ loaded = FALSE /\ active = FALSE /\ cleared = FALSE
    /\ fade = [length |-> 0, rate |-> 0, last |-> 0, volume |-> 0, ending |-> 0]
    /\ fadeTask = Null /\ listed = {} /\ dispatched = {}
    /\ at = Idle /\ todo = {} /\ arg = 0 /\ value = 0 /\ after = Idle
    /\ crossed = {Mixer} \cup Channel

-----------------------------------------------------------------------------
(* _MIDI_SetChannelVolume, and the loops that call it.                     *)

\* The channels in `todo' are sent their volumes; then comes what is in `after'.
Send(channels) == at' = "send" /\ todo' = channels

\* The argument is read: from here on the program holds it.
SendNext ==
    /\ at = "send"
    /\ IF todo = {}
       THEN at' = after /\ UNCHANGED <<arg, crossed>>
       ELSE at' = "store" /\ arg' = chan[Current] /\ crossed' = crossed \ {Current}
    /\ UNCHANGED <<device, volumes, song, fading, todo, value, after>>

\* It is stored again, and the volume to send is computed.
StoreChannelVolume ==
    /\ at = "store"
    /\ chan' = [chan EXCEPT ![Current] = arg]
    /\ IF Current \in Rerouted
       THEN at' = "tell" /\ value' = Remote(arg, user[Current], total) /\ UNCHANGED arg
       ELSE at' = "play" /\ value' = Level(arg, user[Current], total) /\ arg' = 0
    /\ UNCHANGED <<device, total, user, mixer, sent, told, song, fading, todo, after,
                   crossed>>

Tell ==
    /\ at = "tell" /\ value' = 0
    /\ told' = [told EXCEPT ![Current] = value]
    /\ IF Current \in Kept THEN Send(todo \ {Current}) /\ arg' = 0
       ELSE at' = "level" /\ UNCHANGED <<todo, arg>>
    /\ UNCHANGED <<device, total, chan, user, mixer, sent, song, fading, after, crossed>>

ChannelLevel ==
    /\ at = "level" /\ at' = "play"
    /\ value' = Level(arg, user[Current], total) /\ arg' = 0
    /\ UNCHANGED <<device, volumes, song, fading, todo, after, crossed>>

ControlChange ==
    /\ at = "play"
    /\ sent' = [sent EXCEPT ![Current] = value] /\ value' = 0
    /\ Send(todo \ {Current})
    /\ UNCHANGED <<device, total, chan, user, mixer, told, song, fading, arg, after, crossed>>

-----------------------------------------------------------------------------
(* MIDI_SetVolume, which is called with the volume in `arg'.               *)

StoreTotal ==
    /\ at = "total"
    /\ total' = arg
    /\ IF hasMixer THEN at' = "mixer" /\ UNCHANGED <<todo, arg>>
       ELSE Send(Channel) /\ arg' = 0
    /\ crossed' = crossed \ {Mixer}
    /\ UNCHANGED <<device, chan, user, mixer, sent, told, song, fading, value, after>>

\* (Mutant: with a mixer, the functions of the program are not told.)
SetMixerOnly ==
    /\ at = "mixer"
    /\ mixer' = arg /\ arg' = 0
    /\ Send({})
    /\ UNCHANGED <<device, total, chan, user, sent, told, song, fading, value, after, crossed>>

SetMixer ==
    /\ at = "mixer"
    /\ mixer' = arg /\ arg' = 0
    /\ Send(Rerouted)
    /\ UNCHANGED <<device, total, chan, user, sent, told, song, fading, value, after, crossed>>

\* MIDI_SetVolume in one step, as the interrupt calls it: `total' is set
\* already.  What the program is in the midst of sending is old now.
SetVolumeNow ==
    LET channels == IF hasMixer THEN Rerouted ELSE Channel
        old == IF at \in {"mixer", "tell", "play"} THEN Held ELSE {}
    IN /\ mixer' = IF hasMixer THEN total' ELSE mixer
       /\ told' = [c \in Channel |->
              IF c \in channels \cap Rerouted THEN Remote(chan[c], user[c], total')
              ELSE told[c]]
       /\ sent' = [c \in Channel |->
              IF c \in channels \ Kept THEN Level(chan[c], user[c], total') ELSE sent[c]]
       /\ crossed' = (crossed \ ((channels \cup {Mixer}) \ Held)) \cup old

MUSIC_SetVolume(volume) ==
    /\ at = Idle
    /\ at' = "total" /\ arg' = Clamp(volume, MaxVolume) /\ after' = Idle
    /\ UNCHANGED <<device, volumes, song, fading, todo, value, crossed>>

MIDI_SetUserChannelVolume(c, volume) ==
    /\ at = Idle
    /\ user' = [user EXCEPT ![c] = Clamp(volume, Full)]
    /\ Send({c}) /\ after' = Idle
    /\ UNCHANGED <<device, total, chan, mixer, sent, told, song, fading, arg, value, crossed>>

MIDI_ResetUserChannelVolume ==
    /\ at = Idle
    /\ user' = [c \in Channel |-> Full]
    /\ Send(Channel) /\ after' = Idle
    /\ UNCHANGED <<device, total, chan, mixer, sent, told, song, fading, arg, value, crossed>>

-----------------------------------------------------------------------------
(* The song.                                                               *)

\* MIDI_Reset: the channels' volumes, then all of them are sent.
Reset == chan' = [c \in Channel |-> DefaultVolume] /\ Send(Channel)

\* MUSIC_PlaySong ends the song before, and a fade goes on.
MUSIC_PlaySong ==
    /\ at = Idle
    /\ at' = (IF loaded THEN "stopSong" ELSE "playSong") /\ after' = "playSong"
    /\ UNCHANGED <<device, volumes, song, fading, todo, arg, value, crossed>>

\* MUSIC_StopSong ends the fade as well.
MUSIC_StopSong ==
    /\ at = Idle
    /\ at' = "stopFade" /\ after' = "stopSong"
    /\ UNCHANGED <<device, volumes, song, fading, todo, arg, value, crossed>>

MIDI_StopSong ==
    /\ at = "stopSong"
    /\ IF loaded
       THEN loaded' = FALSE /\ active' = FALSE /\ cleared' = TRUE /\ Reset
       ELSE at' = Idle /\ UNCHANGED <<song, chan, todo>>
    /\ after' = IF after = "playSong" THEN after ELSE Idle
    /\ UNCHANGED <<device, total, user, mixer, sent, told, fading, arg, value, crossed>>

\* The volume is the mixer's now, which the program's functions hear of only
\* with the next volume they are told.
MIDI_PlaySong ==
    /\ at = "playSong"
    /\ total' = GetVolume
    /\ crossed' = (IF hasMixer /\ total' = mixer THEN crossed \ {Mixer} ELSE crossed)
                  \cup (IF total' # total THEN Rerouted ELSE {})
                  \cup (IF hasMixer /\ total' # mixer THEN {Mixer} ELSE {})
    /\ IF cleared THEN at' = "startSong" /\ UNCHANGED <<chan, todo>> ELSE Reset
    /\ after' = "startSong" /\ cleared' = FALSE
    /\ UNCHANGED <<device, user, mixer, sent, told, loaded, active, fading, arg, value>>

StartSong ==
    /\ at = "startSong"
    /\ loaded' = TRUE /\ active' = TRUE
    /\ at' = Idle /\ after' = Idle
    /\ UNCHANGED <<device, volumes, cleared, fading, todo, arg, value, crossed>>

\* MIDI_SetSongTick, MIDI_SetSongTime and MIDI_SetSongPosition: back to the
\* beginning first or not, through the song's events, and the volume again.
MIDI_SetSong(back) ==
    /\ at = Idle /\ loaded
    /\ active' = FALSE /\ after' = "seek"
    /\ IF back THEN Reset /\ cleared' = TRUE
       ELSE at' = "seek" /\ UNCHANGED <<chan, todo, cleared>>
    /\ UNCHANGED <<device, total, user, mixer, sent, told, loaded, fading, arg, value,
                   crossed>>

SeekEvent(c, volume) ==
    /\ at = "seek"
    /\ at' = "store" /\ todo' = {c} /\ arg' = volume /\ crossed' = crossed \ {c}
    /\ UNCHANGED <<device, volumes, song, fading, value, after>>

SeekDone ==
    /\ at = "seek"
    /\ at' = "total" /\ arg' = total /\ after' = "continue"
    /\ UNCHANGED <<device, volumes, song, fading, todo, value, crossed>>

\* The song had ended during the seek and is not to be looped.
SeekEnded ==
    /\ at = "seek" /\ at' = Idle /\ after' = Idle
    /\ UNCHANGED <<device, volumes, song, fading, todo, arg, value, crossed>>

MIDI_ContinueSong ==
    /\ at = "continue"
    /\ active' = TRUE /\ at' = Idle /\ after' = Idle
    /\ UNCHANGED <<device, volumes, loaded, cleared, fading, todo, arg, value, crossed>>

\* In the interrupt: the song sets the volume of a channel.
SongVolume(c, volume) ==
    /\ active
    /\ chan' = [chan EXCEPT ![c] = volume]
    /\ told' = IF c \notin Rerouted THEN told
               ELSE [told EXCEPT ![c] = Remote(volume, user[c], total)]
    /\ sent' = IF c \in Kept THEN sent
               ELSE [sent EXCEPT ![c] = Level(volume, user[c], total)]
    /\ crossed' = IF c \in Held THEN crossed \cup {c} ELSE crossed \ {c}
    /\ UNCHANGED <<device, total, user, mixer, song, fading, call>>

-----------------------------------------------------------------------------
(* The fade.                                                               *)

\* A quotient as C rounds it: towards 0.
Quotient(n, d) == IF n < 0 THEN -((-n) \div d) ELSE n \div d

\* (Mutant: the steps are those of a fade of half the length.)
RateTwice(from, to, length) == Quotient((to - from) * Precision * 2, length)

Rate(from, to, length) == Quotient((to - from) * Precision, length)

\* (Mutant: a fade goes on beside the one before it.)
MUSIC_FadeVolumeBeside(to, length) ==
    /\ at = Idle
    /\ arg' = Clamp(to, MaxVolume) /\ value' = IF atOnce THEN 0 ELSE length
    /\ at' = IF atOnce THEN "total" ELSE "fade"
    /\ after' = IF atOnce THEN Idle ELSE "fade"
    /\ UNCHANGED <<device, volumes, song, fading, todo, crossed>>

\* MUSIC_FadeVolume: some cards are set at once, on others a fade is begun;
\* `arg' keeps where it goes to, `value' how long it takes.
MUSIC_FadeVolume(to, length) ==
    /\ at = Idle
    /\ arg' = Clamp(to, MaxVolume) /\ value' = IF atOnce THEN 0 ELSE length
    /\ at' = IF atOnce THEN "total" ELSE IF fadeTask # Null THEN "stopFade" ELSE "fade"
    /\ after' = IF atOnce THEN Idle ELSE "fade"
    /\ UNCHANGED <<device, volumes, song, fading, todo, crossed>>

SetFade ==
    /\ at = "fade" /\ at' = "schedule"
    /\ fade' = [length |-> value, rate |-> Rate(GetVolume, arg, value), last |-> GetVolume,
                volume |-> GetVolume * Precision, ending |-> arg]
    /\ arg' = 0 /\ value' = 0
    /\ UNCHANGED <<device, volumes, song, fadeTask, listed, dispatched, todo, after, crossed>>

\* There may be no memory for the task.
ScheduleFade ==
    /\ at = "schedule"
    /\ \/ \E t \in Task \ listed :
            /\ fadeTask' = t /\ listed' = listed \cup {t}
            /\ at' = "dispatch" /\ UNCHANGED after
       \/ /\ fadeTask' = Null /\ at' = Idle /\ after' = Idle
          /\ UNCHANGED listed
    /\ UNCHANGED <<device, volumes, song, fade, dispatched, todo, arg, value, crossed>>

DispatchFade ==
    /\ at = "dispatch"
    /\ dispatched' = listed
    /\ at' = Idle /\ after' = Idle
    /\ UNCHANGED <<device, volumes, song, fade, fadeTask, listed, todo, arg, value, crossed>>

\* MUSIC_StopFade, also when the program calls it: it looks whether there is a
\* task, ends the task there is by then, and forgets it.
MUSIC_StopFade ==
    /\ at = Idle /\ at' = "stopFade" /\ after' = Idle
    /\ UNCHANGED <<device, volumes, song, fading, todo, arg, value, crossed>>

StopFadeTest ==
    /\ at = "stopFade"
    /\ at' = IF fadeTask # Null THEN "terminate" ELSE after
    /\ UNCHANGED <<device, volumes, song, fading, todo, arg, value, after, crossed>>

TerminateFade ==
    /\ at = "terminate" /\ at' = "forget"
    /\ listed' = listed \ {fadeTask} /\ dispatched' = dispatched \ {fadeTask}
    /\ UNCHANGED <<device, volumes, song, fade, fadeTask, todo, arg, value, after, crossed>>

ForgetFade ==
    /\ at = "forget" /\ at' = after
    /\ fadeTask' = Null
    /\ UNCHANGED <<device, volumes, song, fade, listed, dispatched, todo, arg, value, after,
                   crossed>>

\* The task ends itself.
EndFade(t) ==
    /\ listed' = listed \ {t} /\ dispatched' = dispatched \ {t}
    /\ fadeTask' = Null

\* (Mutant: the last step is waited for.)
LeftWaiting(length) == length

\* What is left of the fade after a step.
Left(length) == length - 1

\* MUSIC_FadeRoutine, in the interrupt.
FadeRoutine(t) ==
    /\ t \in dispatched
    /\ LET next == fade.volume + fade.rate
           volume == next \div Precision
       IN IF fade.length = 0
          THEN /\ total' = fade.ending /\ SetVolumeNow
               /\ fade' = [fade EXCEPT !.volume = next]
               /\ EndFade(t)
          ELSE /\ fade' = [fade EXCEPT !.volume = next, !.length = Left(@), !.last = volume]
               /\ IF volume # fade.last
                  THEN total' = Clamp(volume, MaxVolume) /\ SetVolumeNow
                  ELSE UNCHANGED <<total, mixer, told, sent, crossed>>
               /\ UNCHANGED <<fadeTask, listed, dispatched>>
    /\ UNCHANGED <<device, chan, user, song, call>>

-----------------------------------------------------------------------------
SetVolumeStep == StoreTotal \/ SetMixer \/ SendNext \/ StoreChannelVolume \/ Tell
                    \/ ChannelLevel \/ ControlChange
SongStep == MIDI_StopSong \/ MIDI_PlaySong \/ StartSong \/ SeekDone \/ SeekEnded
                \/ MIDI_ContinueSong
FadeStep == SetFade \/ ScheduleFade \/ DispatchFade \/ StopFadeTest \/ TerminateFade
                \/ ForgetFade
Seeks == \E c \in Channel, v \in SongVolumes : SeekEvent(c, v)
Program == SetVolumeStep \/ SongStep \/ FadeStep \/ Seeks

Call ==
    \/ \E v \in Volumes : MUSIC_SetVolume(v)
    \/ \E c \in Channel, v \in UserVolumes : MIDI_SetUserChannelVolume(c, v)
    \/ MIDI_ResetUserChannelVolume
    \/ MUSIC_PlaySong \/ MUSIC_StopSong
    \/ \E back \in BOOLEAN : MIDI_SetSong(back)
    \/ \E v \in Volumes, n \in Lengths : MUSIC_FadeVolume(v, n)
    \/ MUSIC_StopFade

FadeTick == \E t \in Task : FadeRoutine(t)
Interrupt == FadeTick \/ \E c \in Channel, v \in SongVolumes : SongVolume(c, v)

Next == Program \/ Call \/ Interrupt

Spec == Init /\ [][Next]_vars

-----------------------------------------------------------------------------
(* Properties.                                                             *)

Locations == {Idle, "send", "store", "tell", "level", "play", "total", "mixer",
              "stopSong", "playSong", "startSong", "seek", "continue", "fade", "schedule",
              "dispatch", "stopFade", "terminate", "forget"}

TypeOK ==
    /\ hasMixer \in BOOLEAN /\ atOnce \in BOOLEAN
    /\ total \in 0..MaxVolume /\ mixer \in 0..MaxVolume
    /\ chan \in [Channel -> Nat] /\ user \in [Channel -> 0..Full]
    /\ sent \in [Channel -> Nat] /\ told \in [Channel -> Nat]
    /\ loaded \in BOOLEAN /\ active \in BOOLEAN /\ cleared \in BOOLEAN
    /\ fade.length \in Nat /\ fade.ending \in 0..MaxVolume
    /\ fadeTask \in Task \cup {Null} /\ dispatched \subseteq listed /\ listed \subseteq Task
    /\ at \in Locations /\ after \in Locations /\ todo \subseteq Channel
    /\ arg \in Nat /\ value \in Nat /\ crossed \subseteq Channel \cup {Mixer}

\* At most one fade is running, and it is the one that MUSIC_FadeActive tells
\* of and MUSIC_StopFade ends, whenever it ended itself or was ended.
FadeIsKnown ==
    at # "forget" => listed = {fadeTask} \ {Null}

\* Every channel is as loud as the song, the program and the volume of the song
\* make it, at the card and at the program's own function, and the mixer is set
\* to the volume of the song: after any calls, and with fades and songs that
\* run in between.  Only where the interrupt came between the read of a value
\* and its use (`crossed') the old value stays, until it is sent again.
VolumesAgree ==
    at = Idle =>
        /\ hasMixer /\ Mixer \notin crossed => mixer = total
        /\ \A c \in Channel \ crossed :
            /\ c \notin Kept => sent[c] = Level(chan[c], user[c], total)
            /\ c \in Rerouted => told[c] = Remote(chan[c], user[c], total)

Magnitude(n) == IF n < 0 THEN -n ELSE n
Between(v, a, b) == (a <= v /\ v <= b) \/ (b <= v /\ v <= a)

\* A fade goes towards its goal only, never past it, in even steps, and the
\* last step, which sets the goal itself, is no jump.  (So it is for fades of up to
\* Precision steps: of longer ones the last step is that of what the others rounded off.)
FadesEvenly ==
    [][ FadeTick =>
          LET new == IF fade'.length = fade.length THEN total' ELSE fade'.last
          IN /\ Between(new, fade.last, fade.ending)
             /\ Magnitude(new - fade.last) <= Magnitude(fade.rate) \div Precision + 1 ]_vars

\* The task manager calls the task of a fade again and again (EveryTaskServed
\* of TaskMan), and the program goes on between the interrupts.
FairSpec == Spec /\ WF_vars(FadeTick) /\ WF_vars(SetVolumeStep \/ SongStep \/ FadeStep)

\* A fade ends.
FadeEnds == (fadeTask # Null) ~> (fadeTask = Null)
=============================================================================
