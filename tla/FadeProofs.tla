------------------------------ MODULE FadeProofs -------------------------------
(***************************************************************************)
(* That MUSIC_FadeTask knows the fade, that every volume keeps its range,  *)
(* that what is heard agrees with what was asked for, and that a fade goes *)
(* evenly: for any channels, cards, volumes and lengths.                   *)
(***************************************************************************)
EXTENDS Fade, TLAPS, NaturalsInduction, WellFoundedInduction

\* The calls of MUSIC_StopFade, and what they may return to.
Stopping == {"stopFade", "terminate", "forget"}
AfterStopping == {Idle, "fade", "stopSong"}

\* Everything else that a volume, a song or a seek goes on with.
AfterSending == {Idle, "playSong", "startSong", "seek", "continue"}

\* A call goes on with what its caller said and not with the end of another fade.
GoesOnRight ==
    /\ at \in Stopping => after \in AfterStopping
    /\ at = "stopSong" => after \in {"stopSong", "playSong"}
    /\ at \notin Stopping \cup {"fade", "schedule", "dispatch", "stopSong"}
           => after \in AfterSending

\* A fade is begun when there is no other, and forgotten when it has left the list.
FadesApart ==
    /\ at \in {"fade", "schedule"} => fadeTask = Null
    /\ at = "forget" => listed = {}

\* What is dispatched is listed, which the handler relies on.
DispatchedListed == dispatched \subseteq listed /\ listed \subseteq Task

FadeInv == GoesOnRight /\ FadesApart /\ DispatchedListed /\ FadeIsKnown

\* At first no fade is listed and the program is in no call.
LEMMA InitFadeInv == Init => FadeInv
BY DEF Init, FadeInv, GoesOnRight, FadesApart, DispatchedListed, FadeIsKnown, Idle,
       Stopping, AfterStopping, AfterSending

\* Sending volumes (_MIDI_SetChannelVolume, MIDI_SetVolume) leaves the fades alone.
LEMMA SetVolumeFadeInv == FadeInv /\ SetVolumeStep => FadeInv'
<1> SUFFICES ASSUME FadeInv, SetVolumeStep PROVE FadeInv'
    OBVIOUS
<1> USE DEF FadeInv, GoesOnRight, FadesApart, DispatchedListed, FadeIsKnown, Idle,
            Stopping, AfterStopping, AfterSending, fading
<1>1. CASE StoreTotal
      BY <1>1 DEF StoreTotal, Send
<1>2. CASE SetMixer
      BY <1>2 DEF SetMixer, Send
<1>3. CASE SendNext
      BY <1>3 DEF SendNext
<1>4. CASE StoreChannelVolume
      BY <1>4 DEF StoreChannelVolume
<1>5. CASE Tell
      BY <1>5 DEF Tell, Send
<1>6. CASE ChannelLevel
      BY <1>6 DEF ChannelLevel
<1>7. CASE ControlChange
      BY <1>7 DEF ControlChange, Send
<1> QED
    BY <1>1, <1>2, <1>3, <1>4, <1>5, <1>6, <1>7 DEF SetVolumeStep

\* So do songs and seeks, but for where they go on.
LEMMA SongFadeInv == FadeInv /\ (SongStep \/ Seeks) => FadeInv'
<1> SUFFICES ASSUME FadeInv, SongStep \/ Seeks PROVE FadeInv'
    OBVIOUS
<1> USE DEF FadeInv, GoesOnRight, FadesApart, DispatchedListed, FadeIsKnown, Idle,
            Stopping, AfterStopping, AfterSending, fading
<1>1. CASE MIDI_StopSong
      BY <1>1 DEF MIDI_StopSong, Reset, Send
<1>2. CASE MIDI_PlaySong
      BY <1>2 DEF MIDI_PlaySong, Reset, Send
<1>3. CASE StartSong
      BY <1>3 DEF StartSong
<1>4. CASE SeekDone
      BY <1>4 DEF SeekDone
<1>5. CASE SeekEnded
      BY <1>5 DEF SeekEnded
<1>6. CASE MIDI_ContinueSong
      BY <1>6 DEF MIDI_ContinueSong
<1>7. CASE Seeks
      BY <1>7 DEF Seeks, SeekEvent
<1> QED
    BY <1>1, <1>2, <1>3, <1>4, <1>5, <1>6, <1>7 DEF SongStep

\* A fade begins only after the one before it has been taken off the list and
\* forgotten; that it may have ended itself since MUSIC_StopFade looked does no harm.
LEMMA FadeStepFadeInv == FadeInv /\ FadeStep => FadeInv'
<1> SUFFICES ASSUME FadeInv, FadeStep PROVE FadeInv'
    OBVIOUS
<1> USE DEF FadeInv, GoesOnRight, FadesApart, DispatchedListed, FadeIsKnown, Idle,
            Stopping, AfterStopping, AfterSending
<1>1. CASE SetFade
      BY <1>1 DEF SetFade
<1>2. CASE ScheduleFade
  <2>1. fadeTask = Null /\ listed = {}
        BY <1>2 DEF ScheduleFade
  <2>2. ASSUME NEW t \in Task, fadeTask' = t, listed' = listed \cup {t}, at' = "dispatch"
        PROVE  FadeInv'
        BY <1>2, <2>1, <2>2, ConstantsAssumption DEF ScheduleFade
  <2>3. CASE fadeTask' = Null /\ at' = Idle /\ after' = Idle /\ UNCHANGED listed
        BY <1>2, <2>1, <2>3 DEF ScheduleFade
  <2> QED
      BY <1>2, <2>2, <2>3 DEF ScheduleFade
<1>3. CASE DispatchFade
      BY <1>3 DEF DispatchFade
<1>4. CASE StopFadeTest
      BY <1>4 DEF StopFadeTest, fading
<1>5. CASE TerminateFade
      BY <1>5 DEF TerminateFade
<1>6. CASE ForgetFade
      BY <1>6 DEF ForgetFade
<1> QED
    BY <1>1, <1>2, <1>3, <1>4, <1>5, <1>6 DEF FadeStep

\* Calls begin where no other is; MUSIC_FadeVolume goes by MUSIC_StopFade if there is
\* a fade.
LEMMA CallFadeInv == FadeInv /\ Call => FadeInv'
<1> SUFFICES ASSUME FadeInv, Call PROVE FadeInv'
    OBVIOUS
<1> USE DEF FadeInv, GoesOnRight, FadesApart, DispatchedListed, FadeIsKnown, Idle,
            Stopping, AfterStopping, AfterSending, fading
<1>1. CASE \E v \in Volumes : MUSIC_SetVolume(v)
      BY <1>1 DEF MUSIC_SetVolume
<1>2. CASE \E c \in Channel, v \in UserVolumes : MIDI_SetUserChannelVolume(c, v)
      BY <1>2 DEF MIDI_SetUserChannelVolume, Send
<1>3. CASE MIDI_ResetUserChannelVolume
      BY <1>3 DEF MIDI_ResetUserChannelVolume, Send
<1>4. CASE MUSIC_PlaySong
      BY <1>4 DEF MUSIC_PlaySong
<1>5. CASE MUSIC_StopSong
      BY <1>5 DEF MUSIC_StopSong
<1>6. CASE \E back \in BOOLEAN : MIDI_SetSong(back)
      BY <1>6 DEF MIDI_SetSong, Reset, Send
<1>7. CASE \E v \in Volumes, n \in Lengths : MUSIC_FadeVolume(v, n)
      BY <1>7 DEF MUSIC_FadeVolume
<1>8. CASE MUSIC_StopFade
      BY <1>8 DEF MUSIC_StopFade
<1> QED
    BY <1>1, <1>2, <1>3, <1>4, <1>5, <1>6, <1>7, <1>8 DEF Call

\* The interrupt: a fade that is dispatched is the one that is known, and forgets itself.
LEMMA InterruptFadeInv == FadeInv /\ Interrupt => FadeInv'
<1> SUFFICES ASSUME FadeInv, Interrupt PROVE FadeInv'
    OBVIOUS
<1> USE DEF FadeInv, GoesOnRight, FadesApart, DispatchedListed, FadeIsKnown, Idle,
            Stopping, AfterStopping, AfterSending, fading, call
<1>1. ASSUME NEW t \in Task, FadeRoutine(t) PROVE FadeInv'
  <2>1. UNCHANGED <<at, after>> /\ t \in listed
        BY <1>1 DEF FadeRoutine
  <2>2. at # "forget" /\ fadeTask = t /\ listed = {t}
        BY <2>1
  <2>3. CASE UNCHANGED <<fadeTask, listed, dispatched>>
        BY <2>1, <2>3
  <2>4. CASE EndFade(t)
        BY <2>1, <2>2, <2>4, ConstantsAssumption DEF EndFade
  <2> QED
      BY <1>1, <2>3, <2>4 DEF FadeRoutine
<1>2. ASSUME NEW c \in Channel, NEW v \in SongVolumes, SongVolume(c, v) PROVE FadeInv'
      BY <1>2 DEF SongVolume
<1> QED
    BY <1>1, <1>2 DEF Interrupt, FadeTick

\* Every step.
LEMMA NextFadeInv == FadeInv /\ [Next]_vars => FadeInv'
<1>1. FadeInv /\ UNCHANGED vars => FadeInv'
      BY DEF FadeInv, GoesOnRight, FadesApart, DispatchedListed, FadeIsKnown, Idle,
             Stopping, AfterStopping, AfterSending, vars, fading, call
<1> QED
    BY <1>1, SetVolumeFadeInv, SongFadeInv, FadeStepFadeInv, CallFadeInv,
       InterruptFadeInv DEF Next, Program

\* At most one fade runs, and MUSIC_FadeTask is it (MUSIC_FadeVolume, MUSIC_StopFade,
\* MUSIC_FadeRoutine), whatever the task and the song do between two accesses of a call.
THEOREM FadeKnown == Spec => []FadeIsKnown
<1>1. FadeInv => FadeIsKnown
      BY DEF FadeInv
<1> QED
    BY InitFadeInv, NextFadeInv, <1>1, PTL DEF Spec

-----------------------------------------------------------------------------
(* The types.                                                              *)

\* Where the program holds a channel, there is one.
HoldsChannel == at \in {"store", "tell", "level", "play"} => todo # {}

\* What the fields of the fade are; a volume to be set is in range, and a fade to be
\* begun has a length.
RangesInv ==
    /\ fade \in [length : Nat, rate : Int, last : Int, volume : Int, ending : 0..MaxVolume]
    /\ at \notin {"store", "tell", "level"} => arg \in 0..MaxVolume
    /\ (at = "fade" \/ (at \in Stopping /\ after = "fade")) => value \in Lengths

\* The type invariant, with what keeps it.
TypeInv == TypeOK /\ HoldsChannel /\ RangesInv

\* Products and quotients of natural numbers are natural numbers ...
LEMMA Products ==
    ASSUME NEW a \in Nat, NEW b \in Nat
    PROVE  a * b \in Nat
OBVIOUS

LEMMA Quotients ==
    ASSUME NEW a \in Nat, NEW b \in Nat \ {0}
    PROVE  a \div b \in Nat /\ (a \div b) * b \in 0..a
OBVIOUS

\* ... and those of integers are integers.
LEMMA IntQuotients ==
    ASSUME NEW a \in Int, NEW b \in Nat \ {0}
    PROVE  a \div b \in Int /\ (a \div b) * b <= a /\ a < (a \div b) * b + b
OBVIOUS

LEMMA IntProducts ==
    ASSUME NEW a \in Int, NEW b \in Int
    PROVE  a * b \in Int
OBVIOUS

\* What a channel is sent is a natural number.
LEMMA Levels ==
    ASSUME NEW v \in Nat, NEW u \in Nat, NEW t \in Nat
    PROVE  Remote(v, u, t) \in Nat /\ Level(v, u, t) \in Nat
<1>1. MaxVolume \in Nat \ {0} /\ Full \in Nat \ {0}
  BY ConstantsAssumption
<1>2. v * u \in Nat
  BY Products
<1> DEFINE w == v * u
<1>3. w \in Nat
  BY <1>2
<1> HIDE DEF w
<1>4. w * t \in Nat
  BY <1>3, Products
<1> DEFINE x == w * t
<1>5. x \in Nat
  BY <1>4
<1> HIDE DEF x
<1>6. x \div MaxVolume \in Nat /\ w \div Full \in Nat
  BY <1>1, <1>3, <1>5, Quotients
<1> DEFINE y == x \div MaxVolume
<1>7. y \in Nat
  BY <1>6
<1> HIDE DEF y
<1>8. y \div Full \in Nat
  BY <1>1, <1>7, Quotients
<1>9. Remote(v, u, t) = y \div Full
  BY DEF Remote, y, x, w
<1>10. Level(v, u, t) = IF hasMixer THEN w \div Full ELSE y \div Full
  BY DEF Level, y, x, w
<1>11. QED BY <1>6, <1>8, <1>9, <1>10

\* The channel a loop is at is the first that is left.
LEMMA CurrentIn ==
    ASSUME TypeOK, todo # {}
    PROVE  Current \in todo /\ Current \in Channel
<1> DEFINE R == {ss \in Nat \X Nat : ss[1] < ss[2]}
<1>1. todo \in SUBSET Nat /\ todo \subseteq Channel
  BY ConstantsAssumption DEF TypeOK
<1>2. IsWellFoundedOn(R, Nat)
  BY NatLessThanWellFounded DEF OpToRel
<1>3. PICK c \in todo : \A d \in todo : ~(<<d, c>> \in R)
  <2> HIDE DEF R
  <2>1. QED BY <1>1, <1>2, WFMin
<1>4. ASSUME NEW d \in todo PROVE c <= d
  <2>1. <<d, c>> \in Nat \X Nat /\ <<d, c>>[1] = d /\ <<d, c>>[2] = c
    BY <1>1
  <2>2. ~(d < c)
    BY <1>3, <2>1
  <2>3. QED BY <1>1, <2>2
<1>5. \E e \in todo : \A d \in todo : e <= d
  BY <1>4
<1>6. Current \in todo
  BY <1>5 DEF Current
<1>7. QED BY <1>1, <1>6

\* MIDI_GetVolume gives a volume.
LEMMA VolumeGot ==
    ASSUME TypeOK PROVE GetVolume \in 0..MaxVolume
<1>1. mixer \in Nat /\ mixer <= MaxVolume /\ Grain \in Nat \ {0} /\ MaxVolume \in Nat
  BY ConstantsAssumption DEF TypeOK
<1>2. (mixer \div Grain) * Grain \in 0..mixer
  BY <1>1, Quotients
<1> DEFINE q == (mixer \div Grain) * Grain
<1>3. q \in 0..mixer
  BY <1>2
<1> HIDE DEF q
<1>4. q \in 0..MaxVolume
  BY <1>1, <1>3
<1>5. QED BY <1>4 DEF GetVolume, TypeOK, q

\* A volume that is set is cut to its range.
LEMMA Clamped ==
    ASSUME NEW v \in Int, NEW most \in Nat
    PROVE  Clamp(v, most) \in 0..most
BY DEF Clamp

\* At first.
LEMMA InitTypeInv == Init => TypeInv
<1>1. SUFFICES ASSUME Init PROVE TypeInv
  OBVIOUS
<1>2. \A c \in Cards : c[1] \in BOOLEAN /\ c[2] \in BOOLEAN
  BY ConstantsAssumption
<1>3. hasMixer \in BOOLEAN /\ atOnce \in BOOLEAN
  BY <1>1, <1>2 DEF Init
<1>4. /\ MaxVolume \in Nat /\ Full \in Nat
      /\ total \in 0..MaxVolume /\ mixer \in 0..MaxVolume
      /\ chan \in [Channel -> Nat] /\ user \in [Channel -> 0..Full]
      /\ sent \in [Channel -> Nat] /\ told \in [Channel -> Nat]
  BY <1>1, ConstantsAssumption DEF Init
<1>5. fade \in [length : Nat, rate : Int, last : Int, volume : Int, ending : 0..MaxVolume]
  BY <1>1, <1>4 DEF Init
<1>6. QED
  BY <1>1, <1>3, <1>4, <1>5 DEF Init, TypeInv, TypeOK, HoldsChannel, RangesInv,
     Locations, Idle, Stopping

\* MIDI_SetVolume and _MIDI_SetChannelVolume.
LEMMA SetVolumeTypeInv == TypeInv /\ FadeInv /\ SetVolumeStep => TypeInv'
<1> SUFFICES ASSUME TypeInv, FadeInv, SetVolumeStep PROVE TypeInv'
    OBVIOUS
<1> USE DEF TypeInv, TypeOK, HoldsChannel, RangesInv, fading, device, song, volumes
<1>0. /\ total \in Nat /\ MaxVolume \in Nat
      /\ \A c \in Channel : user[c] \in Nat /\ chan[c] \in Nat
      BY ConstantsAssumption
<1>1. CASE StoreTotal
      BY <1>0, <1>1 DEF StoreTotal, Send, Locations, Stopping
<1>2. CASE SetMixer
      BY <1>2, ConstantsAssumption DEF SetMixer, Send, Locations, Stopping
<1>3. CASE SendNext
  <2>1. CASE todo = {}
    <3>1. after \in AfterSending
          BY <1>3 DEF SendNext, FadeInv, GoesOnRight, Stopping
    <3>2. QED BY <1>3, <2>1, <3>1 DEF SendNext, AfterSending, Idle, Stopping
  <2>2. CASE todo # {}
    <3>1. Current \in Channel
          BY <2>2, CurrentIn
    <3>2. QED BY <1>0, <1>3, <2>2, <3>1 DEF SendNext, Locations, Stopping
  <2>3. QED BY <2>1, <2>2
<1>4. CASE StoreChannelVolume
  <2>1. Current \in Channel /\ todo # {}
        BY <1>4, CurrentIn DEF StoreChannelVolume
  <2>2. user[Current] \in Nat /\ arg \in Nat
        BY <1>0, <2>1
  <2>3. Remote(arg, user[Current], total) \in Nat /\ Level(arg, user[Current], total) \in Nat
        BY <1>0, <2>2, Levels
  <2>4. value' \in Nat /\ chan' \in [Channel -> Nat]
        BY <1>4, <2>2, <2>3 DEF StoreChannelVolume
  <2>5. /\ at' \in {"tell", "play"} /\ arg' \in Nat
        /\ at' = "play" => arg' \in 0..MaxVolume
        /\ UNCHANGED <<device, total, user, mixer, sent, told, song, fading, todo, after,
                       crossed>>
        BY <1>0, <1>4, <2>2 DEF StoreChannelVolume
  <2>6. QED BY <2>1, <2>4, <2>5 DEF Locations, Stopping
<1>5. CASE Tell
  <2>1. told' \in [Channel -> Nat] /\ value' = 0
        BY <1>5 DEF Tell
  <2>2. \/ at' = "send" /\ todo' \subseteq Channel /\ arg' = 0
        \/ at' = "level" /\ UNCHANGED <<todo, arg>>
        BY <1>5 DEF Tell, Send
  <2>3. /\ at = "tell"
        /\ UNCHANGED <<device, total, chan, user, mixer, sent, song, fading, after, crossed>>
        BY <1>5 DEF Tell
  <2>4. QED BY <1>0, <2>1, <2>2, <2>3 DEF Locations, Stopping
<1>6. CASE ChannelLevel
  <2>1. Current \in Channel /\ todo # {}
        BY <1>6, CurrentIn DEF ChannelLevel
  <2>2. user[Current] \in Nat /\ arg \in Nat
        BY <1>0, <2>1
  <2>3. Level(arg, user[Current], total) \in Nat
        BY <1>0, <2>2, Levels
  <2>4. QED BY <1>0, <1>6, <2>1, <2>3 DEF ChannelLevel, volumes, Locations, Stopping
<1>7. CASE ControlChange
      BY <1>7 DEF ControlChange, Send, Locations, Stopping
<1> QED
    BY <1>1, <1>2, <1>3, <1>4, <1>5, <1>6, <1>7 DEF SetVolumeStep

\* Songs and seeks.
LEMMA SongTypeInv == TypeInv /\ (SongStep \/ Seeks) => TypeInv'
<1> SUFFICES ASSUME TypeInv, SongStep \/ Seeks PROVE TypeInv'
    OBVIOUS
<1> USE DEF TypeInv, TypeOK, HoldsChannel, RangesInv, fading, device, song
<1>0. MaxVolume \in Nat /\ DefaultVolume \in Nat /\ SongVolumes \subseteq Nat
      BY ConstantsAssumption
<1>1. CASE MIDI_StopSong
      BY <1>0, <1>1 DEF MIDI_StopSong, Reset, Send, Locations, Stopping, Idle
<1>2. CASE MIDI_PlaySong
  <2>1. total' \in 0..MaxVolume
        BY <1>2, VolumeGot DEF MIDI_PlaySong
  <2>2. crossed' \subseteq Channel \cup {Mixer}
        BY <1>2, ConstantsAssumption DEF MIDI_PlaySong
  <2>3. /\ at' \in {"startSong", "send"} /\ after' = "startSong" /\ todo' \subseteq Channel
        /\ chan' \in [Channel -> Nat] /\ cleared' \in BOOLEAN
        /\ at \notin {"store", "tell", "level"}
        /\ UNCHANGED <<device, user, mixer, sent, told, loaded, active, fading, arg, value>>
        BY <1>0, <1>2 DEF MIDI_PlaySong, Reset, Send
  <2>4. QED BY <2>1, <2>2, <2>3 DEF Locations, Stopping
<1>3. CASE StartSong
      BY <1>3 DEF StartSong, volumes, Locations, Stopping, Idle
<1>4. CASE SeekDone
      BY <1>0, <1>4 DEF SeekDone, volumes, Locations, Stopping
<1>5. CASE SeekEnded
      BY <1>5 DEF SeekEnded, volumes, Locations, Stopping, Idle
<1>6. CASE MIDI_ContinueSong
      BY <1>6 DEF MIDI_ContinueSong, volumes, Locations, Stopping, Idle
<1>7. CASE Seeks
      BY <1>0, <1>7 DEF Seeks, SeekEvent, volumes, Locations, Stopping
<1> QED
    BY <1>1, <1>2, <1>3, <1>4, <1>5, <1>6, <1>7 DEF SongStep

\* The beginning and the end of a fade.
LEMMA FadeStepTypeInv == TypeInv /\ FadeInv /\ FadeStep => TypeInv'
<1> SUFFICES ASSUME TypeInv, FadeInv, FadeStep PROVE TypeInv'
    OBVIOUS
<1> USE DEF TypeInv, TypeOK, HoldsChannel, RangesInv, device, song, volumes
<1>1. CASE SetFade
  <2>1. /\ value \in Nat \ {0} /\ arg \in Int /\ GetVolume \in Int /\ Precision \in Nat \ {0}
        /\ GetVolume \in 0..MaxVolume /\ arg \in 0..MaxVolume /\ MaxVolume \in Nat
        BY <1>1, VolumeGot, ConstantsAssumption DEF SetFade
  <2>2. (arg - GetVolume) * Precision \in Int /\ GetVolume * Precision \in Int
    <3>1. arg - GetVolume \in Int
          BY <2>1
    <3>2. QED BY <2>1, <3>1, IntProducts
  <2> DEFINE d == (arg - GetVolume) * Precision
  <2>3. d \in Int /\ -d \in Int
        BY <2>2
  <2> HIDE DEF d
  <2>4. Quotient(d, value) \in Int
    <3>1. d \div value \in Int /\ (-d) \div value \in Int
          BY <2>1, <2>3, IntQuotients
    <3>2. QED BY <3>1 DEF Quotient
  <2>5. Rate(GetVolume, arg, value) \in Int
        BY <2>4 DEF Rate, d
  <2>6. fade' \in [length : Nat, rate : Int, last : Int, volume : Int, ending : 0..MaxVolume]
        BY <1>1, <2>1, <2>2, <2>5 DEF SetFade
  <2>7. QED BY <1>1, <2>1, <2>6 DEF SetFade, Locations, Stopping
<1>2. CASE ScheduleFade
      BY <1>2, ConstantsAssumption DEF ScheduleFade, Locations, Stopping, Idle
<1>3. CASE DispatchFade
      BY <1>3 DEF DispatchFade, Locations, Stopping, Idle
<1>4. CASE StopFadeTest
      BY <1>4 DEF StopFadeTest, fading, Locations, Stopping, AfterStopping, Idle,
                  FadeInv, GoesOnRight
<1>5. CASE TerminateFade
      BY <1>5 DEF TerminateFade, Locations, Stopping
<1>6. CASE ForgetFade
      BY <1>6 DEF ForgetFade, Locations, Stopping, AfterStopping, Idle, FadeInv, GoesOnRight
<1> QED
    BY <1>1, <1>2, <1>3, <1>4, <1>5, <1>6 DEF FadeStep

\* The calls.
LEMMA CallTypeInv == TypeInv /\ Call => TypeInv'
<1> SUFFICES ASSUME TypeInv, Call PROVE TypeInv'
    OBVIOUS
<1> USE DEF TypeInv, TypeOK, HoldsChannel, RangesInv, fading, device, song
<1>0. MaxVolume \in Nat /\ Full \in Nat /\ DefaultVolume \in Nat /\ Lengths \subseteq Nat
      BY ConstantsAssumption
<1>1. CASE \E v \in Volumes : MUSIC_SetVolume(v)
  <2>1. PICK v \in Volumes : MUSIC_SetVolume(v)
        BY <1>1
  <2>2. Clamp(v, MaxVolume) \in 0..MaxVolume
        BY <1>0, Clamped, ConstantsAssumption
  <2>3. QED BY <1>0, <2>1, <2>2 DEF MUSIC_SetVolume, volumes, Locations, Stopping, Idle
<1>2. CASE \E c \in Channel, v \in UserVolumes : MIDI_SetUserChannelVolume(c, v)
  <2>1. PICK c \in Channel, v \in UserVolumes : MIDI_SetUserChannelVolume(c, v)
        BY <1>2
  <2>2. Clamp(v, Full) \in 0..Full
        BY <1>0, Clamped, ConstantsAssumption
  <2>3. QED BY <2>1, <2>2 DEF MIDI_SetUserChannelVolume, Send, Locations, Stopping, Idle
<1>3. CASE MIDI_ResetUserChannelVolume
      BY <1>0, <1>3 DEF MIDI_ResetUserChannelVolume, Send, Locations, Stopping, Idle
<1>4. CASE MUSIC_PlaySong
      BY <1>4 DEF MUSIC_PlaySong, volumes, Locations, Stopping, Idle
<1>5. CASE MUSIC_StopSong
      BY <1>5 DEF MUSIC_StopSong, volumes, Locations, Stopping, Idle
<1>6. CASE \E back \in BOOLEAN : MIDI_SetSong(back)
      BY <1>0, <1>6 DEF MIDI_SetSong, Reset, Send, Locations, Stopping, Idle
<1>7. CASE \E v \in Volumes, n \in Lengths : MUSIC_FadeVolume(v, n)
  <2>1. PICK v \in Volumes, n \in Lengths : MUSIC_FadeVolume(v, n)
        BY <1>7
  <2>2. Clamp(v, MaxVolume) \in 0..MaxVolume
        BY <1>0, Clamped, ConstantsAssumption
  <2>3. QED BY <1>0, <2>1, <2>2 DEF MUSIC_FadeVolume, volumes, Locations, Stopping, Idle
<1>8. CASE MUSIC_StopFade
      BY <1>8 DEF MUSIC_StopFade, volumes, Locations, Stopping, Idle
<1> QED
    BY <1>1, <1>2, <1>3, <1>4, <1>5, <1>6, <1>7, <1>8 DEF Call

\* What the program has in hand is a channel or the mixer.
LEMMA HeldIn ==
    ASSUME TypeInv PROVE Held \subseteq Channel \cup {Mixer}
BY CurrentIn DEF TypeInv, HoldsChannel, Held

\* The interrupt.
LEMMA InterruptTypeInv == TypeInv /\ Interrupt => TypeInv'
<1> SUFFICES ASSUME TypeInv, Interrupt PROVE TypeInv'
    OBVIOUS
<1>0. MaxVolume \in Nat /\ SongVolumes \subseteq Nat /\ Precision \in Nat \ {0}
      BY ConstantsAssumption
<1>1. ASSUME NEW t \in Task, FadeRoutine(t) PROVE TypeInv'
  <2> DEFINE step == fade.volume + fade.rate
  <2>1. step \in Int /\ fade.length \in Nat /\ fade.ending \in 0..MaxVolume
        BY DEF TypeInv, RangesInv
  <2> HIDE DEF step
  <2>2. step \div Precision \in Int
        BY <1>0, <2>1, IntQuotients
  <2>3. total' \in 0..MaxVolume
        BY <1>0, <1>1, <2>1, <2>2, Clamped DEF FadeRoutine, step, TypeInv, TypeOK
  <2>4. fade' \in [length : Nat, rate : Int, last : Int, volume : Int, ending : 0..MaxVolume]
    <3>1. CASE fade.length = 0
      <4>1. fade' = [fade EXCEPT !.volume = step]
            BY <1>1, <3>1 DEF FadeRoutine, step
      <4>2. QED BY <2>1, <4>1 DEF TypeInv, RangesInv
    <3>2. CASE fade.length # 0
      <4>1. fade' = [fade EXCEPT !.volume = step, !.length = Left(@),
                                 !.last = step \div Precision]
            BY <1>1, <3>2 DEF FadeRoutine, step
      <4>2. Left(fade.length) \in Nat
            BY <2>1, <3>2 DEF Left
      <4>3. QED BY <2>1, <2>2, <4>1, <4>2 DEF TypeInv, RangesInv
    <3>3. QED BY <3>1, <3>2
  <2>5. /\ mixer' \in 0..MaxVolume /\ told' \in [Channel -> Nat] /\ sent' \in [Channel -> Nat]
        /\ crossed' \subseteq Channel \cup {Mixer}
    <3>1. CASE UNCHANGED <<total, mixer, told, sent, crossed>>
          BY <3>1 DEF TypeInv, TypeOK
    <3>2. CASE SetVolumeNow
      <4>1. \A c \in Channel : /\ Remote(chan[c], user[c], total') \in Nat
                               /\ Level(chan[c], user[c], total') \in Nat
        <5>1. \A c \in Channel : chan[c] \in Nat /\ user[c] \in Nat
              BY ConstantsAssumption DEF TypeInv, TypeOK
        <5>2. total' \in Nat
              BY <1>0, <2>3
        <5>3. QED BY <5>1, <5>2, Levels
      <4>2. mixer' \in 0..MaxVolume
            BY <2>3, <3>2 DEF SetVolumeNow, TypeInv, TypeOK
      <4>3. told' \in [Channel -> Nat] /\ sent' \in [Channel -> Nat]
            BY <3>2, <4>1 DEF SetVolumeNow, TypeInv, TypeOK
      <4>4. crossed' \subseteq crossed \cup Held
            BY <3>2 DEF SetVolumeNow
      <4>5. QED BY <4>2, <4>3, <4>4, HeldIn DEF TypeInv, TypeOK
    <3>3. QED BY <1>1, <3>1, <3>2 DEF FadeRoutine
  <2>6. /\ fadeTask' \in {fadeTask, Null} /\ dispatched' \subseteq listed'
        /\ listed' \subseteq listed /\ UNCHANGED <<device, chan, user, song, call>>
        BY <1>1 DEF FadeRoutine, EndFade, TypeInv, TypeOK
  <2>7. QED BY <2>3, <2>4, <2>5, <2>6 DEF TypeInv, TypeOK, HoldsChannel, RangesInv, device,
                                        song, call
<1>2. ASSUME NEW c \in Channel, NEW v \in SongVolumes, SongVolume(c, v) PROVE TypeInv'
  <2>1. Remote(v, user[c], total) \in Nat /\ Level(v, user[c], total) \in Nat
    <3>1. v \in Nat /\ user[c] \in Nat /\ total \in Nat
          BY <1>0, ConstantsAssumption DEF TypeInv, TypeOK
    <3>2. QED BY <3>1, Levels
  <2>2. /\ chan' \in [Channel -> Nat] /\ told' \in [Channel -> Nat]
        /\ sent' \in [Channel -> Nat] /\ crossed' \subseteq Channel \cup {Mixer}
        /\ UNCHANGED <<device, total, user, mixer, song, fading, call>>
        BY <1>0, <1>2, <2>1 DEF SongVolume, TypeInv, TypeOK
  <2>3. QED BY <2>2 DEF TypeInv, TypeOK, HoldsChannel, RangesInv, device, song, fading, call
<1> QED
    BY <1>1, <1>2 DEF Interrupt, FadeTick

\* The two invariants together.
LEMMA FadeInvariance == Spec => [](FadeInv /\ TypeInv)
<1>1. TypeInv /\ UNCHANGED vars => TypeInv'
      BY DEF TypeInv, TypeOK, HoldsChannel, RangesInv, vars, device, volumes, song, fading,
             call
<1>2. FadeInv /\ TypeInv /\ [Next]_vars => FadeInv' /\ TypeInv'
      BY <1>1, NextFadeInv, SetVolumeTypeInv, SongTypeInv, FadeStepTypeInv, CallTypeInv,
         InterruptTypeInv DEF Next, Program
<1> QED
    BY InitFadeInv, InitTypeInv, <1>2, PTL DEF Spec

\* All variables keep their types; so every volume stays between 0 and MIDI_MaxVolume,
\* whatever is asked for and whatever the fade computes.
THEOREM FadeTypeCorrect == Spec => []TypeOK
BY FadeInvariance, PTL DEF TypeInv

-----------------------------------------------------------------------------
(* What is heard.                                                          *)

\* The channels the program is about to send their volumes.
Loops == {"send", "store", "tell", "level", "play"}
Pending == IF at \in Loops THEN todo ELSE IF at = "mixer" THEN Rerouted ELSE {}

\* A channel sounds as it should.
Heard(c) == c \notin Kept => sent[c] = Level(chan[c], user[c], total)
Known(c) == c \in Rerouted => told[c] = Remote(chan[c], user[c], total)

\* What the program holds for the channel it is at, if no interrupt has made it old.
HeldRight ==
    /\ at \in {"tell", "level"} => arg = chan[Current]
    /\ at = "tell" => value = Remote(chan[Current], user[Current], total)
    /\ at = "play" => value = Level(chan[Current], user[Current], total)
    /\ at \in {"level", "play"} => Known(Current)

\* What is heard agrees, but for what the program is about to send and what is old.
AgreeInv ==
    /\ \A c \in Channel \ (crossed \cup Pending) : Heard(c) /\ Known(c)
    /\ (hasMixer /\ Mixer \notin crossed) => (IF at = "mixer" THEN arg ELSE mixer) = total
    /\ at = "mixer" => hasMixer
    /\ at \in {"tell", "level"} => Current \in Rerouted
    /\ at \in {"level", "play"} => Current \notin Kept
    /\ (at \in {"tell", "level", "play"} /\ Current \notin crossed) => HeldRight

\* What a channel is sent depends on the card only by the mixer ...
LEMMA LevelKept ==
    ASSUME hasMixer' = hasMixer
    PROVE  \A v, u, t : Level(v, u, t)' = Level(v, u, t)
BY DEF Level

LEMMA RemoteKept == \A v, u, t : Remote(v, u, t)' = Remote(v, u, t)
BY DEF Remote

\* ... and with one, not by the volume of the song.
LEMMA LevelMixer ==
    ASSUME hasMixer PROVE \A v, u, s, t : Level(v, u, s) = Level(v, u, t)
BY DEF Level

\* A step that sends nothing and holds nothing.
LEMMA AgreeCalm ==
    ASSUME AgreeInv, UNCHANGED <<hasMixer, total, chan, user, mixer, sent, told>>,
           Pending \subseteq crossed' \cup Pending', crossed \subseteq crossed' \cup Pending',
           Mixer \in crossed' \/ (Mixer \notin crossed /\ at # "mixer"),
           at' \notin {"mixer", "tell", "level", "play"}
    PROVE  AgreeInv'
<1>1. \A c \in Channel : (Heard(c) => Heard(c)') /\ (Known(c) => Known(c)')
  BY LevelKept, RemoteKept DEF Heard, Known
<1>2. QED BY <1>1 DEF AgreeInv

\* At first every volume is to be set yet.
LEMMA InitAgreeInv == Init => AgreeInv
BY DEF Init, AgreeInv, Idle, Pending, Loops

\* _MIDI_SetChannelVolume and MIDI_SetVolume.
LEMMA SetVolumeAgreeInv == TypeInv /\ FadeInv /\ AgreeInv /\ SetVolumeStep => AgreeInv'
<1> SUFFICES ASSUME TypeInv, FadeInv, AgreeInv, SetVolumeStep PROVE AgreeInv'
    OBVIOUS
<1>0. Mixer \notin Channel /\ Kept \subseteq Rerouted /\ Rerouted \subseteq Channel
      BY ConstantsAssumption DEF Mixer
<1>a. /\ DOMAIN chan = Channel /\ DOMAIN told = Channel /\ DOMAIN sent = Channel
      BY DEF TypeInv, TypeOK
<1>b. hasMixer' = hasMixer
      BY DEF SetVolumeStep, StoreTotal, SetMixer, SendNext, StoreChannelVolume, Tell,
             ChannelLevel, ControlChange, device
<1>1. CASE StoreTotal
  <2>1. /\ at = "total" /\ total' = arg /\ crossed' = crossed \ {Mixer}
        /\ UNCHANGED <<hasMixer, chan, user, mixer, sent, told>>
        BY <1>1 DEF StoreTotal, device
  <2>2. CASE hasMixer
    <3>1. at' = "mixer" /\ arg' = arg
          BY <1>1, <2>2 DEF StoreTotal
    <3>2. ASSUME NEW c \in Channel \ (crossed' \cup Rerouted) PROVE Heard(c)' /\ Known(c)'
      <4>1. Heard(c)
            BY <1>0, <2>1, <3>2 DEF AgreeInv, Pending, Loops
      <4>2. Level(chan[c], user[c], total)' = Level(chan[c], user[c], total)
            BY <2>1, <2>2, LevelKept, LevelMixer
      <4>3. QED BY <2>1, <3>2, <4>1, <4>2 DEF Heard, Known
    <3>3. Pending' = Rerouted
          BY <3>1 DEF Pending, Loops
    <3>4. QED BY <2>1, <2>2, <3>1, <3>2, <3>3 DEF AgreeInv
  <2>3. CASE ~hasMixer
    <3>1. at' = "send" /\ Pending' = Channel
          BY <1>1, <2>3 DEF StoreTotal, Send, Pending, Loops
    <3>2. QED BY <2>1, <2>3, <3>1 DEF AgreeInv
  <2>4. QED BY <2>2, <2>3
<1>2. CASE SetMixer
  <2>1. /\ at = "mixer" /\ at' = "send" /\ mixer' = arg /\ Pending = Rerouted
        /\ Pending' = Rerouted
        /\ UNCHANGED <<hasMixer, total, chan, user, sent, told, crossed>>
        BY <1>2 DEF SetMixer, Send, Pending, Loops, device
  <2>2. \A c \in Channel : (Heard(c) => Heard(c)') /\ (Known(c) => Known(c)')
        BY <2>1, LevelKept, RemoteKept DEF Heard, Known
  <2>3. QED BY <2>1, <2>2 DEF AgreeInv
<1>3. CASE SendNext
  <2>1. /\ at = "send" /\ Pending = todo /\ todo' = todo
        /\ UNCHANGED <<hasMixer, total, chan, user, mixer, sent, told>>
        BY <1>3 DEF SendNext, Pending, Loops, device, volumes
  <2>2. CASE todo = {}
    <3>1. at' \in AfterSending /\ crossed' = crossed
          BY <1>3, <2>2 DEF SendNext, FadeInv, GoesOnRight, Stopping
    <3>2. QED BY <2>1, <2>2, <3>1, AgreeCalm DEF AfterSending, Idle
  <2>3. CASE todo # {}
    <3>1. Current \in todo /\ Current \in Channel
          BY <2>3, CurrentIn DEF TypeInv
    <3>2. at' = "store" /\ crossed' = crossed \ {Current}
          BY <1>3, <2>3 DEF SendNext
    <3>3. Pending' = todo
          BY <2>1, <3>2 DEF Pending, Loops
    <3>4. QED BY <1>0, <2>1, <3>1, <3>2, <3>3, AgreeCalm
  <2>4. QED BY <2>2, <2>3
<1>4. CASE StoreChannelVolume
  <2>1. /\ at = "store" /\ todo' = todo /\ chan' = [chan EXCEPT ![Current] = arg]
        /\ Pending = todo /\ at' \in {"tell", "play"}
        /\ UNCHANGED <<hasMixer, total, user, mixer, sent, told, crossed>>
        BY <1>4 DEF StoreChannelVolume, device, Pending, Loops
  <2>2. Current \in todo /\ Current \in Channel
        BY <2>1, CurrentIn DEF TypeInv, HoldsChannel
  <2>3. Pending' = todo /\ Current' = Current
        BY <2>1 DEF Pending, Loops, Current
  <2>k. PICK k : k = Current
        OBVIOUS
  <2>4. /\ k \in todo /\ k \in Channel /\ Current' = k /\ chan' = [chan EXCEPT ![k] = arg]
        /\ (IF k \in Rerouted
            THEN at' = "tell" /\ value' = Remote(arg, user[k], total) /\ arg' = arg
            ELSE at' = "play" /\ value' = Level(arg, user[k], total))
        BY <2>k, <1>4, <2>1, <2>2, <2>3 DEF StoreChannelVolume
  <2>5. \A c \in Channel \ {k} : (Heard(c) => Heard(c)') /\ (Known(c) => Known(c)')
        BY <1>a, <2>1, <2>4, LevelKept, RemoteKept DEF Heard, Known
  <2>6. chan'[k] = arg
        BY <1>a, <2>4
  <2>7. HeldRight'
        BY <1>b, <2>1, <2>4, <2>6, LevelKept, RemoteKept DEF HeldRight, Known
  <2>8. QED BY <1>0, <2>1, <2>3, <2>4, <2>5, <2>7 DEF AgreeInv
<1>5. CASE Tell
  <2>1. /\ at = "tell" /\ told' = [told EXCEPT ![Current] = value] /\ Pending = todo
        /\ UNCHANGED <<hasMixer, total, chan, user, mixer, sent, crossed>>
        BY <1>5 DEF Tell, device, Pending, Loops
  <2>2. Current \in todo /\ Current \in Channel
        BY <2>1, CurrentIn DEF TypeInv, HoldsChannel
  <2>k. PICK k : k = Current
        OBVIOUS
  <2>3. /\ k \in todo /\ k \in Channel /\ told' = [told EXCEPT ![k] = value]
        /\ k \in Rerouted
        /\ k \notin crossed => value = Remote(chan[k], user[k], total) /\ arg = chan[k]
        BY <2>k, <2>1, <2>2 DEF AgreeInv, HeldRight
  <2>4. /\ k \in Kept => at' = "send" /\ todo' = todo \ {k}
        /\ k \notin Kept => at' = "level" /\ todo' = todo /\ arg' = arg
        BY <2>k, <1>5 DEF Tell, Send
  <2>5. k \notin Kept => Current' = k
        BY <2>k, <2>4 DEF Current
  <2>6. \A c \in Channel : /\ Heard(c) => Heard(c)'
                           /\ c # k => (Known(c) => Known(c)')
        BY <1>a, <2>1, <2>3, LevelKept, RemoteKept DEF Heard, Known
  <2>7. k \notin crossed => Known(k)'
        BY <1>a, <2>1, <2>3, RemoteKept DEF Known
  <2>8. CASE k \in Kept
    <3>1. Pending' = todo \ {k} /\ Heard(k)'
          BY <2>4, <2>8 DEF Pending, Loops, Heard
    <3>2. ASSUME NEW c \in Channel, c \notin crossed' \cup Pending'
          PROVE  Heard(c)' /\ Known(c)'
      <4>1. CASE c = k
            BY <2>1, <2>7, <3>1, <3>2, <4>1
      <4>2. CASE c # k
        <5>1. Heard(c) /\ Known(c)
              BY <2>1, <3>1, <3>2, <4>2 DEF AgreeInv
        <5>2. QED BY <2>6, <4>2, <5>1
      <4>3. QED BY <4>1, <4>2
    <3>3. QED BY <2>1, <2>4, <2>8, <3>2 DEF AgreeInv
  <2>9. CASE k \notin Kept
    <3>1. Pending' = todo
          BY <2>4, <2>9 DEF Pending, Loops
    <3>2. ASSUME NEW c \in Channel, c \notin crossed' \cup Pending'
          PROVE  Heard(c)' /\ Known(c)'
      <4>1. Heard(c) /\ Known(c) /\ c # k
            BY <2>1, <2>3, <3>1, <3>2 DEF AgreeInv
      <4>2. QED BY <2>6, <4>1
    <3>3. Current' \notin crossed' => HeldRight'
      <4>1. SUFFICES ASSUME k \notin crossed PROVE HeldRight'
            BY <2>1, <2>5, <2>9
      <4>2. /\ at' = "level" /\ arg' = chan'[Current'] /\ Known(Current)'
            BY <2>1, <2>3, <2>4, <2>5, <2>7, <2>9, <4>1 DEF Known
      <4>3. QED BY <4>2 DEF HeldRight
    <3>4. QED BY <2>1, <2>3, <2>4, <2>5, <2>9, <3>2, <3>3 DEF AgreeInv
  <2>10. QED BY <2>8, <2>9
<1>6. CASE ChannelLevel
  <2>1. /\ at = "level" /\ at' = "play" /\ Pending = todo /\ todo' = todo
        /\ value' = Level(arg, user[Current], total)
        /\ UNCHANGED <<hasMixer, total, chan, user, mixer, sent, told, crossed>>
        BY <1>6 DEF ChannelLevel, device, volumes, Pending, Loops
  <2>2. Pending' = todo /\ Current' = Current
        BY <2>1 DEF Pending, Loops, Current
  <2>3. \A c : (Heard(c) => Heard(c)') /\ (Known(c) => Known(c)')
        BY <2>1, LevelKept, RemoteKept DEF Heard, Known
  <2>4. Current \notin crossed => HeldRight'
    <3>k. PICK k : k = Current
          OBVIOUS
    <3>1. SUFFICES ASSUME k \notin crossed PROVE HeldRight'
          BY <3>k
    <3>2. Current' = k /\ Known(k) /\ arg = chan[k] /\ value' = Level(arg, user[k], total)
          BY <3>k, <2>1, <2>2, <3>1 DEF AgreeInv, HeldRight
    <3>3. value' = Level(chan[k], user[k], total)'
          BY <2>1, <3>2, LevelKept
    <3>4. Known(k)'
          BY <2>3, <3>2
    <3>5. QED BY <2>1, <3>2, <3>3, <3>4 DEF HeldRight, Known
  <2>5. QED BY <2>1, <2>2, <2>3, <2>4 DEF AgreeInv
<1>7. CASE ControlChange
  <2>1. /\ at = "play" /\ sent' = [sent EXCEPT ![Current] = value] /\ Pending = todo
        /\ at' = "send" /\ todo' = todo \ {Current}
        /\ UNCHANGED <<hasMixer, total, chan, user, mixer, told, crossed>>
        BY <1>7 DEF ControlChange, Send, device, Pending, Loops
  <2>2. Current \in todo /\ Current \in Channel
        BY <2>1, CurrentIn DEF TypeInv, HoldsChannel
  <2>k. PICK k : k = Current
        OBVIOUS
  <2>3. /\ k \in todo /\ k \in Channel /\ sent' = [sent EXCEPT ![k] = value]
        /\ todo' = todo \ {k}
        /\ k \notin crossed => value = Level(chan[k], user[k], total) /\ Known(k)
        BY <2>k, <2>1, <2>2 DEF AgreeInv, HeldRight
  <2>4. Pending' = todo \ {k}
        BY <2>1, <2>3 DEF Pending, Loops
  <2>5. \A c \in Channel : /\ Known(c) => Known(c)'
                           /\ c # k => (Heard(c) => Heard(c)')
        BY <1>a, <2>1, <2>3, LevelKept, RemoteKept DEF Heard, Known
  <2>6. k \notin crossed => Heard(k)'
        BY <1>a, <2>1, <2>3, LevelKept DEF Heard
  <2>7. ASSUME NEW c \in Channel, c \notin crossed' \cup Pending'
        PROVE  Heard(c)' /\ Known(c)'
    <3>1. CASE c = k
          BY <2>1, <2>3, <2>4, <2>5, <2>6, <2>7, <3>1
    <3>2. CASE c # k
      <4>1. Heard(c) /\ Known(c)
            BY <2>1, <2>4, <2>7, <3>2 DEF AgreeInv
      <4>2. QED BY <2>5, <3>2, <4>1
    <3>3. QED BY <3>1, <3>2
  <2>8. QED BY <2>1, <2>7 DEF AgreeInv
<1> QED
    BY <1>1, <1>2, <1>3, <1>4, <1>5, <1>6, <1>7 DEF SetVolumeStep

\* Songs and seeks.
LEMMA SongAgreeInv == TypeInv /\ FadeInv /\ AgreeInv /\ (SongStep \/ Seeks) => AgreeInv'
<1> SUFFICES ASSUME TypeInv, FadeInv, AgreeInv, SongStep \/ Seeks PROVE AgreeInv'
    OBVIOUS
<1>0. Mixer \notin Channel
      BY ConstantsAssumption DEF Mixer
<1>1. CASE MIDI_StopSong
  <2>1. /\ at = "stopSong" /\ UNCHANGED <<hasMixer, total, mixer, crossed>>
        /\ UNCHANGED <<user, sent, told>>
        BY <1>1 DEF MIDI_StopSong, device
  <2>2. CASE loaded
    <3>1. at' = "send" /\ Pending' = Channel
          BY <1>1, <2>2 DEF MIDI_StopSong, Reset, Send, Pending, Loops
    <3>2. QED BY <2>1, <3>1 DEF AgreeInv
  <2>3. CASE ~loaded
    <3>1. at' = Idle /\ chan' = chan /\ Pending = {}
          BY <1>1, <2>1, <2>3 DEF MIDI_StopSong, Pending, Loops
    <3>2. QED BY <2>1, <3>1, AgreeCalm DEF Idle
  <2>4. QED BY <2>2, <2>3
<1>2. CASE MIDI_PlaySong
  <2>1. /\ at = "playSong" /\ Pending = {} /\ total' = GetVolume
        /\ UNCHANGED <<hasMixer, mixer, user, sent, told>>
        /\ \A c \in Channel : c \notin crossed' =>
              c \notin crossed /\ (c \in Rerouted => total' = total)
        /\ hasMixer /\ Mixer \notin crossed' => total' = mixer
        BY <1>0, <1>2 DEF MIDI_PlaySong, device, Pending, Loops
  <2>2. CASE cleared
    <3>1. at' = "startSong" /\ Pending' = {} /\ chan' = chan
          BY <1>2, <2>2 DEF MIDI_PlaySong, Pending, Loops
    <3>2. ASSUME NEW c \in Channel, c \notin crossed' PROVE Heard(c)' /\ Known(c)'
      <4>1. Heard(c) /\ Known(c)
            BY <2>1, <3>2 DEF AgreeInv
      <4>2. Known(c)'
            BY <2>1, <3>1, <3>2, <4>1, RemoteKept DEF Known
      <4>3. Level(chan[c], user[c], total)' = Level(chan[c], user[c], total)
        <5>1. CASE hasMixer
              BY <2>1, <3>1, <5>1, LevelKept, LevelMixer
        <5>2. CASE ~hasMixer
              BY <2>1, <3>1, <5>2, LevelKept DEF GetVolume
        <5>3. QED BY <5>1, <5>2
      <4>4. QED BY <2>1, <4>1, <4>2, <4>3 DEF Heard
    <3>3. QED BY <2>1, <3>1, <3>2 DEF AgreeInv
  <2>3. CASE ~cleared
    <3>1. at' = "send" /\ Pending' = Channel
          BY <1>2, <2>3 DEF MIDI_PlaySong, Reset, Send, Pending, Loops
    <3>2. QED BY <2>1, <3>1 DEF AgreeInv
  <2>4. QED BY <2>2, <2>3
<1>3. CASE StartSong \/ SeekDone \/ SeekEnded \/ MIDI_ContinueSong
  <2>1. /\ at' \in {Idle, "total"} /\ Pending = {} /\ at # "mixer"
        /\ UNCHANGED <<hasMixer, total, chan, user, mixer, sent, told, crossed>>
        BY <1>3 DEF StartSong, SeekDone, SeekEnded, MIDI_ContinueSong, device, volumes,
                    Pending, Loops
  <2>2. QED BY <2>1, AgreeCalm DEF Idle
<1>4. CASE Seeks
  <2>1. PICK c \in Channel, v \in SongVolumes : SeekEvent(c, v)
        BY <1>4 DEF Seeks
  <2>2. /\ at = "seek" /\ at' = "store" /\ Pending = {} /\ Pending' = {c}
        /\ crossed' = crossed \ {c}
        /\ UNCHANGED <<hasMixer, total, chan, user, mixer, sent, told>>
        BY <2>1 DEF SeekEvent, device, volumes, Pending, Loops
  <2>3. QED BY <1>0, <2>2, AgreeCalm
<1> QED
    BY <1>1, <1>2, <1>3, <1>4 DEF SongStep

\* The steps of the calls that begin and end a fade set no volume.
LEMMA FadeStepAgreeInv == FadeInv /\ AgreeInv /\ FadeStep => AgreeInv'
<1> SUFFICES ASSUME FadeInv, AgreeInv, FadeStep PROVE AgreeInv'
    OBVIOUS
<1>1. /\ Pending = {} /\ at # "mixer"
      /\ UNCHANGED <<hasMixer, total, chan, user, mixer, sent, told, crossed>>
      BY DEF FadeStep, SetFade, ScheduleFade, DispatchFade, StopFadeTest, TerminateFade,
             ForgetFade, device, volumes, Pending, Loops
<1>2. at' \in {"schedule", "dispatch", "terminate", "forget"} \cup AfterStopping
      BY DEF FadeStep, SetFade, ScheduleFade, DispatchFade, StopFadeTest, TerminateFade,
             ForgetFade, FadeInv, GoesOnRight, Stopping, AfterStopping, Idle
<1> QED
    BY <1>1, <1>2, AgreeCalm DEF AfterStopping, Idle

\* A call that changes the volumes the program asks for goes on to send them.
LEMMA CallAgreeInv == TypeInv /\ AgreeInv /\ Call => AgreeInv'
<1> SUFFICES ASSUME TypeInv, AgreeInv, Call PROVE AgreeInv'
    OBVIOUS
<1>1. CASE \/ \E v \in Volumes : MUSIC_SetVolume(v)
           \/ MUSIC_PlaySong \/ MUSIC_StopSong \/ MUSIC_StopFade
           \/ \E v \in Volumes, n \in Lengths : MUSIC_FadeVolume(v, n)
  <2>1. /\ Pending = {} /\ at # "mixer"
        /\ UNCHANGED <<hasMixer, total, chan, user, mixer, sent, told, crossed>>
        /\ at' \in {"total", "stopSong", "playSong", "stopFade", "fade"}
        BY <1>1 DEF MUSIC_SetVolume, MUSIC_PlaySong, MUSIC_StopSong, MUSIC_StopFade,
           MUSIC_FadeVolume, device, volumes, Pending, Loops, Idle
  <2>2. QED BY <2>1, AgreeCalm
<1>2. CASE \E c \in Channel, v \in UserVolumes : MIDI_SetUserChannelVolume(c, v)
  <2>1. PICK c \in Channel, v \in UserVolumes : MIDI_SetUserChannelVolume(c, v)
        BY <1>2
  <2>2. /\ Pending = {} /\ at # "mixer" /\ at' = "send" /\ Pending' = {c}
        /\ user' = [user EXCEPT ![c] = Clamp(v, Full)] /\ user \in [Channel -> 0..Full]
        /\ UNCHANGED <<hasMixer, total, chan, mixer, sent, told, crossed>>
        BY <2>1 DEF MIDI_SetUserChannelVolume, Send, device, Pending, Loops, Idle, TypeInv,
                    TypeOK
  <2>3. \A d \in Channel \ {c} : (Heard(d) => Heard(d)') /\ (Known(d) => Known(d)')
        BY <2>2, LevelKept, RemoteKept DEF Heard, Known
  <2>4. QED BY <2>2, <2>3 DEF AgreeInv
<1>3. CASE MIDI_ResetUserChannelVolume
  <2>1. /\ at # "mixer" /\ at' = "send" /\ Pending' = Channel
        /\ UNCHANGED <<hasMixer, total, mixer, crossed>>
        BY <1>3 DEF MIDI_ResetUserChannelVolume, Send, device, Pending, Loops, Idle
  <2>2. QED BY <2>1 DEF AgreeInv
<1>4. CASE \E back \in BOOLEAN : MIDI_SetSong(back)
  <2>1. PICK back \in BOOLEAN : MIDI_SetSong(back)
        BY <1>4
  <2>2. /\ Pending = {} /\ at # "mixer"
        /\ UNCHANGED <<hasMixer, total, user, mixer, sent, told, crossed>>
        BY <2>1 DEF MIDI_SetSong, device, Pending, Loops, Idle
  <2>3. CASE back
    <3>1. at' = "send" /\ Pending' = Channel
          BY <2>1, <2>3 DEF MIDI_SetSong, Reset, Send, Pending, Loops
    <3>2. QED BY <2>2, <3>1 DEF AgreeInv
  <2>4. CASE ~back
    <3>1. at' = "seek" /\ chan' = chan
          BY <2>1, <2>4 DEF MIDI_SetSong
    <3>2. QED BY <2>2, <3>1, AgreeCalm
  <2>5. QED BY <2>3, <2>4
<1> QED
    BY <1>1, <1>2, <1>3, <1>4 DEF Call

\* The interrupt sets volumes in one step; what the program has read before is old, and
\* what it has stored is not.
LEMMA InterruptAgreeInv == TypeInv /\ AgreeInv /\ Interrupt => AgreeInv'
<1> SUFFICES ASSUME TypeInv, AgreeInv, Interrupt PROVE AgreeInv'
    OBVIOUS
<1>0. Mixer \notin Channel /\ Kept \subseteq Rerouted /\ Rerouted \subseteq Channel
      BY ConstantsAssumption DEF Mixer
<1>1. ASSUME NEW t \in Task, FadeRoutine(t) PROVE AgreeInv'
  <2>1. UNCHANGED <<hasMixer, chan, user, at, todo, arg, value>>
        BY <1>1 DEF FadeRoutine, device, call
  <2>2. Pending' = Pending /\ Current' = Current
        BY <2>1 DEF Pending, Current
  <2>3. CASE UNCHANGED <<total, mixer, told, sent, crossed>>
    <3>1. \A c : (Heard(c) => Heard(c)') /\ (Known(c) => Known(c)')
          BY <2>1, <2>3, LevelKept, RemoteKept DEF Heard, Known
    <3>2. HeldRight => HeldRight'
          BY <2>1, <2>2, <2>3, <3>1, LevelKept, RemoteKept DEF HeldRight
    <3>3. QED BY <2>1, <2>2, <2>3, <3>1, <3>2 DEF AgreeInv
  <2>4. CASE SetVolumeNow
    <3> DEFINE channels == IF hasMixer THEN Rerouted ELSE Channel
               old == IF at \in {"mixer", "tell", "play"} THEN Held ELSE {}
    <3>1. /\ mixer' = IF hasMixer THEN total' ELSE mixer
          /\ \A c \in channels : c \in Rerouted
                  => told'[c] = Remote(chan[c], user[c], total')
          /\ \A c \in channels \ Kept : sent'[c] = Level(chan[c], user[c], total')
          /\ \A c \in Channel \ channels : sent'[c] = sent[c]
          /\ crossed' = (crossed \ ((channels \cup {Mixer}) \ Held)) \cup old
          BY <1>0, <2>4 DEF SetVolumeNow
    <3>2. channels \subseteq Channel /\ Rerouted \subseteq channels
          BY <1>0
    <3>3. \A c \in channels : Heard(c)' /\ Known(c)'
          BY <2>1, <3>1, LevelKept, RemoteKept DEF Heard, Known
    <3>4. ASSUME NEW c \in Channel \ channels,
                 c \notin crossed' \cup Pending' PROVE Heard(c)' /\ Known(c)'
      <4>1. hasMixer /\ c \notin Rerouted /\ c \notin crossed
            BY <1>0, <3>1, <3>4
      <4>2. Heard(c)
            BY <2>2, <3>4, <4>1 DEF AgreeInv
      <4>3. Level(chan[c], user[c], total)' = Level(chan[c], user[c], total)
            BY <2>1, <4>1, LevelKept, LevelMixer
      <4>4. QED BY <3>1, <3>4, <4>1, <4>2, <4>3 DEF Heard, Known
    <3>5. hasMixer /\ Mixer \notin crossed' => at # "mixer" /\ mixer' = total'
          BY <3>1 DEF Held
    <3>6. ASSUME at \in {"tell", "level", "play"}, Current \notin crossed'
          PROVE  HeldRight'
      <4>1. Held = {Current}
            BY <3>6 DEF Held
      <4>2. at = "level" /\ Current \notin crossed
            BY <3>1, <3>6, <4>1
      <4>3. Current \in Rerouted /\ arg = chan[Current]
            BY <4>2 DEF AgreeInv, HeldRight
      <4>4. Known(Current)'
        <5>k. PICK k : k = Current
              OBVIOUS
        <5>1. k \in channels /\ Current' = k
              BY <5>k, <2>2, <3>2, <4>3
        <5>2. Known(k)'
              BY <3>3, <5>1
        <5>3. QED BY <5>1, <5>2 DEF Known
      <4>5. QED BY <2>1, <2>2, <4>2, <4>3, <4>4 DEF HeldRight
    <3> HIDE DEF channels, old
    <3>7. \A c \in Channel \ (crossed' \cup Pending') : Heard(c)' /\ Known(c)'
          BY <3>3, <3>4
    <3>8. QED BY <2>1, <2>2, <3>5, <3>6, <3>7 DEF AgreeInv
  <2>5. QED BY <1>1, <2>3, <2>4 DEF FadeRoutine
<1>2. ASSUME NEW c \in Channel, NEW v \in SongVolumes, SongVolume(c, v) PROVE AgreeInv'
  <2>1. /\ UNCHANGED <<hasMixer, total, user, mixer, at, todo, arg, value>>
        /\ chan' = [chan EXCEPT ![c] = v]
        /\ told' = IF c \notin Rerouted THEN told
                   ELSE [told EXCEPT ![c] = Remote(v, user[c], total)]
        /\ sent' = IF c \in Kept THEN sent
                   ELSE [sent EXCEPT ![c] = Level(v, user[c], total)]
        /\ crossed' = IF c \in Held THEN crossed \cup {c} ELSE crossed \ {c}
        BY <1>2 DEF SongVolume, device, call
  <2>2. Pending' = Pending /\ Current' = Current
        BY <2>1 DEF Pending, Current
  <2>3. DOMAIN chan = Channel /\ DOMAIN told = Channel /\ DOMAIN sent = Channel
        BY DEF TypeInv, TypeOK
  <2>4. Heard(c)' /\ Known(c)'
    <3>1. /\ chan'[c] = v /\ (c \in Rerouted => told'[c] = Remote(v, user[c], total))
          /\ (c \notin Kept => sent'[c] = Level(v, user[c], total))
          BY <2>1, <2>3
    <3>2. QED BY <2>1, <3>1, LevelKept, RemoteKept DEF Heard, Known
  <2>5. \A d \in Channel \ {c} : (Heard(d) => Heard(d)') /\ (Known(d) => Known(d)')
    <3>1. \A d \in Channel \ {c} :
              chan'[d] = chan[d] /\ told'[d] = told[d] /\ sent'[d] = sent[d]
          BY <2>1, <2>3
    <3>2. QED BY <2>1, <3>1, LevelKept, RemoteKept DEF Heard, Known
  <2>6. \A d \in Channel \ (crossed' \cup Pending') : Heard(d)' /\ Known(d)'
    <3>1. \A d \in Channel \ {c} : d \notin crossed' => d \notin crossed
          BY <2>1
    <3>2. QED BY <2>2, <2>4, <2>5, <3>1 DEF AgreeInv
  <2>7. Mixer \in crossed' <=> Mixer \in crossed
        BY <1>0, <2>1
  <2>8. ASSUME at \in {"tell", "level", "play"}, Current \notin crossed'
        PROVE  HeldRight'
    <3>k. PICK k : k = Current
          OBVIOUS
    <3>1. k \in Held /\ k \in Channel /\ Current' = k /\ k \notin crossed'
          BY <3>k, <2>2, <2>8, CurrentIn DEF Held, TypeInv, HoldsChannel
    <3>2. k # c /\ k \notin crossed
          BY <3>k, <2>1, <3>1
    <3>3. /\ at \in {"tell", "level"} => arg = chan[k]
          /\ at = "tell" => value = Remote(chan[k], user[k], total)
          /\ at = "play" => value = Level(chan[k], user[k], total)
          /\ at \in {"level", "play"} => Known(k)
          BY <3>k, <2>8, <3>2 DEF AgreeInv, HeldRight
    <3>4. chan'[k] = chan[k] /\ (Known(k) => Known(k)')
          BY <2>1, <2>3, <2>5, <3>1, <3>2
    <3>5. QED BY <2>1, <3>1, <3>3, <3>4, LevelKept, RemoteKept DEF HeldRight, Known
  <2>9. QED BY <2>1, <2>2, <2>6, <2>7, <2>8 DEF AgreeInv
<1> QED
    BY <1>1, <1>2 DEF Interrupt, FadeTick

\* Every channel is as loud as the song, the program and the volume of the song make it,
\* at the card and at the program's own function, and the mixer is set to the volume of
\* the song: after any calls, and with a fade and a song that interrupt them anywhere.
THEOREM VolumesCorrect == Spec => []VolumesAgree
<1>1. AgreeInv /\ UNCHANGED vars => AgreeInv'
  <2> SUFFICES ASSUME AgreeInv, UNCHANGED vars PROVE AgreeInv'
      OBVIOUS
  <2>1. UNCHANGED <<hasMixer, total, chan, user, mixer, sent, told, at, todo, arg, value,
                    crossed>>
        BY DEF vars, device, volumes, call
  <2>2. Pending' = Pending /\ Current' = Current
        BY <2>1 DEF Pending, Current
  <2>3. \A c : (Heard(c) => Heard(c)') /\ (Known(c) => Known(c)')
        BY <2>1, LevelKept, RemoteKept DEF Heard, Known
  <2>4. HeldRight => HeldRight'
        BY <2>1, <2>2, <2>3, LevelKept, RemoteKept DEF HeldRight
  <2>5. QED BY <2>1, <2>2, <2>3, <2>4 DEF AgreeInv
<1>2. FadeInv /\ TypeInv /\ AgreeInv /\ [Next]_vars => AgreeInv'
      BY <1>1, SetVolumeAgreeInv, SongAgreeInv, FadeStepAgreeInv, CallAgreeInv,
         InterruptAgreeInv DEF Next, Program
<1>3. AgreeInv => VolumesAgree
      BY DEF AgreeInv, VolumesAgree, Heard, Known, Idle, Pending, Loops
<1> QED
    BY InitAgreeInv, <1>2, <1>3, FadeInvariance, PTL DEF Spec

-----------------------------------------------------------------------------
(* Quotients.                                                              *)

\* Fewer times a number is less by that number at least.
LEMMA ProductOrder ==
    ASSUME NEW a \in Int, NEW b \in Int, NEW p \in Nat \ {0}, a < b
    PROVE  a * p + p <= b * p
<1>1. b - a - 1 \in Nat
  OBVIOUS
<1>2. (b - a - 1) * p \in Nat
  BY <1>1, Products
<1>3. (b - a - 1) * p = b * p - a * p - p
  OBVIOUS
<1>4. a * p \in Int /\ b * p \in Int
  BY IntProducts
<1>5. QED BY <1>2, <1>3, <1>4

\* The quotient is the one number with the dividend between its multiple and the next.
LEMMA QuotientIs ==
    ASSUME NEW a \in Int, NEW q \in Int, NEW p \in Nat \ {0}, q * p <= a, a < q * p + p
    PROVE  a \div p = q
<1> DEFINE d == a \div p
<1>1. d \in Int /\ d * p <= a /\ a < d * p + p
  BY IntQuotients
<1> HIDE DEF d
<1>2. d * p \in Int /\ q * p \in Int
  BY <1>1, IntProducts
<1>3. ~(d < q)
  BY <1>1, <1>2, ProductOrder
<1>4. ~(q < d)
  BY <1>1, <1>2, ProductOrder
<1>5. d = q
  BY <1>1, <1>3, <1>4
<1>6. QED BY <1>5 DEF d

\* Quotients grow with the dividend.
LEMMA QuotientOrder ==
    ASSUME NEW a \in Int, NEW b \in Int, NEW p \in Nat \ {0}, a <= b
    PROVE  a \div p <= b \div p
<1> DEFINE d == a \div p
           e == b \div p
<1>1. d \in Int /\ d * p <= a /\ e \in Int /\ b < e * p + p
  BY IntQuotients
<1> HIDE DEF d, e
<1>2. d * p \in Int /\ e * p \in Int
  BY <1>1, IntProducts
<1>3. ~(e < d)
  BY <1>1, <1>2, ProductOrder
<1>4. d <= e
  BY <1>1, <1>3
<1>5. QED BY <1>4 DEF d, e

\* A dividend that grows by r grows the quotient by that of r or one more.
LEMMA QuotientGrows ==
    ASSUME NEW a \in Int, NEW r \in Nat, NEW p \in Nat \ {0}
    PROVE  (a + r) \div p <= (a \div p) + (r \div p) + 1
<1> DEFINE d == a \div p
           e == (a + r) \div p
           f == r \div p
<1>1. /\ d \in Int /\ a < d * p + p /\ e \in Int /\ e * p <= a + r
      /\ f \in Int /\ r < f * p + p
  BY IntQuotients
<1> HIDE DEF d, e, f
<1>2. d * p \in Int /\ e * p \in Int /\ f * p \in Int
  BY <1>1, IntProducts
<1>3. (d + f + 1) * p = d * p + f * p + p /\ (d + f + 1) * p \in Int
  BY <1>1, <1>2
<1>4. ~(d + f + 1 < e)
  <2>1. SUFFICES ASSUME d + f + 1 < e PROVE FALSE
    OBVIOUS
  <2>2. d + f + 1 \in Int
    BY <1>1
  <2>3. (d + f + 1) * p + p <= e * p
    BY <1>1, <2>1, <2>2, ProductOrder
  <2>4. QED BY <1>1, <1>2, <1>3, <2>3
<1>5. e <= d + f + 1
  BY <1>1, <1>4
<1>6. QED BY <1>5 DEF d, e, f

\* Multiples of the divisor.
LEMMA QuotientOfMultiple ==
    ASSUME NEW a \in Int, NEW p \in Nat \ {0}
    PROVE  (a * p) \div p = a
<1>1. a * p \in Int
  BY IntProducts
<1> DEFINE b == a * p
<1>2. b \in Int /\ a * p <= b /\ b < a * p + p
  BY <1>1
<1> HIDE DEF b
<1>3. b \div p = a
  BY <1>2, QuotientIs
<1>4. QED BY <1>3 DEF b

\* One of n more steps up, each of r of p parts, to where rest parts are missing to e.
LEMMA StepUp ==
    ASSUME NEW n \in Nat \ {0}, NEW r \in Nat, NEW v \in Int, NEW e \in Int,
           NEW p \in Nat \ {0}, NEW rest \in Nat, e * p = v + n * r + rest
    PROVE  /\ v \div p <= (v + r) \div p /\ (v + r) \div p <= e
           /\ (v + r) \div p <= (v \div p) + (r \div p) + 1
<1>1. n * r \in Int /\ r <= n * r
  <2>1. (n - 1) * r \in Nat
    BY Products
  <2>2. (n - 1) * r = n * r - r
    OBVIOUS
  <2>3. n * r \in Int
    BY IntProducts
  <2>4. QED BY <2>1, <2>2, <2>3
<1> DEFINE b == e * p
<1>2. b \in Int /\ v + r <= b
  BY <1>1
<1>3. b \div p = e
  BY QuotientOfMultiple
<1> HIDE DEF b
<1>4. (v + r) \div p <= e
  BY <1>2, <1>3, QuotientOrder
<1>5. v \div p <= (v + r) \div p
  BY QuotientOrder
<1>6. QED BY <1>4, <1>5, QuotientGrows

\* The same down.
LEMMA StepDown ==
    ASSUME NEW n \in Nat \ {0}, NEW r \in Nat, NEW v \in Int, NEW e \in Int,
           NEW p \in Nat \ {0}, NEW rest \in Nat, v = e * p + n * r + rest
    PROVE  /\ e <= (v - r) \div p /\ (v - r) \div p <= v \div p
           /\ v \div p <= ((v - r) \div p) + (r \div p) + 1
<1>1. n * r \in Int /\ r <= n * r
  <2>1. (n - 1) * r \in Nat
    BY Products
  <2>2. (n - 1) * r = n * r - r
    OBVIOUS
  <2>3. n * r \in Int
    BY IntProducts
  <2>4. QED BY <2>1, <2>2, <2>3
<1> DEFINE b == e * p
           a == v - r
<1>2. b \in Int /\ b <= v - r /\ a \in Int /\ a <= v /\ a + r = v
  <2>1. e * p \in Int
    BY IntProducts
  <2>2. QED BY <1>1, <2>1
<1>3. b \div p = e
  BY QuotientOfMultiple
<1>4. v - r = a
  OBVIOUS
<1> HIDE DEF a, b
<1>5. e <= a \div p
  BY <1>2, <1>3, <1>4, QuotientOrder
<1>6. a \div p <= v \div p
  BY <1>2, QuotientOrder
<1>7. v \div p <= (a \div p) + (r \div p) + 1
  BY <1>2, QuotientGrows
<1>8. QED BY <1>4, <1>5, <1>6, <1>7

\* The last step.
LEMMA LastStep ==
    ASSUME NEW v \in Int, NEW e \in Int, NEW p \in Nat \ {0}, NEW rest \in 0..(p - 1)
    PROVE  /\ e * p = v + rest => v \div p <= e /\ e <= (v \div p) + 1
           /\ v = e * p + rest => v \div p = e
<1>1. e * p \in Int
  BY IntProducts
<1>2. ASSUME v = e * p + rest PROVE v \div p = e
  <2>1. e * p <= v /\ v < e * p + p
    BY <1>1, <1>2
  <2>2. QED BY <2>1, QuotientIs
<1>3. ASSUME e * p = v + rest PROVE v \div p <= e /\ e <= (v \div p) + 1
  <2>1. (e - 1) * p = e * p - p /\ (e - 1) * p \in Int
    BY <1>1
  <2>2. CASE rest = 0
    <3>1. v \div p = e
      BY <1>1, <1>3, <2>2, QuotientIs
    <3>2. QED BY <3>1
  <2>3. CASE rest # 0
    <3>1. (e - 1) * p <= v /\ v < (e - 1) * p + p /\ e - 1 \in Int
      BY <1>1, <1>3, <2>1, <2>3
    <3>2. v \div p = e - 1
      BY <3>1, QuotientIs
    <3>3. QED BY <3>2
  <2>4. QED BY <2>2, <2>3
<1>4. QED BY <1>2, <1>3

-----------------------------------------------------------------------------
(* The course of a fade.                                                   *)

\* What the fade makes of the volume in the steps that are left, and how far it stays
\* away from the goal then: by less than one, and on the side that it comes from.
Course(n, r, v, e) ==
    \/ \E rest \in 0..(Precision - 1) : r >= 0 /\ e * Precision = v + n * r + rest
    \/ \E rest \in 0..(Precision - 1) : r <= 0 /\ v = e * Precision + n * (-r) + rest

\* A fade that is listed, or about to be, is on its course.
EvenInv ==
    (listed # {} \/ at = "schedule") =>
        /\ fade.last = fade.volume \div Precision
        /\ Course(fade.length, fade.rate, fade.volume, fade.ending)

\* MUSIC_FadeVolume sets out on a course that ends at the goal.
LEMMA SetsCourse ==
    ASSUME NEW from \in Int, NEW to \in Int, NEW n \in 1..Precision
    PROVE  /\ Course(n, Rate(from, to, n), from * Precision, to)
           /\ (from * Precision) \div Precision = from
<1>0. Precision \in Nat \ {0} /\ n \in Nat \ {0} /\ n <= Precision
  BY ConstantsAssumption
<1> DEFINE d == (to - from) * Precision
           a == from * Precision
           b == to * Precision
<1>1. d \in Int /\ a \in Int /\ b \in Int /\ d = b - a /\ -d \in Int
  <2>1. to - from \in Int
    OBVIOUS
  <2>2. d \in Int /\ a \in Int /\ b \in Int
    BY <1>0, <2>1, IntProducts
  <2>3. d = b - a
    BY <1>0
  <2>4. QED BY <2>2, <2>3
<1>2. a \div Precision = from
  BY <1>0, QuotientOfMultiple
<1>3. Rate(from, to, n) = Quotient(d, n)
  BY DEF Rate
<1> HIDE DEF a, b, d
<1>4. CASE d >= 0
  <2> DEFINE q == d \div n
  <2>1. q \in Int /\ q * n <= d /\ d < q * n + n /\ q \in Nat
    BY <1>0, <1>1, <1>4, IntQuotients, Quotients
  <2> HIDE DEF q
  <2>2. q * n \in Int /\ q * n = n * q
    BY <1>0, <2>1, IntProducts
  <2>3. d - q * n \in 0..(Precision - 1) /\ b = a + n * q + (d - q * n)
    BY <1>0, <1>1, <2>1, <2>2
  <2>4. Rate(from, to, n) = q
    BY <1>1, <1>3, <1>4 DEF Quotient, q
  <2>5. Course(n, q, a, to)
    <3>1. q >= 0 /\ to * Precision = a + n * q + (d - q * n)
      BY <2>1, <2>3 DEF b
    <3>2. QED BY <2>3, <3>1 DEF Course
  <2>6. QED BY <1>2, <2>4, <2>5 DEF a
<1>5. CASE d < 0
  <2> DEFINE q == (-d) \div n
  <2>1. q \in Int /\ q * n <= -d /\ -d < q * n + n /\ q \in Nat
    <3>1. -d \in Nat
      BY <1>1, <1>5
    <3>2. QED BY <1>0, <1>1, <3>1, IntQuotients, Quotients
  <2> HIDE DEF q
  <2>2. q * n \in Int /\ q * n = n * q
    BY <1>0, <2>1, IntProducts
  <2>3. (-d) - q * n \in 0..(Precision - 1) /\ a = b + n * q + ((-d) - q * n)
    BY <1>0, <1>1, <2>1, <2>2
  <2>4. Rate(from, to, n) = -q /\ -(-q) = q
    BY <1>3, <1>5, <2>1 DEF Quotient, q
  <2>5. Course(n, -q, a, to)
    <3>1. (-q) <= 0 /\ a = to * Precision + n * (-(-q)) + ((-d) - q * n)
      BY <2>1, <2>3, <2>4 DEF b
    <3>2. QED BY <2>3, <3>1 DEF Course
  <2>6. QED BY <1>2, <2>4, <2>5 DEF a
<1>6. QED BY <1>1, <1>4, <1>5

\* A step keeps the course ...
LEMMA KeepsCourse ==
    ASSUME NEW n \in Nat \ {0}, NEW r \in Int, NEW v \in Int, NEW e \in Int,
           Course(n, r, v, e)
    PROVE  Course(n - 1, r, v + r, e)
<1>1. /\ n * r = r + (n - 1) * r /\ n * (-r) = (-r) + (n - 1) * (-r)
      /\ n * r \in Int /\ n * (-r) \in Int /\ e * Precision \in Int
      /\ (n - 1) * r \in Int /\ (n - 1) * (-r) \in Int /\ Precision \in Nat
  BY IntProducts, ConstantsAssumption
<1>2. ASSUME NEW rest \in 0..(Precision - 1), r >= 0, e * Precision = v + n * r + rest
      PROVE  Course(n - 1, r, v + r, e)
  <2>1. e * Precision = (v + r) + (n - 1) * r + rest
    BY <1>1, <1>2
  <2>2. QED BY <1>2, <2>1 DEF Course
<1>3. ASSUME NEW rest \in 0..(Precision - 1), r <= 0, v = e * Precision + n * (-r) + rest
      PROVE  Course(n - 1, r, v + r, e)
  <2>1. v + r = e * Precision + (n - 1) * (-r) + rest
    BY <1>1, <1>3
  <2>2. QED BY <1>3, <2>1 DEF Course
<1>4. QED BY <1>2, <1>3 DEF Course

\* ... and is even.
LEMMA EvenStep ==
    ASSUME NEW n \in Nat, NEW r \in Int, NEW v \in Int, NEW e \in Int,
           Course(n, r, v, e), NEW new,
           new = IF n = 0 THEN e ELSE (v + r) \div Precision
    PROVE  /\ Between(new, v \div Precision, e)
           /\ Magnitude(new - (v \div Precision)) <= Magnitude(r) \div Precision + 1
<1> DEFINE last == v \div Precision
           most == Magnitude(r) \div Precision
<1>0. Precision \in Nat \ {0}
  BY ConstantsAssumption
<1>1. last \in Int /\ Magnitude(r) \in Nat
  BY <1>0, IntQuotients DEF Magnitude
<1>2. most \in Nat
  BY <1>0, <1>1, Quotients
<1>3. ASSUME NEW rest \in 0..(Precision - 1), r >= 0, e * Precision = v + n * r + rest
      PROVE  last <= new /\ new <= e /\ new <= last + most + 1 /\ new \in Int
  <2>1. rest \in Nat /\ r \in Nat /\ Magnitude(r) = r
    BY <1>0, <1>3 DEF Magnitude
  <2>2. CASE n # 0
    <3>1. new = (v + r) \div Precision /\ new \in Int
      BY <1>0, <2>2, IntQuotients
    <3>2. /\ last <= (v + r) \div Precision /\ (v + r) \div Precision <= e
          /\ (v + r) \div Precision <= last + (r \div Precision) + 1
      BY <1>0, <1>3, <2>1, <2>2, StepUp
    <3>3. QED BY <2>1, <3>1, <3>2
  <2>3. CASE n = 0
    <3>1. e * Precision = v + rest
      BY <1>3, <2>1, <2>3
    <3>2. last <= e /\ e <= last + 1
      BY <1>0, <3>1, LastStep
    <3> HIDE DEF last, most
    <3>3. QED BY <1>1, <1>2, <2>3, <3>2
  <2>4. QED BY <2>2, <2>3
<1>4. ASSUME NEW rest \in 0..(Precision - 1), r <= 0, v = e * Precision + n * (-r) + rest
      PROVE  e <= new /\ new <= last /\ last <= new + most + 1 /\ new \in Int
  <2>1. rest \in Nat /\ -r \in Nat /\ Magnitude(r) = -r /\ v - (-r) = v + r
    BY <1>0, <1>4 DEF Magnitude
  <2>2. CASE n # 0
    <3>1. new = (v + r) \div Precision /\ new \in Int
      BY <1>0, <2>2, IntQuotients
    <3> DEFINE s == -r
    <3>2. s \in Nat /\ v = e * Precision + n * s + rest /\ v - s = v + r
      BY <1>4, <2>1
    <3> HIDE DEF s
    <3>3. /\ e <= (v - s) \div Precision /\ (v - s) \div Precision <= v \div Precision
          /\ v \div Precision <= ((v - s) \div Precision) + (s \div Precision) + 1
      BY <1>0, <2>1, <2>2, <3>2, StepDown
    <3>4. QED BY <2>1, <3>1, <3>2, <3>3 DEF s
  <2>3. CASE n = 0
    <3>1. v = e * Precision + rest
      <4>1. n * (-r) = 0 /\ e * Precision \in Int
        BY <1>0, <2>1, <2>3, IntProducts
      <4>2. QED BY <1>4, <2>1, <4>1
    <3>2. last = e
      BY <1>0, <3>1, LastStep
    <3> HIDE DEF last, most
    <3>3. QED BY <1>1, <1>2, <2>3, <3>2
  <2>4. QED BY <2>2, <2>3
<1> HIDE DEF last, most
<1>5. ASSUME last <= new, new <= e, new <= last + most + 1, new \in Int
      PROVE  Between(new, last, e) /\ Magnitude(new - last) <= most + 1
  BY <1>1, <1>2, <1>5 DEF Between, Magnitude
<1>6. ASSUME e <= new, new <= last, last <= new + most + 1, new \in Int
      PROVE  Between(new, last, e) /\ Magnitude(new - last) <= most + 1
  BY <1>1, <1>2, <1>6 DEF Between, Magnitude
<1>7. Between(new, last, e) /\ Magnitude(new - last) <= most + 1
  BY <1>3, <1>4, <1>5, <1>6 DEF Course
<1>8. QED BY <1>7 DEF last, most

\* A step that does not change the fade, nor begins one.
LEMMA EvenCalm ==
    ASSUME EvenInv, fade' = fade, listed' \subseteq listed \/ at = "schedule",
           at' = "schedule" => at = "schedule"
    PROVE  EvenInv'
BY DEF EvenInv, Course

\* At first there is no fade.
LEMMA InitEvenInv == Init => EvenInv
BY DEF Init, EvenInv, Idle

\* The program: only SetFade sets the fade, when there is none.
LEMMA ProgramEvenInv ==
    ASSUME \A n \in Lengths : n <= Precision
    PROVE  TypeInv /\ FadeInv /\ EvenInv /\ (Program \/ Call) => EvenInv'
<1> SUFFICES ASSUME TypeInv, FadeInv, EvenInv, Program \/ Call PROVE EvenInv'
    OBVIOUS
<1>1. CASE SetFade
  <2>1. /\ at = "fade" /\ value \in Lengths /\ arg \in Int
        BY <1>1, ConstantsAssumption DEF SetFade, TypeInv, RangesInv
  <2>2. value \in 1..Precision
        BY <2>1, ConstantsAssumption
  <2>3. GetVolume \in Int
        BY VolumeGot, ConstantsAssumption DEF TypeInv
  <2> DEFINE from == GetVolume
             r == Rate(from, arg, value)
  <2>4. Course(value, r, from * Precision, arg) /\ (from * Precision) \div Precision = from
    <3>1. from \in Int
          BY <2>3
    <3> HIDE DEF from
    <3>2. QED BY <2>1, <2>2, <3>1, SetsCourse
  <2>5. fade' = [length |-> value, rate |-> r, last |-> from,
                 volume |-> from * Precision, ending |-> arg]
        BY <1>1 DEF SetFade
  <2> HIDE DEF r, from
  <2>6. /\ fade'.length = value /\ fade'.rate = r /\ fade'.last = from
        /\ fade'.volume = from * Precision /\ fade'.ending = arg
        BY <2>5
  <2> QED BY <2>4, <2>6 DEF EvenInv, Course
<1>2. CASE ScheduleFade
  <2>1. at = "schedule" /\ at' # "schedule" /\ fade' = fade
        BY <1>2 DEF ScheduleFade, Idle
  <2> QED BY <2>1, EvenCalm
<1>3. CASE DispatchFade \/ StopFadeTest \/ TerminateFade \/ ForgetFade
  <2>1. fade' = fade /\ listed' \subseteq listed
        BY <1>3 DEF DispatchFade, StopFadeTest, TerminateFade, ForgetFade, fading
  <2>2. at' # "schedule"
        BY <1>3 DEF DispatchFade, StopFadeTest, TerminateFade, ForgetFade, FadeInv,
                    GoesOnRight, Stopping, AfterStopping, Idle
  <2> QED BY <2>1, <2>2, EvenCalm
<1>4. CASE SetVolumeStep
  <2>1. fade' = fade /\ listed' = listed
        BY <1>4 DEF SetVolumeStep, StoreTotal, SetMixer, SendNext, StoreChannelVolume, Tell,
           ChannelLevel, ControlChange, fading
  <2>2. at' # "schedule"
        BY <1>4 DEF SetVolumeStep, StoreTotal, SetMixer, SendNext, StoreChannelVolume, Tell,
           ChannelLevel, ControlChange, Send, FadeInv, GoesOnRight, Stopping, AfterSending,
           Idle
  <2> QED BY <2>1, <2>2, EvenCalm
<1>5. CASE SongStep \/ Seeks
  <2>1. fade' = fade /\ listed' = listed
        BY <1>5 DEF SongStep, Seeks, MIDI_StopSong, MIDI_PlaySong, StartSong, SeekDone,
           SeekEnded, MIDI_ContinueSong, SeekEvent, fading
  <2>2. at' # "schedule"
        BY <1>5 DEF SongStep, Seeks, MIDI_StopSong, MIDI_PlaySong, StartSong, SeekDone,
           SeekEnded, MIDI_ContinueSong, SeekEvent, Reset, Send, Idle
  <2> QED BY <2>1, <2>2, EvenCalm
<1>6. CASE Call
  <2>1. fade' = fade /\ listed' = listed
        BY <1>6 DEF Call, MUSIC_SetVolume, MIDI_SetUserChannelVolume,
           MIDI_ResetUserChannelVolume, MUSIC_PlaySong, MUSIC_StopSong, MIDI_SetSong,
           MUSIC_FadeVolume, MUSIC_StopFade, fading
  <2>2. at' # "schedule"
        BY <1>6 DEF Call, MUSIC_SetVolume, MIDI_SetUserChannelVolume,
           MIDI_ResetUserChannelVolume, MUSIC_PlaySong, MUSIC_StopSong, MIDI_SetSong,
           MUSIC_FadeVolume, MUSIC_StopFade, Reset, Send
  <2> QED BY <2>1, <2>2, EvenCalm
<1> QED
    BY <1>1, <1>2, <1>3, <1>4, <1>5, <1>6 DEF Program, FadeStep

\* The interrupt: the fade goes on, or ends.
LEMMA FadeTickEven ==
    ASSUME TypeInv, FadeInv, EvenInv, NEW t \in Task, FadeRoutine(t)
    PROVE  /\ EvenInv'
           /\ LET new == IF fade'.length = fade.length THEN total' ELSE fade'.last
              IN /\ Between(new, fade.last, fade.ending)
                 /\ Magnitude(new - fade.last)
                       <= Magnitude(fade.rate) \div Precision + 1
<1> DEFINE n == fade.length
           r == fade.rate
           v == fade.volume
           e == fade.ending
           new == IF fade'.length = fade.length THEN total' ELSE fade'.last
<1>1. /\ n \in Nat /\ r \in Int /\ v \in Int /\ e \in Int
      /\ fade \in [length : Nat, rate : Int, last : Int, volume : Int, ending : 0..MaxVolume]
      BY ConstantsAssumption DEF TypeInv, RangesInv
<1>2. listed # {} /\ fade.last = v \div Precision /\ Course(n, r, v, e)
      BY DEF FadeRoutine, EvenInv, FadeInv, DispatchedListed
<1>3. at' = at
      BY DEF FadeRoutine, call
<1>4. CASE n = 0
  <2>1. /\ total' = fade.ending /\ fade' = [fade EXCEPT !.volume = v + r]
        /\ listed' = listed \ {t}
        BY <1>4 DEF FadeRoutine, EndFade
  <2>2. listed = {t} /\ at # "schedule"
        BY DEF FadeRoutine, FadeInv, DispatchedListed, FadeIsKnown, FadesApart
  <2>3. EvenInv'
        BY <1>3, <2>1, <2>2 DEF EvenInv
  <2>4. new = e
        BY <1>1, <2>1
  <2> HIDE DEF n, r, v, e, new
  <2>5. /\ Between(new, v \div Precision, e)
        /\ Magnitude(new - (v \div Precision)) <= Magnitude(r) \div Precision + 1
        BY <1>1, <1>2, <1>4, <2>4, EvenStep
  <2> QED BY <1>2, <2>3, <2>5 DEF n, r, v, e, new
<1>5. CASE n # 0
  <2> DEFINE w == v + r
  <2>1. /\ fade' = [fade EXCEPT !.volume = w, !.length = n - 1, !.last = w \div Precision]
        /\ listed' = listed
        BY <1>5 DEF FadeRoutine, Left
  <2>2. w \in Int
        BY <1>1
  <2>3. /\ fade'.length = n - 1 /\ fade'.rate = r /\ fade'.volume = w /\ fade'.ending = e
        /\ fade'.last = w \div Precision
        BY <1>1, <2>1
  <2>4. Course(n - 1, r, w, e)
    <3> HIDE DEF n, r, v, e
    <3>1. QED BY <1>1, <1>2, <1>5, KeepsCourse
  <2>5. EvenInv'
    <3> HIDE DEF n, r, e, w
    <3>1. QED BY <1>3, <2>1, <2>3, <2>4 DEF EvenInv, Course
  <2>6. new = w \div Precision
        BY <1>1, <2>3
  <2> HIDE DEF n, r, v, e, new
  <2>7. /\ Between(new, v \div Precision, e)
        /\ Magnitude(new - (v \div Precision)) <= Magnitude(r) \div Precision + 1
        BY <1>1, <1>2, <1>5, <2>6, EvenStep
  <2> QED BY <1>2, <2>5, <2>7 DEF n, r, v, e, new
<1> QED BY <1>4, <1>5

\* A fade goes towards its goal only, in even steps, and the last one is no jump: of any
\* length up to 1 << 7 steps of 25 ms, from and to any volume.
THEOREM FadeCorrect ==
    ASSUME \A n \in Lengths : n <= Precision
    PROVE  Spec => FadesEvenly
<1>1. TypeInv /\ FadeInv /\ EvenInv /\ [Next]_vars => EvenInv'
  <2> SUFFICES ASSUME TypeInv, FadeInv, EvenInv, [Next]_vars PROVE EvenInv'
      OBVIOUS
  <2>1. CASE Program \/ Call
        BY <2>1, ProgramEvenInv
  <2>2. CASE FadeTick
        BY <2>2, FadeTickEven DEF FadeTick
  <2>3. CASE UNCHANGED vars \/ \E c \in Channel, v \in SongVolumes : SongVolume(c, v)
    <3>1. fade' = fade /\ listed' = listed /\ at' = at
          BY <2>3 DEF vars, SongVolume, fading, call
    <3> QED BY <3>1, EvenCalm
  <2> QED BY <2>1, <2>2, <2>3 DEF Next, Interrupt
<1>2. TypeInv /\ FadeInv /\ EvenInv /\ [Next]_vars
         => [FadeTick =>
               LET new == IF fade'.length = fade.length THEN total' ELSE fade'.last
               IN /\ Between(new, fade.last, fade.ending)
                  /\ Magnitude(new - fade.last)
                        <= Magnitude(fade.rate) \div Precision + 1]_vars
      BY FadeTickEven DEF FadeTick
<1> QED
    BY <1>1, <1>2, InitEvenInv, FadeInvariance, PTL DEF Spec, FadesEvenly
=============================================================================
