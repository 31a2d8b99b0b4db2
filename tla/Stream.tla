-------------------------------- MODULE Stream --------------------------------
(***************************************************************************)
(* One voice of multivoc.c as a stream of samples: how MV_Mix walks        *)
(* through the blocks of a sound, page after page, while the program       *)
(* changes its pitch, its pan and its loop.                                *)
(*                                                                         *)
(* A sound lies in memory from address Base on, which is above all offsets *)
(* in it; addresses count bytes, and Null is 0.  A block holds at most     *)
(* Block frames (0x8000 in the code), a page PageSize samples              *)
(* (MixBufferSize).  The handler of the card runs MV_Mix to its end        *)
(* between two writes of the main program; the list of voices is the       *)
(* subject of MultiVoc.                                                    *)
(***************************************************************************)
EXTENDS Mixers, Sequences

CONSTANTS
    PageSize,       \* MixBufferSize, an even number
    Block,          \* the most frames that `length` can hold as a fixed-point number
    Sounds,         \* what the program plays, see MCStream
    Chunks,         \* how many frames a demand feed may give
    Modes,          \* bits and channels of the mixing buffer
    Pitches,        \* PITCH_GetScale times One over MV_MixRate
    Speeds,         \* what MV_SetFrequency sets
    Pans,           \* which of left and right are at volume 0
    OtherPositions  \* what other voices leave in MV_MixPosition

Null == 0
Base == 100
None == [type |-> "none"]

\* A block of a VOC file, of which only some kinds say how to play what follows.
VocBlock(b) ==
    /\ b.at \in Nat /\ b.at >= Base /\ b.bytes \in Nat
    /\ b.kind \in {"data", "new", "extended"} => b.speed \in Nat \ {0}
    /\ b.kind \in {"new", "extended"} => b.channels \in {1, 2}
    /\ b.kind = "new" => b.width \in {8, 16}
    /\ b.kind = "repeat" => b.count \in Nat

\* A loop of a raw sound is a pair of addresses, which are Null without one; that of
\* another sound is a pair of offsets, the first of which is negative without one.
Sound(s) ==
    /\ s.type \in {"raw", "wav", "feed", "voc"}
    /\ s.type # "voc" => s.speed \in Nat \ {0}
    /\ s.type = "raw" => s.frames \in Nat /\ s.loop \in Nat \X Nat
    /\ s.type = "wav" =>
           /\ s.frames \in Nat /\ s.width \in {8, 16} /\ s.channels \in {1, 2}
           /\ s.loop \in Int \X Int /\ (s.loop[1] >= 0 => s.loop[2] >= 0)
    /\ s.type = "voc" =>
           /\ s.loop \in Int \X Int /\ (s.loop[1] >= 0 => s.loop[2] \in 0..(Base - 1))
           /\ \A b \in s.blocks : VocBlock(b)

ASSUME ConstantsAssumption ==
    /\ PageSize \in Nat \ {0} /\ PageSize % 2 = 0 /\ Block \in Nat \ {0}
    /\ \A s \in Sounds : Sound(s)
    /\ Chunks \subseteq Nat /\ OtherPositions \subseteq Nat
    /\ Modes \subseteq {8, 16} \X {1, 2}
    /\ Pitches \subseteq Nat \ {0} /\ Speeds \subseteq Nat \ {0}
    /\ Pans \subseteq BOOLEAN \X BOOLEAN

VARIABLES
    mode,       \* <<MV_Bits, MV_Channels>>
    sound,      \* the sound that is played, None when the voice is in the pool
    voice,      \* the voice, a record of its fields
    mixpos,     \* MV_MixPosition
    mpc, arg,   \* where the main program is, and the values it has read
    ipc, todo, fixed, aside, then,
                \* the handler: where it is, its locals length and FixedPointBufferSize,
                \* whether MV_MixDestination is the right channel, what follows GetSound
    loc,        \* locals of MV_GetNextVOCBlock
    dest, odds, \* ghosts: samples written into the page, mixed blocks of odd length
    goal,       \* ghost: where the samples of the sound that now plays end
    gone,       \* ghost: where the next sample may lie, at least and at most
    reach,      \* ghost: where the bytes end that the last mixer has played, and those that it
                \* has read; and how many more these may be
    torn,       \* ghost: the page began between the two writes of a change of pitch
    astray      \* ghost: the position has been that of another voice

main   == <<mpc, arg>>
page   == <<todo, fixed, aside, dest, odds, torn>>
ghosts == <<goal, gone, reach, astray>>
vars   == <<mode, sound, voice, mixpos, main, ipc, then, page, loc, ghosts>>

Frame  == (voice.width \div 8) * voice.channels
Here   == voice.sound * One + voice.position * Frame    \* where the next sample is

LeastOf(m, n) == IF m < n THEN m ELSE n

FixedSize(rate) == rate * PageSize - rate

\* A pass through the data of which nothing has been mixed.
Unmixed == <<-1, -1>>

\* No mixer has read anything of this pass.
Unread == [played |-> 0, read |-> 0, spare |-> 0]

\* How many frames a step on takes in, the last of them in part.
Frames(step) == (step + One - 1) \div One

\* How far the mixers may hand on a position too far: the mono ones count the samples that
\* they have fetched in advance, and MV_Mix steps over an odd one.
Ahead == IF voice.mix[2] = "both" THEN 1 ELSE 3
-------------------------------------------------------------------------------
(***************************************************************************)
(* Mix mode.  A voice that is silent on one side needs a mono mixer only;  *)
(* MV_Mix makes it write the right channel if the left one is silent.      *)
(***************************************************************************)
Quiet(v, side) == v.pan[side]

MixFor(v) ==
    <<mode[1],
      IF mode[2] = 1 \/ Quiet(v, 2) \/ Quiet(v, 1) THEN "mono" ELSE "both",
      v.width, v.channels>>

SetVoiceMixMode(v) == [v EXCEPT !.mix = MixFor(v)]

\* MV_SetVoiceVolume, in front of the call of MV_SetVoiceMixMode.
Panned(v, pan) == [v EXCEPT !.pan = IF mode[2] = 1 THEN <<pan[1], pan[1]>> ELSE pan]

\* MV_SetVoicePitch.
Pitched(v, speed, pitch) ==
    [v EXCEPT !.speed = speed, !.pitch = pitch, !.rate = speed * pitch,
              !.fixed = FixedSize(speed * pitch)]
-------------------------------------------------------------------------------
Idle ==
    [sound |-> Null, next |-> Null, block |-> 0, start |-> Null, end |-> Null, size |-> 0,
     count |-> 0, position |-> 0, length |-> 0, speed |-> 1, pitch |-> 1, rate |-> 1,
     fixed |-> FixedSize(1), width |-> 8, channels |-> 1, playing |-> FALSE,
     pan |-> <<FALSE, FALSE>>, mix |-> <<8, "mono", 8, 1>>]

Init ==
    /\ mode \in Modes
    /\ sound = None /\ voice = Idle /\ mixpos = 0
    /\ mpc = "run" /\ arg = 0
    /\ ipc = "idle" /\ then = "none" /\ todo = 0 /\ fixed = 0 /\ aside = FALSE
    /\ loc = [ptr |-> Null, last |-> "none", speed |-> 0]
    /\ dest = 0 /\ odds = 0
    /\ goal = 0 /\ gone = Unmixed /\ reach = Unread
    /\ torn = FALSE /\ astray = FALSE

\* The interrupt comes between two writes of the main program.
InMain(from, to) ==
    /\ ipc = "idle"
    /\ mpc = from /\ mpc' = to
    /\ UNCHANGED <<mode, mixpos, ipc, then, page, loc>>

(***************************************************************************)
(* MV_PlayLoopedRaw, MV_PlayLoopedWAV, MV_PlayLoopedVOC and                *)
(* MV_StartDemandFeedPlayback fill in a voice, which is then linked.       *)
(***************************************************************************)
\* (Mutant: the last sample of the loop is left out.)
PlayRawShort(s) ==
    [Idle EXCEPT !.playing = TRUE, !.next = Base, !.block = s.frames,
                 !.start = s.loop[1], !.end = s.loop[2], !.size = s.loop[2] - s.loop[1]]

PlayRaw(s) ==
    [Idle EXCEPT !.playing = TRUE, !.next = Base, !.block = s.frames,
                 !.start = s.loop[1], !.end = s.loop[2], !.size = s.loop[2] - s.loop[1] + 1]

LoopInside(s) == s.loop[1] >= 0 /\ s.loop[1] < s.frames

PlayWAV(s) ==
    LET frame  == (s.width \div 8) * s.channels
        bytes  == s.frames * frame
        end    == LeastOf(s.loop[2], s.frames)
        v      == [Idle EXCEPT !.playing = TRUE, !.next = Base,
                               !.width = s.width, !.channels = s.channels]
    IN  IF ~LoopInside(s)
        THEN [v EXCEPT !.block = s.frames]
        ELSE [v EXCEPT !.block = end, !.size = end - s.loop[1],
                       !.start = Base + s.loop[1] * frame,
                       !.end = Base + LeastOf(s.loop[2] * frame, bytes)]

\* The loop is held as offsets until MV_GetNextVOCBlock has found the data.
PlayVOC(s) ==
    [Idle EXCEPT !.next = Base,
                 !.start = IF s.loop[1] < 0 THEN Null ELSE s.loop[1],
                 !.end = IF s.loop[1] < 0 THEN Null ELSE s.loop[2],
                 !.size = s.loop[2] - s.loop[1] + 1]

StartDemandFeedPlayback == [Idle EXCEPT !.playing = TRUE]

Filled(s) ==
    CASE s.type = "raw"  -> PlayRaw(s)
      [] s.type = "wav"  -> PlayWAV(s)
      [] s.type = "feed" -> StartDemandFeedPlayback

Play(s, pan, pitch) ==
    /\ sound = None
    /\ InMain("run", "run")
    /\ LET v == IF s.type = "voc" THEN [PlayVOC(s) EXCEPT !.pitch = pitch]
                ELSE Pitched(Filled(s), s.speed, pitch)
       IN  voice' = SetVoiceMixMode(Panned(v, pan))
    /\ sound' = s
    /\ goal' = 0 /\ gone' = Unmixed /\ reach' = Unread /\ astray' = FALSE
    /\ UNCHANGED arg
-------------------------------------------------------------------------------
(***************************************************************************)
(* What the program does to a voice that plays: MV_SetPitch and            *)
(* MV_SetFrequency, MV_SetPan, MV_EndLooping.  None of them keeps the      *)
(* interrupt out for longer than MV_GetVoice (and MV_SetVoiceMixMode).     *)
(***************************************************************************)
ChangePitch(speed, pitch) ==
    /\ sound # None
    /\ InMain("run", "rate")
    /\ arg' = speed
    /\ voice' = [voice EXCEPT !.speed = speed, !.pitch = pitch]
    /\ UNCHANGED <<sound, ghosts>>

SetPitch(pitch)     == ChangePitch(voice.speed, pitch)
SetFrequency(speed) == ChangePitch(speed, 1)

SetRateScale ==
    /\ InMain("rate", "fixed")
    /\ voice' = [voice EXCEPT !.rate = arg * voice.pitch]
    /\ UNCHANGED <<sound, arg, ghosts>>

SetFixedPoint ==
    /\ InMain("fixed", "run")
    /\ voice' = [voice EXCEPT !.fixed = FixedSize(voice.rate)]
    /\ arg' = 0
    /\ UNCHANGED <<sound, ghosts>>

SetPan(pan) ==
    /\ sound # None
    /\ InMain("run", "right")
    /\ arg' = Panned(voice, pan).pan[2]
    /\ voice' = [voice EXCEPT !.pan[1] = Panned(voice, pan).pan[1]]
    /\ UNCHANGED <<sound, ghosts>>

SetRightVolume ==
    /\ InMain("right", "mode")
    /\ voice' = [voice EXCEPT !.pan[2] = arg]
    /\ arg' = 0
    /\ UNCHANGED <<sound, ghosts>>

SetMode ==
    /\ InMain("mode", "run")
    /\ voice' = SetVoiceMixMode(voice)
    /\ UNCHANGED <<sound, arg, ghosts>>

EndLooping ==
    /\ sound # None
    /\ InMain("run", "start")
    /\ voice' = [voice EXCEPT !.count = 0]
    /\ UNCHANGED <<sound, arg, ghosts>>

EndLoopStart ==
    /\ InMain("start", "end")
    /\ voice' = [voice EXCEPT !.start = Null]
    /\ UNCHANGED <<sound, arg, ghosts>>

EndLoopEnd ==
    /\ InMain("end", "run")
    /\ voice' = [voice EXCEPT !.end = Null]
    /\ UNCHANGED <<sound, arg, ghosts>>

MainStep == SetRateScale \/ SetFixedPoint \/ SetRightVolume \/ SetMode
            \/ EndLoopStart \/ EndLoopEnd
-------------------------------------------------------------------------------
(***************************************************************************)
(* MV_Mix.  `then` says what it does when GetSound returns: it goes on     *)
(* with the page ("begin", "mix"), or the page is over ("leave").          *)
(***************************************************************************)
InHandler(from, to) ==
    /\ ipc = from /\ ipc' = to
    /\ UNCHANGED <<mode, main>>

BeginPage ==
    /\ sound # None
    /\ InHandler("idle", IF voice.length = 0 THEN "get" ELSE "begin")
    /\ then' = "begin"
    /\ todo' = PageSize /\ dest' = 0 /\ odds' = 0
    /\ mixpos' \in {mixpos} \cup OtherPositions
    /\ UNCHANGED <<sound, voice, fixed, aside, torn, loc, ghosts>>

BeginMix ==
    /\ InHandler("begin", "mix")
    /\ fixed' = voice.fixed
    /\ aside' = (mode[2] = 2 /\ Quiet(voice, 1))
    /\ torn' = (voice.fixed # FixedSize(voice.rate))
    /\ UNCHANGED <<sound, voice, mixpos, then, todo, dest, odds, loc, ghosts>>

\* The next sample is behind the end of the block: the rest of the page stays silent.
LeavePage ==
    /\ voice.position >= voice.length
    /\ todo > 0
    /\ InHandler("mix", "get")
    /\ then' = "leave"
    /\ UNCHANGED <<sound, voice, mixpos, page, loc, ghosts>>

\* (Mutant: only a block that ends before the last sample of the page is cut.)
VocLengthLate ==
    IF voice.position + fixed > voice.length + voice.rate
    THEN (voice.length - voice.position + voice.rate - 1) \div voice.rate
    ELSE todo

\* How many samples to the end of the block, or of the page.
VocLength ==
    IF voice.position + fixed >= voice.length
    THEN (voice.length - voice.position + voice.rate - 1) \div voice.rate
    ELSE todo

\* An odd count: the last sample is stepped over, and is not counted either.
Stepped(n) == IF n % 2 = 1 THEN voice.rate ELSE 0

MixPart ==
    LET n    == VocLength
        m    == Mix(voice.mix, voice.position, voice.rate, n)
        left == (IF m.stored THEN m.position ELSE mixpos) + Stepped(n)
    IN  /\ todo > 0 /\ voice.position < voice.length
        /\ InHandler("mix", IF left >= voice.length THEN "get" ELSE "mix")
        /\ then' = "mix"
        /\ mixpos' = left
        /\ voice' = [voice EXCEPT !.position = left]
        /\ todo' = todo - (n - (n % 2))
        /\ dest' = dest + m.count
        /\ odds' = odds + (m.count % 2)
        /\ reach' = IF torn \/ ~m.stored THEN Unread
                    ELSE [played |-> voice.sound + m.end, read |-> voice.sound + m.read,
                          spare |-> Frame * Frames(2 * voice.rate)]
        /\ gone' = LET least == Here + m.count * voice.rate * Frame
                   IN  <<least, least + Ahead * voice.rate * Frame>>
        /\ astray' = (astray \/ (~m.stored /\ mixpos # voice.position))
        /\ UNCHANGED <<sound, fixed, aside, torn, loc, goal>>

\* The end of MV_Mix, and of its round in MV_ServiceVoc, which retires the voice.
EndPage ==
    /\ \/ ipc = "mix" /\ todo <= 0
       \/ ipc = "end"
    /\ InHandler(ipc, "idle")
    /\ sound' = IF voice.playing THEN sound ELSE None
    /\ then' = "none" /\ todo' = 0 /\ fixed' = 0 /\ aside' = FALSE
    /\ dest' = 0 /\ odds' = 0 /\ torn' = FALSE
    /\ UNCHANGED <<voice, mixpos, loc, ghosts>>
-------------------------------------------------------------------------------
(***************************************************************************)
(* GetSound returns KeepPlaying or NoMoreData.                             *)
(***************************************************************************)
\* (Mutant: FixedPointBufferSize is that of the whole page also behind a new block.)
KeepPlayingWhole(from, v) ==
    /\ InHandler(from, IF then = "leave" THEN "end" ELSE then)
    /\ voice' = v
    /\ UNCHANGED <<sound, mixpos, then, page, loc>>

KeepPlaying(from, v) ==
    /\ InHandler(from, IF then = "leave" THEN "end" ELSE then)
    /\ voice' = v
    /\ fixed' = IF then = "mix" /\ todo > 0 THEN v.rate * (todo - 1) ELSE fixed
    /\ UNCHANGED <<sound, mixpos, then, todo, aside, dest, odds, torn, loc>>

NoMoreData(from, v) ==
    /\ InHandler(from, "end")
    /\ voice' = v
    /\ UNCHANGED <<sound, mixpos, then, page, loc, ghosts>>

\* The ghosts: the same pass through the data goes on, or one begins that ends at `end`.
SamePass     == UNCHANGED ghosts
NewPass(end) == goal' = end /\ gone' = Unmixed /\ reach' = Unread /\ astray' = FALSE

\* The next at most Block frames of what is left.
Cut(v) ==
    LET n == LeastOf(v.block, Block)
    IN  [v EXCEPT !.length = n * One, !.block = v.block - n]

\* The same in MV_GetNextVOCBlock and MV_GetNextDemandFeedBlock.
NextPart(bytes) ==
    Cut([voice EXCEPT !.position = voice.position - voice.length,
                      !.sound = voice.sound + (voice.length \div One) * bytes])

(***************************************************************************)
(* MV_GetNextRawBlock and MV_GetNextWAVBlock, which do the same.           *)
(***************************************************************************)
\* The end of a loop is that of the sample at `loopend` of a raw sound, but in front of the
\* sample at `loopend` of a WAV or VOC file, though public/notes.txt:316-317 and 346-347 say
\* that the loop comes after that sample is played.
LoopGoal ==
    IF sound.type = "raw" THEN sound.loop[2] + 1
    ELSE Base + LeastOf(sound.loop[2], sound.frames) * Frame

FirstGoal ==
    IF sound.type = "wav" /\ LoopInside(sound) THEN LoopGoal ELSE Base + sound.frames * Frame

\* (Mutant: 16-bit sounds do not move on by two bytes a sample.)
RawPartBytes(v) ==
    LET n == LeastOf(v.block, Block)
    IN  [v EXCEPT !.sound = v.next, !.position = v.position - v.length,
                  !.length = n * One, !.block = v.block - n, !.next = v.next + n]

RawPart(v) ==
    LET n == LeastOf(v.block, Block)
    IN  [v EXCEPT !.sound = v.next, !.position = v.position - v.length,
                  !.length = n * One, !.block = v.block - n,
                  !.next = v.next + n * (v.width \div 8)]

IsRaw == sound.type \in {"raw", "wav"}

GetNextRawBlock ==
    /\ IsRaw /\ voice.block > 0
    /\ KeepPlaying("get", RawPart(voice))
    /\ IF goal = 0 THEN NewPass(FirstGoal) ELSE SamePass

RawLoop ==
    /\ IsRaw /\ voice.block = 0 /\ voice.start # Null
    /\ KeepPlaying("get", RawPart([voice EXCEPT !.block = voice.size, !.next = voice.start,
                                                !.length = 0, !.position = 0]))
    /\ NewPass(LoopGoal)

RawEnd ==
    /\ IsRaw /\ voice.block = 0 /\ voice.start = Null
    /\ NoMoreData("get", [voice EXCEPT !.playing = FALSE])

(***************************************************************************)
(* MV_GetNextDemandFeedBlock; the program gives n frames at a time.        *)
(***************************************************************************)
GetNextDemandFeedBlock ==
    /\ sound.type = "feed" /\ voice.block > 0
    /\ KeepPlaying("get", NextPart(1))
    /\ SamePass

DemandFeed(n) ==
    LET v == Cut([voice EXCEPT !.position = 0, !.sound = Base, !.block = n])
    IN  /\ sound.type = "feed" /\ voice.block = 0
        /\ IF n > 0 THEN KeepPlaying("get", v) /\ NewPass(Base + n)
                    ELSE NoMoreData("get", v)

(***************************************************************************)
(* MV_GetNextVOCBlock.  The header of a block is one unit of memory; type  *)
(* 1 is "data", 2 "more", 3 to 5 "text", 6 "repeat", 7 "until", 8          *)
(* "extended", 9 "new", 0 "end".  A loop that the program asked for is a   *)
(* pair of offsets until the first data is found, then of addresses.       *)
(***************************************************************************)
Forever == 65535

VocHere    == CHOOSE b \in sound.blocks : b.at = loc.ptr
AtVoc(kinds) ==
    ipc = "voc" /\ (\E b \in sound.blocks : b.at = loc.ptr) /\ VocHere.kind \in kinds
First(b)   == b.at + 1
Behind(b)  == First(b) + b.bytes

GetNextVOCBlock ==
    /\ sound.type = "voc" /\ voice.block > 0
    /\ KeepPlaying("get", NextPart(voice.width \div 8))
    /\ SamePass

VocLoop ==
    /\ sound.type = "voc" /\ voice.block = 0
    /\ voice.length > 0 /\ voice.end # Null /\ voice.start # Null
    /\ KeepPlaying("get", Cut([voice EXCEPT !.block = voice.size, !.sound = voice.start,
                                            !.position = 0]))
    /\ NewPass(goal)

VocParse ==
    /\ sound.type = "voc" /\ voice.block = 0
    /\ voice.length = 0 \/ voice.end = Null \/ voice.start = Null
    /\ InHandler("get", "voc")
    /\ voice' = [voice EXCEPT !.playing = TRUE]
    /\ loc' = [ptr |-> voice.next, last |-> "none", speed |-> 0]
    /\ UNCHANGED <<sound, mixpos, then, page, ghosts>>

\* A block that holds no samples: on to the next one.
ToBlock(ptr, v, speed) ==
    /\ InHandler("voc", "voc")
    /\ voice' = v
    /\ loc' = [ptr |-> ptr, last |-> VocHere.kind, speed |-> speed]
    /\ UNCHANGED <<sound, mixpos, then, page, ghosts>>

VocText ==
    /\ AtVoc({"text"})
    /\ ToBlock(Behind(VocHere), voice, loc.speed)

VocExtended ==
    /\ AtVoc({"extended"})
    /\ ToBlock(Behind(VocHere),
               [voice EXCEPT !.width = 8, !.channels = VocHere.channels], VocHere.speed)

VocRepeat ==
    /\ AtVoc({"repeat"})
    /\ ToBlock(Behind(VocHere),
               IF voice.end # Null THEN voice
               ELSE [voice EXCEPT !.count = VocHere.count, !.start = Behind(VocHere)],
               loc.speed)

\* The last time round LoopStart is forgotten, in front of the jump.
VocUntil ==
    LET again == loc.last # "repeat" /\ voice.count > 0 /\ voice.start # Null
        left  == IF voice.count < Forever THEN voice.count - 1 ELSE voice.count
    IN  /\ AtVoc({"until"})
        /\ ToBlock(IF again THEN voice.start ELSE Behind(VocHere),
                   IF loc.last = "repeat" THEN [voice EXCEPT !.count = 0]
                   ELSE IF ~again THEN voice
                   ELSE [voice EXCEPT !.count = left,
                                      !.start = IF left = 0 THEN Null ELSE @],
                   loc.speed)

\* The end of the file; or data up to here that a repeat without an end began.
VocEnd ==
    /\ AtVoc({"end"})
    /\ IF voice.start = Null \/ voice.start >= VocHere.at
       THEN NoMoreData("voc", [voice EXCEPT !.playing = FALSE])
       ELSE /\ KeepPlaying("voc", Cut([voice EXCEPT !.block = VocHere.at - voice.start,
                                                   !.sound = voice.start, !.position = 0]))
            /\ NewPass(VocHere.at)

\* Data: the loop that was asked for is cut to it, and the blocks are counted in frames.
Found(b, v) ==
    LET looped == v.end # Null
        bytes  == IF looped THEN LeastOf(v.end, b.bytes) ELSE b.bytes
        rated  == [Pitched(v, v.speed, v.pitch) EXCEPT
                       !.next = First(b) + b.bytes, !.sound = First(b), !.position = 0,
                       !.block = bytes \div ((v.width \div 8) * v.channels)]
        found  == IF ~looped THEN rated
                  ELSE [rated EXCEPT !.start = First(b) + v.start, !.end = First(b) + bytes,
                                     !.size = bytes - v.start]
    IN  SetVoiceMixMode(Cut(found))

\* What a block says of its samples: the rate of a "data" block, unless an "extended" one
\* has stood in front of it, or of a "new" one; "more" goes on as before.
AsData(b) ==
    IF loc.last = "extended" THEN [voice EXCEPT !.width = 8, !.speed = loc.speed]
    ELSE [voice EXCEPT !.width = 8, !.channels = 1, !.speed = b.speed]

AsNew(b) == [voice EXCEPT !.width = b.width, !.channels = b.channels, !.speed = b.speed]

VocData ==
    LET b == VocHere
        v == CASE b.kind = "data" -> AsData(b)
               [] b.kind = "new"  -> AsNew(b)
               [] OTHER           -> voice
    IN  /\ AtVoc({"data", "more", "new"})
        /\ KeepPlaying("voc", Found(b, v))
        /\ NewPass(First(b) + (IF voice.end # Null THEN LeastOf(voice.end, b.bytes)
                               ELSE b.bytes))

VocStep == VocText \/ VocExtended \/ VocRepeat \/ VocUntil \/ VocEnd \/ VocData

GetSound ==
    \/ GetNextRawBlock \/ RawLoop \/ RawEnd
    \/ GetNextDemandFeedBlock \/ \E n \in Chunks : DemandFeed(n)
    \/ GetNextVOCBlock \/ VocLoop \/ VocParse

HandlerStep == BeginMix \/ LeavePage \/ MixPart \/ EndPage \/ GetSound \/ VocStep
-------------------------------------------------------------------------------
Next ==
    \/ \E s \in Sounds, pan \in Pans, pitch \in Pitches : Play(s, pan, pitch)
    \/ \E pitch \in Pitches : SetPitch(pitch)
    \/ \E speed \in Speeds : SetFrequency(speed)
    \/ \E pan \in Pans : SetPan(pan)
    \/ EndLooping \/ MainStep
    \/ BeginPage \/ HandlerStep

Spec == Init /\ [][Next]_vars

-------------------------------------------------------------------------------
(***************************************************************************)
(* What the properties need of the sounds, to which the code trusts.       *)
(***************************************************************************)
\* A VOC file some of which is played again has one byte a frame: what the code then plays
\* is counted in frames by the number of its bytes.
Repeats(s) == s.loop[1] >= 0 \/ \E b \in s.blocks : b.kind = "repeat"

OneByte(s) ==
    \A b \in s.blocks : /\ b.kind = "new" => b.width = 8 /\ b.channels = 1
                        /\ b.kind = "extended" => b.channels = 1

RepeatsInBytes == \A s \in Sounds : s.type = "voc" /\ Repeats(s) => OneByte(s)

\* A stereo sound comes in one block: from one to the next the code moves on as if it were
\* mono.
Stereo(s) == \E b \in s.blocks : b.kind \in {"new", "extended"} /\ b.channels = 2

StereoInOne ==
    \A s \in Sounds :
        /\ s.type = "wav" /\ s.channels = 2 => s.frames <= Block
        /\ s.type = "voc" /\ Stereo(s) => \A b \in s.blocks : b.bytes \div 2 <= Block

\* The blocks of a VOC file hold whole frames, of whatever bytes a frame of it may have.
FramesIn(s) ==
    {1} \cup {(b.width \div 8) * b.channels : b \in {c \in s.blocks : c.kind = "new"}}
        \cup {b.channels : b \in {c \in s.blocks : c.kind = "extended"}}

WholeFrames ==
    \A s \in Sounds : s.type = "voc" => \A b \in s.blocks, k \in FramesIn(s) : b.bytes % k = 0

\* A VOC file that is to be looped has data in front of its end, which the loop is cut to:
\* from p on the blocks lead to it.
Leads(s, p) ==
    \E d \in s.blocks :
        /\ d.kind \in {"data", "more", "new"} /\ p <= d.at
        /\ \A b \in s.blocks :
               b.at <= d.at => b = d \/ (b.at < d.at /\ Behind(b) <= d.at /\ b.kind # "end")

DataFirst == \A s \in Sounds : s.type = "voc" /\ s.loop[1] >= 0 => Leads(s, Base)

SoundsAssumption == RepeatsInBytes /\ StereoInOne /\ WholeFrames /\ DataFirst
-------------------------------------------------------------------------------
(***************************************************************************)
(* Properties.                                                             *)
(***************************************************************************)
\* A sound goes on where it was left, from one mix to the next and from one block to the
\* next: no sample is played twice, and no more are lost than the mixers' own few
\* (MV_Mix; the position that each block takes off, the pointer that it moves on).
GoesOn ==
    ipc = "mix" /\ gone # Unmixed /\ ~astray => Here \in gone[1] .. gone[2]

\* What is heard lies in front of the end of what plays: the sound, a block, or the loop (the
\* test with FixedPointBufferSize; not while a change of pitch is half done).  The mixers do
\* read behind that end, as each fetches its next one or two samples before it leaves its
\* loop (mv_mix.asm:169, 297), but no further than two steps of the rate.
PlaysInside == reach.played <= goal /\ reach.read <= goal + reach.spare

\* A block, or a loop, is played to its end before the next one begins (the lengths in frames
\* that the blocks are counted down by).  The end of a loop is that of the code: of a WAV or
\* VOC file it leaves out the last sample that the documentation counts in, see LoopGoal.
PlaysThrough ==
    ipc = "get" /\ voice.block = 0 /\ voice.length > 0 /\ ~astray => Here >= goal * One

\* The samples written into a page are those of the page, but for one more for each block
\* of an odd length (the remaining length that MV_Mix counts down).
StaysInPage == torn \/ dest <= PageSize + odds

===============================================================================
