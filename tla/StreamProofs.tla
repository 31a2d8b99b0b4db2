------------------------------ MODULE StreamProofs ------------------------------
(***************************************************************************)
(* Proofs about Stream, for any page, block size, mode, pitch and sounds:  *)
(* every variable keeps its type; the page is not written over its end; no *)
(* mixer reads behind the end of what plays (ReadInv); a sound goes on     *)
(* where it was left (GoesInv) and is played to its end (EndInv).  Each    *)
(* invariant rests on those before it; what the latter three need of the   *)
(* sounds is a hypothesis of theirs (see SoundsAssumption in Stream).      *)
(***************************************************************************)
EXTENDS Stream, TLAPS

-----------------------------------------------------------------------------
(* Arithmetic.                                                             *)

LEMMA Products ==
    ASSUME NEW a \in Nat \ {0}, NEW b \in Nat \ {0}
    PROVE  a * b \in Nat \ {0}
OBVIOUS

LEMMA IntProducts ==
    ASSUME NEW a \in Int, NEW b \in Int
    PROVE  a * b \in Int
OBVIOUS

LEMMA NatProducts ==
    ASSUME NEW a \in Nat, NEW b \in Nat
    PROVE  a * b \in Nat
OBVIOUS

LEMMA ThreeProducts ==
    ASSUME NEW a \in Int, NEW b \in Int, NEW c \in Int
    PROVE  (a * b) * c = a * (b * c)
OBVIOUS

LEMMA OneLess ==
    ASSUME NEW a \in Int, NEW b \in Int
    PROVE  a * b - a = a * (b - 1)
OBVIOUS

\* The quotient of an integer.
LEMMA IntQuotients ==
    ASSUME NEW a \in Int, NEW b \in Nat \ {0}
    PROVE  a \div b \in Int /\ (a \div b) * b <= a /\ a < (a \div b) * b + b
OBVIOUS

\* Fewer times a number is less by that number at least.
LEMMA ProductOrder ==
    ASSUME NEW a \in Int, NEW b \in Int, NEW p \in Nat \ {0}, a < b
    PROVE  a * p + p <= b * p
<1>1. b - a - 1 \in Nat
  OBVIOUS
<1>2. (b - a - 1) * p \in Nat
  BY <1>1, NatProducts
<1>3. (b - a - 1) * p = b * p - a * p - p
  OBVIOUS
<1>4. a * p \in Int /\ b * p \in Int
  BY IntProducts
<1>5. QED BY <1>2, <1>3, <1>4

\* The same, if it may be as many times.
LEMMA ProductsGrow ==
    ASSUME NEW a \in Int, NEW b \in Int, NEW p \in Nat, a <= b
    PROVE  a * p <= b * p
<1>1. b - a \in Nat
  OBVIOUS
<1>2. (b - a) * p \in Nat
  BY <1>1, NatProducts
<1>3. (b - a) * p = b * p - a * p
  OBVIOUS
<1>4. a * p \in Int /\ b * p \in Int
  BY IntProducts
<1>5. QED BY <1>2, <1>3, <1>4

\* The quotient is the one number with the dividend between its multiple and the next.
LEMMA QuotientIs ==
    ASSUME NEW a \in Int, NEW q \in Int, NEW p \in Nat \ {0}, q * p <= a, a < q * p + p
    PROVE  a \div p = q
<1> DEFINE d == a \div p
<1>1. d \in Int /\ d * p <= a /\ a < d * p + p
  BY IntQuotients
<1> HIDE DEF d
<1>2. d * p \in Int /\ q * p \in Int
  BY <1>1, IntProducts
<1>3. ~(d < q)
  BY <1>1, <1>2, ProductOrder
<1>4. ~(q < d)
  BY <1>1, <1>2, ProductOrder
<1>5. d = q
  BY <1>1, <1>3, <1>4
<1>6. QED BY <1>5 DEF d

\* Quotients grow with the dividend.
LEMMA QuotientOrder ==
    ASSUME NEW a \in Int, NEW b \in Int, NEW p \in Nat \ {0}, a <= b
    PROVE  a \div p <= b \div p
<1> DEFINE d == a \div p
           e == b \div p
<1>1. d \in Int /\ d * p <= a /\ e \in Int /\ b < e * p + p
  BY IntQuotients
<1> HIDE DEF d, e
<1>2. d * p \in Int /\ e * p \in Int
  BY <1>1, IntProducts
<1>3. ~(e < d)
  BY <1>1, <1>2, ProductOrder
<1>4. d <= e
  BY <1>1, <1>3
<1>5. QED BY <1>4 DEF d, e

\* Multiples of the divisor.
LEMMA QuotientOfMultiple ==
    ASSUME NEW a \in Int, NEW p \in Nat \ {0}
    PROVE  (a * p) \div p = a
<1>1. a * p \in Int
  BY IntProducts
<1> DEFINE b == a * p
<1>2. b \in Int /\ a * p <= b /\ b < a * p + p
  BY <1>1
<1> HIDE DEF b
<1>3. b \div p = a
  BY <1>2, QuotientIs
<1>4. QED BY <1>3 DEF b

\* The least number of steps of p that covers d: one fewer does not.
LEMMA StepsTo ==
    ASSUME NEW d \in Nat \ {0}, NEW p \in Nat \ {0}
    PROVE  LET n == (d + p - 1) \div p
           IN  n \in Nat \ {0} /\ (n - 1) * p < d /\ d <= n * p
<1> DEFINE n == (d + p - 1) \div p
           m == n * p
<1>1. n \in Int /\ m <= d + p - 1 /\ d + p - 1 < m + p
  BY IntQuotients
<1>2. n >= 1
  <2>1. 1 * p = p /\ p <= d + p - 1
    OBVIOUS
  <2>2. p \div p <= n
    BY <2>1, QuotientOrder
  <2>3. (1 * p) \div p = 1
    BY QuotientOfMultiple
  <2> HIDE DEF n
  <2>4. QED BY <1>1, <2>1, <2>2, <2>3
<1>3. m \in Int /\ (n - 1) * p = m - p
  <2>1. n \in Int
    BY <1>1
  <2> HIDE DEF n
  <2>2. QED BY <2>1
<1> HIDE DEF m
<1>4. d <= m /\ m - p < d
  BY <1>1, <1>3
<1>5. d <= n * p
  BY <1>4 DEF m
<1> HIDE DEF n
<1>6. n \in Nat \ {0}
  BY <1>1, <1>2
<1>7. (n - 1) * p < d
  BY <1>3, <1>4
<1>8. QED BY <1>5, <1>6, <1>7 DEF n

-----------------------------------------------------------------------------
Mixes == {8, 16} \X {"mono", "both"} \X {8, 16} \X {1, 2}

Voices ==
    [sound : Int, next : Int, block : Int, start : Nat, end : Nat, size : Int,
     count : Int, position : Nat, length : Int, speed : Nat \ {0}, pitch : Nat \ {0},
     rate : Nat \ {0}, fixed : Int, width : {8, 16}, channels : {1, 2},
     playing : BOOLEAN, pan : BOOLEAN \X BOOLEAN, mix : Mixes]

VoiceInv == mode \in {8, 16} \X {1, 2} /\ voice \in Voices /\ mixpos \in Nat

SoundInv ==
    /\ sound \in Sounds \cup {None}
    /\ ipc \in {"idle", "begin", "mix", "get", "voc", "end"}
    /\ ipc # "idle" => sound # None
    /\ ipc = "voc" => sound.type = "voc"

MainInv ==
    /\ mpc = "rate" => arg \in Nat \ {0}
    /\ mpc = "right" => arg \in BOOLEAN

HandlerInv ==
    /\ todo \in Int /\ fixed \in Int /\ dest \in Int /\ odds \in Int
    /\ torn \in BOOLEAN /\ astray \in BOOLEAN
    /\ ipc = "get" => voice.position >= voice.length
    /\ ipc \in {"get", "voc"} => then \in {"begin", "mix", "leave"}
    /\ loc.last = "extended" => loc.speed \in Nat \ {0}

TypeInv == VoiceInv /\ SoundInv /\ MainInv /\ HandlerInv

\* What the program does to a voice that plays.
MainChange ==
    \/ \E pitch \in Pitches : SetPitch(pitch)
    \/ \E speed \in Speeds : SetFrequency(speed)
    \/ \E pan \in Pans : SetPan(pan)
    \/ EndLooping \/ MainStep

\* It leaves alone where the voice is, and what of the sound is still to come.
Kept(v, w) ==
    /\ w.sound = v.sound /\ w.next = v.next /\ w.block = v.block /\ w.size = v.size
    /\ w.position = v.position /\ w.length = v.length
    /\ w.width = v.width /\ w.channels = v.channels /\ w.playing = v.playing
    /\ w.start \in {v.start, Null} /\ w.end \in {v.end, Null}
    /\ w.count \in {v.count, 0}
    /\ w.mix \in {v.mix, MixFor(v)}

LEMMA MixForType ==
    ASSUME VoiceInv, NEW v \in Voices
    PROVE  MixFor(v) \in Mixes /\ MixFor(v)[3] = v.width /\ MixFor(v)[4] = v.channels
BY DEF VoiceInv, Voices, MixFor, Mixes

LEMMA FixedType ==
    ASSUME NEW r \in Int
    PROVE  FixedSize(r) \in Int
<1>1. PageSize \in Int
  BY ConstantsAssumption
<1>2. QED BY <1>1 DEF FixedSize

LEMMA PannedType ==
    ASSUME VoiceInv, NEW v \in Voices, NEW pan \in BOOLEAN \X BOOLEAN
    PROVE  Panned(v, pan) \in Voices
BY DEF VoiceInv, Voices, Panned

LEMMA PitchedType ==
    ASSUME NEW v \in Voices, NEW speed \in Nat \ {0}, NEW pitch \in Nat \ {0}
    PROVE  /\ Pitched(v, speed, pitch) \in Voices
           /\ Pitched(v, speed, pitch).mix = v.mix
<1>1. speed * pitch \in Nat \ {0}
  BY Products
<1>2. FixedSize(speed * pitch) \in Int
  BY <1>1, FixedType
<1> DEFINE r == speed * pitch
           f == FixedSize(r)
<1>3. r \in Nat \ {0} /\ f \in Int
  BY <1>1, <1>2
<1>4. Pitched(v, speed, pitch) =
          [v EXCEPT !.speed = speed, !.pitch = pitch, !.rate = r, !.fixed = f]
  BY DEF Pitched
<1> HIDE DEF r, f
<1>5. QED BY <1>3, <1>4 DEF Voices

LEMMA MainElsewhere ==
    ASSUME mpc' # "rate", mpc' # "right"
    PROVE  MainInv'
BY DEF MainInv

LEMMA MainKeeps ==
    ASSUME TypeInv, MainChange
    PROVE  /\ voice' \in Voices /\ Kept(voice, voice')
           /\ ipc = "idle"
           /\ UNCHANGED <<mode, sound, mixpos, ipc, then, page, loc, ghosts>>
           /\ MainInv'
<1> USE DEF TypeInv, VoiceInv, InMain, MainInv
<1>1. ASSUME NEW speed \in Nat \ {0}, NEW pitch \in Nat \ {0}, ChangePitch(speed, pitch)
      PROVE  /\ voice' \in Voices /\ Kept(voice, voice') /\ MainInv'
  BY <1>1 DEF ChangePitch, Voices, Kept
<1>2. ASSUME NEW pitch \in Pitches, SetPitch(pitch)
      PROVE  /\ voice' \in Voices /\ Kept(voice, voice') /\ MainInv'
  <2>1. pitch \in Nat \ {0} /\ voice.speed \in Nat \ {0}
    BY ConstantsAssumption DEF Voices
  <2>2. QED BY <1>1, <1>2, <2>1 DEF SetPitch
<1>3. ASSUME NEW speed \in Speeds, SetFrequency(speed)
      PROVE  /\ voice' \in Voices /\ Kept(voice, voice') /\ MainInv'
  <2>1. speed \in Nat \ {0} /\ 1 \in Nat \ {0}
    BY ConstantsAssumption
  <2>2. QED BY <1>1, <1>3, <2>1 DEF SetFrequency
<1>4. ASSUME NEW pan \in Pans, SetPan(pan)
      PROVE  /\ voice' \in Voices /\ Kept(voice, voice') /\ MainInv'
  <2>1. pan \in BOOLEAN \X BOOLEAN
    BY ConstantsAssumption
  <2>2. Panned(voice, pan) \in Voices
    BY <2>1, PannedType
  <2> DEFINE new == Panned(voice, pan).pan
  <2>3. new \in BOOLEAN \X BOOLEAN
    BY <2>2 DEF Voices
  <2>4. /\ arg' = new[2] /\ mpc' = "right" /\ voice' = [voice EXCEPT !.pan[1] = new[1]]
    BY <1>4 DEF SetPan
  <2> HIDE DEF new
  <2>5. QED BY <2>3, <2>4 DEF Voices, Kept
<1>5. ASSUME EndLooping
      PROVE  /\ voice' \in Voices /\ Kept(voice, voice') /\ MainInv'
  BY <1>5 DEF EndLooping, Voices, Kept
<1>6. ASSUME SetRateScale
      PROVE  /\ voice' \in Voices /\ Kept(voice, voice') /\ MainInv'
  <2>1. arg \in Nat \ {0} /\ voice.pitch \in Nat \ {0}
    BY <1>6 DEF SetRateScale, Voices
  <2> DEFINE r == arg * voice.pitch
  <2>2. r \in Nat \ {0}
    BY <2>1, Products
  <2>3. voice' = [voice EXCEPT !.rate = r] /\ mpc' = "fixed"
    BY <1>6 DEF SetRateScale
  <2> HIDE DEF r
  <2>4. voice \in Voices
    OBVIOUS
  <2>5. voice' \in Voices
    BY <2>4, <2>2, <2>3 DEF Voices
  <2>6. Kept(voice, voice')
    BY <2>4, <2>2, <2>3 DEF Voices, Kept
  <2>7. MainInv'
    BY <2>1, <2>3, MainElsewhere
  <2>8. QED BY <2>5, <2>6, <2>7
<1>7. ASSUME SetFixedPoint
      PROVE  /\ voice' \in Voices /\ Kept(voice, voice') /\ MainInv'
  <2> DEFINE f == FixedSize(voice.rate)
  <2>1. f \in Int
    BY FixedType DEF Voices
  <2>2. voice' = [voice EXCEPT !.fixed = f] /\ mpc' = "run"
    BY <1>7 DEF SetFixedPoint
  <2> HIDE DEF f
  <2>3. voice \in Voices
    OBVIOUS
  <2>4. voice' \in Voices
    BY <2>3, <2>1, <2>2 DEF Voices
  <2>5. Kept(voice, voice')
    BY <2>3, <2>1, <2>2 DEF Voices, Kept
  <2>6. MainInv'
    BY <2>1, <2>2, MainElsewhere
  <2>7. QED BY <2>4, <2>5, <2>6
<1>8. ASSUME SetRightVolume
      PROVE  /\ voice' \in Voices /\ Kept(voice, voice') /\ MainInv'
  <2>1. arg \in BOOLEAN /\ voice' = [voice EXCEPT !.pan[2] = arg] /\ mpc' = "mode"
    BY <1>8 DEF SetRightVolume
  <2>2. voice \in Voices
    OBVIOUS
  <2>3. voice' \in Voices
    BY <2>2, <2>1 DEF Voices
  <2>4. Kept(voice, voice')
    BY <2>2, <2>1 DEF Voices, Kept
  <2>5. MainInv'
    BY <2>1, MainElsewhere
  <2>6. QED BY <2>3, <2>4, <2>5
<1>9. ASSUME SetMode
      PROVE  /\ voice' \in Voices /\ Kept(voice, voice') /\ MainInv'
  <2>1. voice' = [voice EXCEPT !.mix = MixFor(voice)] /\ mpc' = "run"
    BY <1>9 DEF SetMode, SetVoiceMixMode
  <2>2. MixFor(voice) \in Mixes
    BY MixForType
  <2>3. voice \in Voices
    OBVIOUS
  <2>4. voice' \in Voices
    BY <2>3, <2>1, <2>2 DEF Voices
  <2>5. Kept(voice, voice')
    BY <2>3, <2>1, <2>2 DEF Voices, Kept
  <2>6. MainInv'
    BY <2>1, <2>2, MainElsewhere
  <2>7. QED BY <2>4, <2>5, <2>6
<1>10. ASSUME EndLoopStart \/ EndLoopEnd
      PROVE  /\ voice' \in Voices /\ Kept(voice, voice') /\ MainInv'
  BY <1>10 DEF EndLoopStart, EndLoopEnd, Voices, Kept, Null
<1>11. /\ ipc = "idle"
       /\ UNCHANGED <<mode, sound, mixpos, ipc, then, page, loc, ghosts>>
  BY DEF MainChange, SetPitch, SetFrequency, ChangePitch, SetPan, EndLooping, MainStep,
         SetRateScale, SetFixedPoint, SetRightVolume, SetMode, EndLoopStart, EndLoopEnd
<1>12. QED
  BY <1>2, <1>3, <1>4, <1>5, <1>6, <1>7, <1>8, <1>9, <1>10, <1>11
     DEF MainChange, MainStep

-----------------------------------------------------------------------------
\* What a voice begins with, but for the pitch and the volumes.
Fresh(s) == IF s.type = "voc" THEN PlayVOC(s) ELSE Filled(s)

Like(v, w) ==
    /\ w.sound = v.sound /\ w.next = v.next /\ w.block = v.block /\ w.size = v.size
    /\ w.position = v.position /\ w.length = v.length
    /\ w.width = v.width /\ w.channels = v.channels /\ w.playing = v.playing
    /\ w.start = v.start /\ w.end = v.end /\ w.count = v.count
    /\ w.mix[3] = v.width /\ w.mix[4] = v.channels

LEMMA IdleType == Idle \in Voices
<1>1. FixedSize(1) \in Int
  BY FixedType
<1>2. <<8, "mono", 8, 1>> \in Mixes
  BY DEF Mixes
<1> DEFINE f == FixedSize(1)
           m == <<8, "mono", 8, 1>>
           p == <<FALSE, FALSE>>
<1>3. p \in BOOLEAN \X BOOLEAN
  OBVIOUS
<1>4. Idle = [sound |-> 0, next |-> 0, block |-> 0, start |-> 0, end |-> 0, size |-> 0,
              count |-> 0, position |-> 0, length |-> 0, speed |-> 1, pitch |-> 1,
              rate |-> 1, fixed |-> f, width |-> 8, channels |-> 1, playing |-> FALSE,
              pan |-> p, mix |-> m]
  BY DEF Idle, Null
<1>5. f \in Int /\ m \in Mixes
  BY <1>1, <1>2
<1> HIDE DEF f, m, p
<1>6. QED BY <1>3, <1>4, <1>5 DEF Voices

LEMMA FreshType ==
    ASSUME NEW s \in Sounds
    PROVE  /\ Fresh(s) \in Voices
           /\ Fresh(s).position = 0 /\ Fresh(s).length = 0
<1>0. Sound(s)
  BY ConstantsAssumption
<1>1. Idle \in Voices /\ Idle.position = 0 /\ Idle.length = 0
  BY IdleType DEF Idle
<1> HIDE DEF Idle
<1>2. CASE s.type = "voc"
  <2>1. s.loop \in Int \X Int /\ (s.loop[1] >= 0 => s.loop[2] \in 0..99)
    BY <1>0, <1>2 DEF Sound, Base
  <2> DEFINE a == IF s.loop[1] < 0 THEN Null ELSE s.loop[1]
             e == IF s.loop[1] < 0 THEN Null ELSE s.loop[2]
             n == s.loop[2] - s.loop[1] + 1
             w == PlayVOC(s)
  <2>6. a \in Nat /\ e \in Nat /\ n \in Int /\ Base \in Int
    BY <2>1 DEF Base, Null
  <2>7. w = [Idle EXCEPT !.next = Base, !.start = a, !.end = e, !.size = n]
    BY DEF PlayVOC
  <2> HIDE DEF a, e, n, w
  <2>8. w \in Voices /\ w.position = 0 /\ w.length = 0
    BY <1>1, <2>6, <2>7 DEF Voices
  <2>2. PlayVOC(s) \in Voices /\ PlayVOC(s).position = 0 /\ PlayVOC(s).length = 0
    BY <2>8 DEF w
  <2>3. QED BY <1>2, <2>2 DEF Fresh
<1>3. CASE s.type = "feed"
  <2>1. /\ StartDemandFeedPlayback \in Voices
        /\ StartDemandFeedPlayback.position = 0 /\ StartDemandFeedPlayback.length = 0
    BY <1>1 DEF StartDemandFeedPlayback, Voices
  <2>2. QED BY <1>3, <2>1 DEF Fresh, Filled
<1>4. CASE s.type = "raw"
  <2>1. s.frames \in Nat /\ s.loop \in Nat \X Nat
    BY <1>0, <1>4 DEF Sound
  <2> DEFINE a == s.loop[1]
             e == s.loop[2]
             n == s.loop[2] - s.loop[1] + 1
             m == s.frames
             w == PlayRaw(s)
  <2>6. m \in Int /\ a \in Nat /\ e \in Nat /\ n \in Int /\ Base \in Int
    BY <2>1 DEF Base
  <2>7. w = [Idle EXCEPT !.playing = TRUE, !.next = Base, !.block = m,
                         !.start = a, !.end = e, !.size = n]
    BY DEF PlayRaw
  <2> HIDE DEF a, e, n, m, w
  <2>8. w \in Voices /\ w.position = 0 /\ w.length = 0
    BY <1>1, <2>6, <2>7 DEF Voices
  <2>2. PlayRaw(s) \in Voices /\ PlayRaw(s).position = 0 /\ PlayRaw(s).length = 0
    BY <2>8 DEF w
  <2>3. QED BY <1>4, <2>2 DEF Fresh, Filled
<1>5. CASE s.type = "wav"
  <2>1. /\ s.frames \in Nat /\ s.width \in {8, 16} /\ s.channels \in {1, 2}
        /\ s.loop \in Int \X Int /\ (s.loop[1] >= 0 => s.loop[2] >= 0)
    BY <1>0, <1>5 DEF Sound
  <2>2. PlayWAV(s) \in Voices /\ PlayWAV(s).position = 0 /\ PlayWAV(s).length = 0
    <3> DEFINE frame == (s.width \div 8) * s.channels
               bytes == s.frames * frame
               end   == LeastOf(s.loop[2], s.frames)
               from  == Base + s.loop[1] * frame
               to    == Base + LeastOf(s.loop[2] * frame, bytes)
               v     == [Idle EXCEPT !.playing = TRUE, !.next = Base,
                                     !.width = s.width, !.channels = s.channels]
    <3>1. v \in Voices /\ v.position = 0 /\ v.length = 0
      <4> DEFINE bits == s.width
                 both == s.channels
      <4>1. bits \in {8, 16} /\ both \in {1, 2} /\ Base \in Int
        BY <2>1 DEF Base
      <4>2. v = [Idle EXCEPT !.playing = TRUE, !.next = Base, !.width = bits,
                             !.channels = both]
        OBVIOUS
      <4> HIDE DEF v, bits, both
      <4>3. QED BY <1>1, <4>1, <4>2 DEF Voices
    <3>2. PlayWAV(s) = IF ~LoopInside(s) THEN [v EXCEPT !.block = s.frames]
                       ELSE [v EXCEPT !.block = end, !.size = end - s.loop[1],
                                      !.start = from, !.end = to]
      BY DEF PlayWAV
    <3>3. frame \in {1, 2, 4}
      BY <2>1
    <3>4. end \in Int /\ (LoopInside(s) => from \in Nat /\ to \in Nat)
      BY <2>1, <3>3 DEF LeastOf, LoopInside, Base
    <3> DEFINE size == end - s.loop[1]
               w    == PlayWAV(s)
    <3>5. size \in Int /\ s.frames \in Int
      BY <2>1, <3>4
    <3> HIDE DEF v, end, from, to, size, w
    <3>6. CASE ~LoopInside(s)
      <4>1. w = [v EXCEPT !.block = s.frames]
        BY <3>2, <3>6 DEF w
      <4>2. w \in Voices /\ w.position = 0 /\ w.length = 0
        BY <3>1, <3>5, <4>1 DEF Voices
      <4>3. QED BY <4>2 DEF w
    <3>7. CASE LoopInside(s)
      <4>1. w = [v EXCEPT !.block = end, !.size = size, !.start = from, !.end = to]
        BY <3>2, <3>7 DEF w, size
      <4>2. w \in Voices /\ w.position = 0 /\ w.length = 0
        BY <3>1, <3>4, <3>5, <3>7, <4>1 DEF Voices
      <4>3. QED BY <4>2 DEF w
    <3>8. QED BY <3>6, <3>7
  <2>3. QED BY <1>5, <2>2 DEF Fresh, Filled
<1>6. QED BY <1>0, <1>2, <1>3, <1>4, <1>5 DEF Sound

LEMMA PlayMakes ==
    ASSUME TypeInv, NEW s \in Sounds, NEW pan \in Pans, NEW pitch \in Pitches,
           Play(s, pan, pitch)
    PROVE  /\ voice' \in Voices /\ Like(Fresh(s), voice')
           /\ sound' = s /\ sound = None /\ ipc = "idle"
           /\ UNCHANGED <<mode, mixpos, ipc, then, page, loc>>
           /\ goal' = 0 /\ gone' = Unmixed /\ reach' = Unread /\ astray' = FALSE
           /\ MainInv'
<1>1. Fresh(s) \in Voices
  BY FreshType
<1>2. pitch \in Nat \ {0} /\ pan \in BOOLEAN \X BOOLEAN
  BY ConstantsAssumption
<1> DEFINE f == Fresh(s)
           v == IF s.type = "voc" THEN [f EXCEPT !.pitch = pitch]
                ELSE Pitched(f, s.speed, pitch)
           p == Panned(v, pan)
<1>3. voice' = SetVoiceMixMode(p)
  BY DEF Play, Fresh
<1>4. v \in Voices /\ (v.width = f.width /\ v.channels = f.channels)
  <2>1. CASE s.type = "voc"
    BY <1>1, <1>2, <2>1 DEF Voices
  <2>2. CASE s.type # "voc"
    <3>1. s.speed \in Nat \ {0}
      BY <2>2, ConstantsAssumption DEF Sound
    <3>2. Pitched(f, s.speed, pitch) \in Voices
      BY <1>1, <1>2, <3>1, PitchedType
    <3>3. /\ Pitched(f, s.speed, pitch).width = f.width
          /\ Pitched(f, s.speed, pitch).channels = f.channels
      BY <1>1 DEF Pitched, Voices
    <3>4. QED BY <2>2, <3>2, <3>3
  <2>3. QED BY <2>1, <2>2
<1>5. /\ v.sound = f.sound /\ v.next = f.next /\ v.block = f.block /\ v.size = f.size
      /\ v.position = f.position /\ v.length = f.length /\ v.playing = f.playing
      /\ v.start = f.start /\ v.end = f.end /\ v.count = f.count
  BY <1>1 DEF Pitched, Voices
<1> HIDE DEF v, f
<1>6. VoiceInv
  BY DEF TypeInv
<1>7. p \in Voices
  BY <1>2, <1>4, <1>6, PannedType
<1>8. /\ p.width = v.width /\ p.channels = v.channels
      /\ p.sound = v.sound /\ p.next = v.next /\ p.block = v.block /\ p.size = v.size
      /\ p.position = v.position /\ p.length = v.length /\ p.playing = v.playing
      /\ p.start = v.start /\ p.end = v.end /\ p.count = v.count
  BY <1>4 DEF Panned, Voices
<1> HIDE DEF p
<1>9. MixFor(p) \in Mixes /\ MixFor(p)[3] = p.width /\ MixFor(p)[4] = p.channels
  BY <1>6, <1>7, MixForType
<1>10. voice' = [p EXCEPT !.mix = MixFor(p)]
  BY <1>3 DEF SetVoiceMixMode
<1>11. voice' \in Voices
  BY <1>7, <1>9, <1>10 DEF Voices
<1>12. Like(f, voice')
  BY <1>4, <1>5, <1>7, <1>8, <1>9, <1>10 DEF Like, Voices
<1>13. mpc' = "run"
  BY DEF Play, InMain
<1>14. MainInv'
  BY <1>13, MainElsewhere
<1>15. /\ sound' = s /\ sound = None /\ ipc = "idle"
       /\ UNCHANGED <<mode, mixpos, ipc, then, page, loc>>
       /\ goal' = 0 /\ gone' = Unmixed /\ reach' = Unread /\ astray' = FALSE
  BY DEF Play, InMain
<1>16. QED BY <1>11, <1>12, <1>14, <1>15 DEF f

-----------------------------------------------------------------------------
(* What the functions make of a voice, for which GetSound has found more.  *)

LEMMA CutType ==
    ASSUME NEW v \in Voices
    PROVE  /\ Cut(v) \in Voices
           /\ LeastOf(v.block, Block) \in Int
           /\ Cut(v).length = LeastOf(v.block, Block) * One
           /\ Cut(v).block = v.block - LeastOf(v.block, Block)
           /\ Cut(v).sound = v.sound /\ Cut(v).position = v.position
           /\ Cut(v).start = v.start /\ Cut(v).end = v.end /\ Cut(v).size = v.size
           /\ Cut(v).width = v.width /\ Cut(v).channels = v.channels
           /\ Cut(v).mix = v.mix /\ Cut(v).playing = v.playing /\ Cut(v).rate = v.rate
           /\ Cut(v).count = v.count
<1> DEFINE n == LeastOf(v.block, Block)
           l == n * One
           b == v.block - n
           w == Cut(v)
<1>1. n \in Int
  BY ConstantsAssumption DEF Voices, LeastOf
<1>2. l \in Int /\ b \in Int
  BY <1>1, OneAssumption, IntProducts DEF Voices
<1>3. w = [v EXCEPT !.length = l, !.block = b]
  BY DEF Cut, Voices
<1> HIDE DEF n, l, b, w
<1>4. w \in Voices
  BY <1>2, <1>3 DEF Voices
<1>5. /\ w.length = l /\ w.block = b
      /\ w.sound = v.sound /\ w.position = v.position
      /\ w.start = v.start /\ w.end = v.end /\ w.size = v.size
      /\ w.width = v.width /\ w.channels = v.channels
      /\ w.mix = v.mix /\ w.playing = v.playing /\ w.rate = v.rate
      /\ w.count = v.count
  BY <1>3 DEF Voices
<1>6. QED BY <1>1, <1>4, <1>5 DEF n, l, b, w

LEMMA RawPartType ==
    ASSUME NEW v \in Voices, v.position >= v.length
    PROVE  /\ RawPart(v) \in Voices
           /\ LeastOf(v.block, Block) \in Int
           /\ RawPart(v).length = LeastOf(v.block, Block) * One
           /\ RawPart(v).block = v.block - LeastOf(v.block, Block)
           /\ RawPart(v).next = v.next + LeastOf(v.block, Block) * (v.width \div 8)
           /\ RawPart(v).sound = v.next /\ RawPart(v).position = v.position - v.length
           /\ RawPart(v).start = v.start /\ RawPart(v).end = v.end
           /\ RawPart(v).size = v.size
           /\ RawPart(v).width = v.width /\ RawPart(v).channels = v.channels
           /\ RawPart(v).mix = v.mix /\ RawPart(v).playing = v.playing
           /\ RawPart(v).rate = v.rate
<1> DEFINE n == LeastOf(v.block, Block)
           l == n * One
           m == v.next + n * (v.width \div 8)
           b == v.block - n
           p == v.position - v.length
           w == RawPart(v)
<1>1. n \in Int
  BY ConstantsAssumption DEF Voices, LeastOf
<1>2. l \in Int
  BY <1>1, OneAssumption, IntProducts
<1>3. m \in Int
  <2>1. v.width \in {8, 16} /\ v.next \in Int
    BY DEF Voices
  <2> HIDE DEF n
  <2>2. QED BY <1>1, <2>1
<1>4. w = [v EXCEPT !.sound = v.next, !.position = p, !.length = l, !.block = b,
                   !.next = m]
  BY DEF RawPart
<1>5. p \in Nat /\ b \in Int
  BY <1>1 DEF Voices
<1> HIDE DEF n, l, m, b, p, w
<1>6. w \in Voices
  BY <1>2, <1>3, <1>4, <1>5 DEF Voices
<1>7. /\ w.length = l /\ w.block = b /\ w.next = m
      /\ w.sound = v.next /\ w.position = p
      /\ w.start = v.start /\ w.end = v.end /\ w.size = v.size
      /\ w.width = v.width /\ w.channels = v.channels
      /\ w.mix = v.mix /\ w.playing = v.playing /\ w.rate = v.rate
  BY <1>4 DEF Voices
<1>8. QED BY <1>1, <1>6, <1>7 DEF n, l, m, b, p, w

LEMMA NextPartType ==
    ASSUME voice \in Voices, voice.position >= voice.length, NEW bytes \in Int
    PROVE  LET w == NextPart(bytes)
               n == LeastOf(voice.block, Block)
           IN  /\ w \in Voices
               /\ w.length = n * One /\ w.block = voice.block - n
               /\ w.sound = voice.sound + (voice.length \div One) * bytes
               /\ w.position = voice.position - voice.length
               /\ w.start = voice.start /\ w.end = voice.end /\ w.size = voice.size
               /\ w.width = voice.width /\ w.channels = voice.channels
               /\ w.mix = voice.mix /\ w.playing = voice.playing /\ w.rate = voice.rate
               /\ w.count = voice.count
<1> DEFINE p == voice.position - voice.length
           k == voice.length \div One
           s == voice.sound + k * bytes
           v == [voice EXCEPT !.position = p, !.sound = s]
<1>1. p \in Nat
  BY DEF Voices
<1>2. k \in Int
  BY OneAssumption DEF Voices
<1>3. s \in Int
  <2>1. k * bytes \in Int
    BY <1>2, IntProducts
  <2>2. QED BY <2>1 DEF Voices
<1>4. NextPart(bytes) = Cut(v)
  BY DEF NextPart
<1>5. s = voice.sound + (voice.length \div One) * bytes /\ p = voice.position - voice.length
  OBVIOUS
<1> HIDE DEF p, s, k
<1>6. v \in Voices
  BY <1>1, <1>3 DEF Voices
<1>7. /\ v.position = p /\ v.sound = s /\ v.block = voice.block
      /\ v.start = voice.start /\ v.end = voice.end /\ v.size = voice.size
      /\ v.width = voice.width /\ v.channels = voice.channels
      /\ v.mix = voice.mix /\ v.playing = voice.playing /\ v.rate = voice.rate
      /\ v.count = voice.count
  BY DEF Voices
<1> HIDE DEF v
<1> DEFINE w == NextPart(bytes)
           n == LeastOf(voice.block, Block)
<1>8. w \in Voices /\ w.length = n * One /\ w.block = voice.block - n
  BY <1>4, <1>6, <1>7, CutType
<1>9. /\ w.sound = v.sound /\ w.position = v.position
      /\ w.start = v.start /\ w.end = v.end /\ w.size = v.size
      /\ w.width = v.width /\ w.channels = v.channels
      /\ w.mix = v.mix /\ w.playing = v.playing /\ w.rate = v.rate
      /\ w.count = v.count
  BY <1>4, <1>6, CutType
<1>10. QED BY <1>5, <1>7, <1>8, <1>9

\* The bytes of a frame are 1, 2 or 4.
FrameOf(v) == (v.width \div 8) * v.channels

LEMMA FrameType ==
    ASSUME NEW v \in Voices
    PROVE  FrameOf(v) \in {1, 2, 4} /\ v.width \div 8 \in {1, 2}
           /\ v.width \div 8 <= FrameOf(v) /\ (v.channels = 1 => v.width \div 8 = FrameOf(v))
<1>1. v.width \in {8, 16} /\ v.channels \in {1, 2}
  BY DEF Voices
<1>2. QED BY <1>1 DEF FrameOf

\* The bytes of block b that are played: those of the loop, if one was asked for.
Bytes(b, v) == IF v.end # Null THEN LeastOf(v.end, b.bytes) ELSE b.bytes

LEMMA FoundType ==
    ASSUME VoiceInv, NEW v \in Voices, NEW b, VocBlock(b)
    PROVE  LET w     == Found(b, v)
               block == Bytes(b, v) \div FrameOf(v)
               n     == LeastOf(block, Block)
           IN  /\ w \in Voices
               /\ Bytes(b, v) \in Nat /\ block \in Nat
               /\ w.length = n * One /\ w.block = block - n
               /\ w.sound = First(b) /\ w.position = 0 /\ w.playing = v.playing
               /\ w.width = v.width /\ w.channels = v.channels
               /\ w.mix[3] = v.width /\ w.mix[4] = v.channels /\ w.count = v.count
               /\ v.end = Null => w.start = v.start /\ w.end = v.end
               /\ v.end # Null => /\ w.start = First(b) + v.start
                                  /\ w.end = First(b) + Bytes(b, v)
                                  /\ w.size = Bytes(b, v) - v.start
<1> DEFINE bytes == Bytes(b, v)
           block == bytes \div FrameOf(v)
           first == First(b)
           next  == first + b.bytes
           pit   == Pitched(v, v.speed, v.pitch)
           rated == [pit EXCEPT !.next = next, !.sound = first, !.position = 0,
                                !.block = block]
           from  == first + v.start
           to    == first + bytes
           size  == bytes - v.start
           found == IF v.end = Null THEN rated
                    ELSE [rated EXCEPT !.start = from, !.end = to, !.size = size]
           cut   == Cut(found)
<1>1. /\ b.at \in Nat /\ b.bytes \in Nat
      /\ v.start \in Nat /\ v.end \in Nat
  BY DEF VocBlock, Voices
<1>2. bytes \in Nat
  BY <1>1 DEF Bytes, LeastOf
<1>3. first \in Nat /\ next \in Nat
  BY <1>1 DEF First
<1>4. block \in Nat
  <2>1. FrameOf(v) \in {1, 2, 4}
    BY FrameType
  <2> HIDE DEF bytes
  <2>2. QED BY <1>2, <2>1
<1>5. from \in Nat /\ to \in Nat /\ size \in Int
  BY <1>1, <1>2, <1>3
<1>6. pit \in Voices /\ pit.mix = v.mix
  <2>1. v.speed \in Nat \ {0} /\ v.pitch \in Nat \ {0}
    BY DEF Voices
  <2>2. QED BY <2>1, PitchedType
<1>7. /\ pit.width = v.width /\ pit.channels = v.channels /\ pit.playing = v.playing
      /\ pit.start = v.start /\ pit.end = v.end /\ pit.count = v.count
  BY DEF Pitched, Voices
<1>8. Found(b, v) = SetVoiceMixMode(cut)
  <2>1. Bytes(b, v) \div ((v.width \div 8) * v.channels) = block
    BY DEF FrameOf
  <2>2. QED BY <2>1 DEF Found, Bytes, First
<1>9. /\ from = First(b) + v.start /\ to = First(b) + bytes /\ size = bytes - v.start
      /\ first = First(b) /\ bytes = Bytes(b, v) /\ block = bytes \div FrameOf(v)
  OBVIOUS
<1> HIDE DEF bytes, block, first, next, pit, from, to, size
<1>10. rated \in Voices
  <2>1. next \in Int /\ first \in Int /\ block \in Int /\ 0 \in Nat
    BY <1>3, <1>4
  <2>2. QED BY <1>6, <2>1 DEF Voices
<1>11. /\ rated.sound = first /\ rated.position = 0 /\ rated.block = block
       /\ rated.width = v.width /\ rated.channels = v.channels
       /\ rated.playing = v.playing /\ rated.count = v.count
       /\ rated.start = v.start /\ rated.end = v.end
  BY <1>6, <1>7 DEF Voices
<1> HIDE DEF rated
<1>12. found \in Voices
  BY <1>5, <1>10 DEF Voices
<1>13. /\ found.sound = first /\ found.position = 0 /\ found.block = block
       /\ found.width = v.width /\ found.channels = v.channels
       /\ found.playing = v.playing /\ found.count = v.count
       /\ v.end = Null => found.start = v.start /\ found.end = v.end
       /\ v.end # Null => found.start = from /\ found.end = to /\ found.size = size
  BY <1>10, <1>11 DEF Voices
<1> HIDE DEF found
<1> DEFINE n == LeastOf(block, Block)
<1>14. /\ cut \in Voices /\ cut.length = n * One /\ cut.block = block - n
  BY <1>12, <1>13, CutType
<1>15. /\ cut.sound = first /\ cut.position = 0 /\ cut.playing = v.playing
       /\ cut.count = v.count
       /\ cut.width = v.width /\ cut.channels = v.channels
       /\ cut.start = found.start /\ cut.end = found.end /\ cut.size = found.size
  BY <1>12, <1>13, CutType
<1> HIDE DEF cut, n
<1>16. MixFor(cut) \in Mixes /\ MixFor(cut)[3] = cut.width /\ MixFor(cut)[4] = cut.channels
  BY <1>14, MixForType
<1> DEFINE w == Found(b, v)
<1>17. w = [cut EXCEPT !.mix = MixFor(cut)]
  BY <1>8 DEF SetVoiceMixMode
<1> HIDE DEF w
<1>18. w \in Voices
  BY <1>14, <1>16, <1>17 DEF Voices
<1>19. /\ w.sound = cut.sound /\ w.position = cut.position /\ w.playing = cut.playing
       /\ w.width = cut.width /\ w.channels = cut.channels
       /\ w.start = cut.start /\ w.end = cut.end /\ w.size = cut.size
       /\ w.length = cut.length /\ w.block = cut.block
       /\ w.mix[3] = cut.width /\ w.mix[4] = cut.channels /\ w.count = cut.count
  BY <1>14, <1>16, <1>17 DEF Voices
<1>20. /\ w.length = n * One /\ w.block = block - n
       /\ w.sound = first /\ w.position = 0 /\ w.playing = v.playing
       /\ w.width = v.width /\ w.channels = v.channels
       /\ w.mix[3] = v.width /\ w.mix[4] = v.channels /\ w.count = v.count
       /\ v.end = Null => w.start = v.start /\ w.end = v.end
       /\ v.end # Null => w.start = from /\ w.end = to /\ w.size = size
  BY <1>13, <1>14, <1>15, <1>19
<1>21. QED BY <1>2, <1>4, <1>9, <1>18, <1>20 DEF n, w

\* The block that a VOC file has at loc.ptr.
LEMMA AtVocHere ==
    ASSUME TypeInv, NEW K, AtVoc(K)
    PROVE  /\ ipc = "voc" /\ sound \in Sounds /\ Sound(sound) /\ sound.type = "voc"
           /\ VocHere \in sound.blocks /\ VocHere.at = loc.ptr /\ VocHere.kind \in K
           /\ VocBlock(VocHere)
<1>1. ipc = "voc" /\ sound \in Sounds /\ sound.type = "voc"
  BY DEF AtVoc, TypeInv, SoundInv
<1>2. Sound(sound)
  BY <1>1, ConstantsAssumption
<1>3. VocHere \in sound.blocks /\ VocHere.at = loc.ptr /\ VocHere.kind \in K
  BY DEF AtVoc, VocHere
<1>4. QED BY <1>1, <1>2, <1>3 DEF Sound

\* What a block says of its samples.
Described(b) ==
    CASE b.kind = "data" -> AsData(b)
      [] b.kind = "new"  -> AsNew(b)
      [] OTHER           -> voice

LEMMA DescribedType ==
    ASSUME TypeInv, AtVoc({"data", "more", "new"})
    PROVE  LET v == Described(VocHere)
           IN  /\ v \in Voices /\ v.playing = voice.playing
               /\ v.start = voice.start /\ v.end = voice.end /\ v.count = voice.count
               /\ VocHere.kind = "data" =>
                      v.width = 8 /\ (v.channels = 1 \/ v.channels = voice.channels)
               /\ VocHere.kind = "new" =>
                      v.width = VocHere.width /\ v.channels = VocHere.channels
               /\ VocHere.kind = "more" => v = voice
<1> DEFINE b == VocHere
<1>1. /\ VocBlock(b) /\ b.kind \in {"data", "more", "new"} /\ ipc = "voc"
  BY AtVocHere
<1>2. voice \in Voices /\ (loc.last = "extended" => loc.speed \in Nat \ {0})
  BY <1>1 DEF TypeInv, VoiceInv, HandlerInv
<1> HIDE DEF b
<1>3. CASE b.kind = "data"
  <2>1. Described(b) = AsData(b)
    BY <1>3 DEF Described
  <2>2. b.speed \in Nat \ {0}
    BY <1>1, <1>3 DEF VocBlock
  <2>3. /\ AsData(b) \in Voices /\ AsData(b).playing = voice.playing
        /\ AsData(b).start = voice.start /\ AsData(b).end = voice.end
        /\ AsData(b).count = voice.count
        /\ AsData(b).width = 8
        /\ AsData(b).channels = 1 \/ AsData(b).channels = voice.channels
    <3>1. CASE loc.last = "extended"
      BY <1>2, <2>2, <3>1 DEF AsData, Voices
    <3>2. CASE loc.last # "extended"
      BY <1>2, <2>2, <3>2 DEF AsData, Voices
    <3>3. QED BY <3>1, <3>2
  <2>4. QED BY <1>3, <2>1, <2>3 DEF b
<1>4. CASE b.kind = "new"
  <2>1. Described(b) = AsNew(b)
    BY <1>4 DEF Described
  <2>2. b.speed \in Nat \ {0} /\ b.width \in {8, 16} /\ b.channels \in {1, 2}
    BY <1>1, <1>4 DEF VocBlock
  <2>3. /\ AsNew(b) \in Voices /\ AsNew(b).playing = voice.playing
        /\ AsNew(b).start = voice.start /\ AsNew(b).end = voice.end
        /\ AsNew(b).count = voice.count
        /\ AsNew(b).width = b.width /\ AsNew(b).channels = b.channels
    BY <1>2, <2>2 DEF AsNew, Voices
  <2>4. QED BY <1>4, <2>1, <2>3 DEF b
<1>5. CASE b.kind = "more"
  <2>1. Described(b) = voice
    BY <1>5 DEF Described
  <2>2. QED BY <1>2, <1>5, <2>1 DEF b
<1>6. QED BY <1>1, <1>3, <1>4, <1>5

-----------------------------------------------------------------------------
(* What MV_Mix does with a part of a block.                                *)

\* How many samples a mixer writes of the n that it is asked for, and how many steps of the
\* rate it takes in; it reads one or two more.
Written(mix, n) ==
    {<<n, n>>} \cup (IF mix[2] = "both" THEN {}
                     ELSE {<<n, n + 1>>, <<2 * (n \div 2), 2 * (n \div 2) + 2>>})

LEMMA MixIs ==
    ASSUME NEW mix \in Mixes, NEW p, NEW r, NEW n \in Nat
    PROVE  \E w \in Written(mix, n), a \in {1, 2} :
               Mix(mix, p, r, n) = Mixed(p, r, (mix[3] \div 8) * mix[4], w[1], a, w[2])
<1>1. PICK b \in {8, 16}, c \in {"mono", "both"}, d \in {8, 16}, e \in {1, 2} :
          mix = <<b, c, d, e>>
  BY DEF Mixes
<1> DEFINE size == (mix[3] \div 8) * mix[4]
<1>2. /\ d = 8 => d \div 8 = 1
      /\ d = 16 => d \div 8 = 2
  OBVIOUS
<1>3. size = (d \div 8) * e
  BY <1>1
<1>4. /\ d = 8 /\ e = 1 => size = 1
      /\ d = 8 /\ e = 2 => size = 2
      /\ d = 16 /\ e = 1 => size = 2
      /\ d = 16 /\ e = 2 => size = 4
  BY <1>2, <1>3
<1> HIDE DEF size
<1>5. /\ <<n, n>> \in Written(mix, n)
      /\ c = "mono" => /\ <<n, n + 1>> \in Written(mix, n)
                       /\ <<2 * (n \div 2), 2 * (n \div 2) + 2>> \in Written(mix, n)
  BY <1>1 DEF Written
<1>6. \/ Mix(mix, p, r, n) = Exact(p, r, size, n)
      \/ c = "mono" /\ Mix(mix, p, r, n) = Singles(p, r, size, n)
      \/ c = "mono" /\ Mix(mix, p, r, n) = Pairs(p, r, size, n)
  <2> USE DEF Mix, Mix8BitMono, Mix8BitStereo, Mix16BitMono, Mix16BitStereo,
              Mix8BitMono16, Mix8BitStereo16, Mix16BitMono16, Mix16BitStereo16,
              Mix8BitMono2C, Mix8BitStereo2C, Mix16BitMono2C, Mix16BitStereo2C,
              Mix8BitMono162C, Mix8BitStereo162C, Mix16BitMono162C, Mix16BitStereo162C
  <2>1. CASE b = 8 /\ c = "mono"
    BY <1>1, <1>4, <2>1
  <2>2. CASE b = 8 /\ c = "both"
    BY <1>1, <1>4, <2>2
  <2>3. CASE b = 16 /\ c = "mono"
    BY <1>1, <1>4, <2>3
  <2>4. CASE b = 16 /\ c = "both"
    BY <1>1, <1>4, <2>4
  <2>5. QED BY <2>1, <2>2, <2>3, <2>4
<1>7. CASE Mix(mix, p, r, n) = Exact(p, r, size, n)
  <2>1. Mix(mix, p, r, n) = Mixed(p, r, size, <<n, n>>[1], 1, <<n, n>>[2])
    BY <1>7 DEF Exact
  <2>2. QED BY <1>5, <2>1 DEF size
<1>8. CASE c = "mono" /\ Mix(mix, p, r, n) = Singles(p, r, size, n)
  <2>1. Mix(mix, p, r, n) = Mixed(p, r, size, <<n, n + 1>>[1], 1, <<n, n + 1>>[2])
    BY <1>8 DEF Singles
  <2>2. QED BY <1>5, <1>8, <2>1 DEF size
<1>9. CASE c = "mono" /\ Mix(mix, p, r, n) = Pairs(p, r, size, n)
  <2> DEFINE k == 2 * (n \div 2)
  <2>1. Mix(mix, p, r, n) = Mixed(p, r, size, <<k, k + 2>>[1], 2, <<k, k + 2>>[2])
    BY <1>9 DEF Pairs
  <2>2. QED BY <1>5, <1>9, <2>1 DEF size
<1>10. QED BY <1>6, <1>7, <1>8, <1>9

\* The least n with n * rate from the position to the end of the block; or the page, if it
\* ends no later.
LEMMA VocLengthIs ==
    ASSUME voice \in Voices, todo \in Nat \ {0}, fixed \in Int,
           voice.position < voice.length
    PROVE  /\ VocLength \in Nat \ {0}
           /\ \/ /\ voice.position + fixed < voice.length /\ VocLength = todo
              \/ /\ voice.position + fixed >= voice.length
                 /\ (VocLength - 1) * voice.rate < voice.length - voice.position
                 /\ voice.length - voice.position <= VocLength * voice.rate
<1> DEFINE p == voice.position
           l == voice.length
           r == voice.rate
           d == l - p
<1>1. p \in Nat /\ l \in Int /\ r \in Nat \ {0} /\ d \in Nat \ {0}
  BY DEF Voices
<1>2. CASE p + fixed < l
  <2>1. VocLength = todo
    BY <1>1, <1>2 DEF VocLength
  <2>2. QED BY <1>2, <2>1
<1>3. CASE p + fixed >= l
  <2>1. VocLength = (d + r - 1) \div r
    BY <1>3 DEF VocLength
  <2> HIDE DEF d, r
  <2>2. VocLength \in Nat \ {0} /\ (VocLength - 1) * r < d /\ d <= VocLength * r
    BY <1>1, <2>1, StepsTo
  <2>3. QED BY <1>3, <2>2 DEF d, r
<1>4. QED BY <1>1, <1>2, <1>3

\* The position that is handed on.
Left(n, w) ==
    (IF w[1] > 0 THEN voice.position + w[2] * voice.rate ELSE mixpos) + Stepped(n)

MixSize == (voice.mix[3] \div 8) * voice.mix[4]

LEMMA WrittenCount ==
    ASSUME NEW mix, NEW n \in Nat \ {0}, NEW w \in Written(mix, n)
    PROVE  /\ w[1] \in Nat /\ w[2] \in Nat /\ n - 1 <= w[1] /\ w[1] <= n
           /\ w[1] + (n % 2) <= n + (w[1] % 2) /\ n - (n % 2) \in Nat
           /\ (n - (n % 2)) % 2 = 0 /\ (n >= 2 => w[1] >= 2)
           /\ mix[2] = "both" => w[1] = n /\ w[2] = n
           /\ w[2] <= w[1] + 2 /\ w[1] <= w[2] /\ (n % 2) \in {0, 1}
           /\ w[1] < n => n % 2 = 1
           /\ w[1] = n /\ n % 2 = 1 => w[2] <= w[1] + 1
<1> DEFINE h == n \div 2
<1>1. h \in Nat /\ n % 2 \in {0, 1} /\ n = 2 * h + (n % 2)
  OBVIOUS
<1>2. /\ (2 * h) % 2 = 0 /\ 2 * h \in Nat
  OBVIOUS
<1>3. n - (n % 2) = 2 * h
  BY <1>1
<1>4. \/ w = <<n, n>>
      \/ mix[2] # "both" /\ w = <<n, n + 1>>
      \/ mix[2] # "both" /\ w = <<2 * h, 2 * h + 2>>
  BY DEF Written
<1>5. n >= 2 => 2 * h >= 2
  BY <1>1
<1> HIDE DEF h
<1>6. QED BY <1>1, <1>2, <1>3, <1>4, <1>5

\* What a mixer has read that writes w[1] samples and fetches `a` more.
ReadBy(w, a) ==
    LET last == voice.position + (w[1] - 1) * voice.rate
    IN  [played |-> voice.sound + FrameEnd(last, MixSize),
         read   |-> voice.sound + FrameEnd(last + a * voice.rate, MixSize),
         spare  |-> Frame * Frames(2 * voice.rate)]

LEMMA MixPartIs ==
    ASSUME TypeInv, MixPart
    PROVE  /\ voice \in Voices /\ todo \in Nat \ {0} /\ ipc = "mix"
           /\ voice.position < voice.length
           /\ \E w \in Written(voice.mix, VocLength) :
                  /\ Left(VocLength, w) \in Nat
                  /\ ipc' = IF Left(VocLength, w) >= voice.length THEN "get" ELSE "mix"
                  /\ voice' = [voice EXCEPT !.position = Left(VocLength, w)]
                  /\ mixpos' = Left(VocLength, w)
                  /\ dest' = dest + w[1] /\ odds' = odds + (w[1] % 2)
                  /\ torn => reach' = Unread
                  /\ reach' = Unread \/ \E a \in {1, 2} : reach' = ReadBy(w, a)
                  /\ LET least == Here + w[1] * voice.rate * Frame
                     IN  gone' = <<least, least + Ahead * voice.rate * Frame>>
                  /\ astray' = (astray \/ (~(w[1] > 0) /\ mixpos # voice.position))
           /\ todo' = todo - (VocLength - (VocLength % 2)) /\ then' = "mix"
           /\ UNCHANGED <<mode, main, sound, fixed, aside, torn, loc, goal>>
<1> USE DEF TypeInv, VoiceInv, HandlerInv
<1>1. /\ todo \in Nat \ {0} /\ ipc = "mix" /\ voice.position < voice.length
      /\ voice \in Voices /\ fixed \in Int /\ mixpos \in Nat
  BY DEF MixPart, InHandler
<1> DEFINE n == VocLength
           p == voice.position
           r == voice.rate
           mix == voice.mix
           m == Mix(mix, p, r, n)
           left == (IF m.stored THEN m.position ELSE mixpos) + Stepped(n)
<1>2. n \in Nat \ {0}
  BY <1>1, VocLengthIs
<1>3. p \in Nat /\ r \in Nat \ {0} /\ mix \in Mixes
  BY <1>1 DEF Voices
<1>4. /\ todo' = todo - (n - (n % 2)) /\ then' = "mix"
      /\ UNCHANGED <<mode, main, sound, fixed, aside, torn, loc, goal>>
      /\ ipc' = (IF left >= voice.length THEN "get" ELSE "mix")
      /\ mixpos' = left
      /\ voice' = [voice EXCEPT !.position = left]
      /\ dest' = dest + m.count
      /\ odds' = odds + (m.count % 2)
      /\ reach' = IF torn \/ ~m.stored THEN Unread
                  ELSE [played |-> voice.sound + m.end, read |-> voice.sound + m.read,
                        spare |-> Frame * Frames(2 * voice.rate)]
      /\ LET least == Here + m.count * voice.rate * Frame
         IN  gone' = <<least, least + Ahead * voice.rate * Frame>>
      /\ astray' = (astray \/ (~m.stored /\ mixpos # voice.position))
  BY DEF MixPart, InHandler
<1>5. Stepped(n) \in Nat
  BY <1>3 DEF Stepped
<1> HIDE DEF n
<1>6. PICK w \in Written(mix, n), a \in {1, 2} :
          m = Mixed(p, r, (mix[3] \div 8) * mix[4], w[1], a, w[2])
  BY <1>2, <1>3, MixIs
<1>7. /\ m.count = w[1] /\ m.stored = (w[1] > 0) /\ m.position = p + w[2] * r
      /\ m.end = FrameEnd(p + (w[1] - 1) * r, MixSize)
      /\ m.read = FrameEnd(p + (w[1] - 1) * r + a * r, MixSize)
  BY <1>6 DEF Mixed, MixSize
<1> HIDE DEF m
<1>8. left = Left(n, w)
  BY <1>7 DEF Left
<1>9. Left(n, w) \in Nat
  <2>1. w[2] \in Nat
    BY <1>2, WrittenCount
  <2>2. w[2] * r \in Nat
    BY <1>3, <2>1, NatProducts
  <2>3. QED BY <1>1, <1>3, <1>5, <2>2 DEF Left
<1>10. /\ torn => reach' = Unread
       /\ reach' = Unread \/ \E b \in {1, 2} : reach' = ReadBy(w, b)
  <2>1. reach' = Unread \/ reach' = ReadBy(w, a)
    BY <1>4, <1>7 DEF ReadBy
  <2>2. QED BY <1>4, <2>1
<1>11. QED BY <1>1, <1>4, <1>7, <1>8, <1>9, <1>10 DEF n

-----------------------------------------------------------------------------
(* The types of the variables.                                             *)

\* What GetSound does to the handler, whichever way it finds more.
LEMMA KeepType ==
    ASSUME TypeInv, NEW from \in {"get", "voc"}, NEW v \in Voices, KeepPlaying(from, v)
    PROVE  /\ voice' = v /\ ipc = from /\ ipc' \in {"begin", "mix", "end"}
           /\ UNCHANGED <<mode, main, sound, mixpos, then, todo, aside, dest, odds, torn, loc>>
           /\ (astray' \in BOOLEAN => TypeInv')
<1> USE DEF TypeInv, VoiceInv, SoundInv, MainInv, HandlerInv
<1>1. /\ voice' = v /\ ipc = from /\ ipc' = (IF then = "leave" THEN "end" ELSE then)
      /\ UNCHANGED <<mode, main, sound, mixpos, then, todo, aside, dest, odds, torn, loc>>
      /\ fixed' = (IF then = "mix" /\ todo > 0 THEN v.rate * (todo - 1) ELSE fixed)
  BY DEF KeepPlaying, InHandler
<1>2. then \in {"begin", "mix", "leave"}
  BY <1>1
<1>3. ipc' \in {"begin", "mix", "end"}
  BY <1>1, <1>2
<1>4. fixed' \in Int
  <2>1. v.rate \in Int /\ todo - 1 \in Int
    BY DEF Voices
  <2>2. v.rate * (todo - 1) \in Int
    BY <2>1, IntProducts
  <2>3. QED BY <1>1, <2>2
<1>5. UNCHANGED <<mode, mpc, arg, sound, mixpos, then, todo, dest, odds, torn, loc>>
  BY <1>1 DEF main
<1>6. ASSUME astray' \in BOOLEAN PROVE TypeInv'
  <2>1. VoiceInv'
    BY <1>1, <1>5
  <2>2. SoundInv'
    BY <1>1, <1>3, <1>5
  <2>3. MainInv'
    BY <1>5
  <2>4. HandlerInv'
    BY <1>3, <1>4, <1>5, <1>6
  <2>5. QED BY <2>1, <2>2, <2>3, <2>4
<1>7. QED BY <1>1, <1>3, <1>6

LEMMA NoMoreType ==
    ASSUME TypeInv, NEW from \in {"get", "voc"}, NEW v \in Voices, NoMoreData(from, v)
    PROVE  /\ voice' = v /\ ipc = from /\ ipc' = "end"
           /\ UNCHANGED <<mode, main, sound, mixpos, then, page, loc, ghosts>>
           /\ TypeInv'
<1> USE DEF TypeInv, VoiceInv, SoundInv, MainInv, HandlerInv
<1>1. /\ voice' = v /\ ipc = from /\ ipc' = "end"
      /\ UNCHANGED <<mode, main, sound, mixpos, then, page, loc, ghosts>>
  BY DEF NoMoreData, InHandler
<1>2. UNCHANGED <<mode, mpc, arg, sound, mixpos, todo, fixed, dest, odds, torn, loc, astray>>
  BY <1>1 DEF main, page, ghosts
<1>3. VoiceInv' /\ SoundInv' /\ MainInv'
  BY <1>1, <1>2
<1>4. HandlerInv'
  BY <1>1, <1>2
<1>5. QED BY <1>1, <1>3, <1>4

\* The voices that the loops and a feed begin anew.
LoopedRaw == [voice EXCEPT !.block = voice.size, !.next = voice.start,
                           !.length = 0, !.position = 0]
LoopedVoc == [voice EXCEPT !.block = voice.size, !.sound = voice.start, !.position = 0]
Ended(at) == [voice EXCEPT !.block = at - voice.start, !.sound = voice.start, !.position = 0]
Fed(n)    == [voice EXCEPT !.position = 0, !.sound = Base, !.block = n]

LEMMA LoopTypes ==
    ASSUME voice \in Voices
    PROVE  /\ LoopedRaw \in Voices /\ LoopedVoc \in Voices
           /\ \A at \in Nat : Ended(at) \in Voices
           /\ \A n \in Nat : Fed(n) \in Voices
           /\ \A at \in Nat, n \in Nat :
                \A v \in {LoopedRaw, LoopedVoc, Ended(at), Fed(n)} :
                  /\ v.position = 0 /\ v.start = voice.start /\ v.end = voice.end
                  /\ v.size = voice.size /\ v.width = voice.width
                  /\ v.channels = voice.channels /\ v.mix = voice.mix
                  /\ v.playing = voice.playing /\ v.rate = voice.rate
                  /\ v.count = voice.count
           /\ LoopedRaw.length = 0 /\ LoopedRaw.next = voice.start
           /\ LoopedRaw.block = voice.size
           /\ LoopedVoc.block = voice.size /\ LoopedVoc.sound = voice.start
           /\ \A at \in Nat : /\ Ended(at).block = at - voice.start
                              /\ Ended(at).sound = voice.start
           /\ \A n \in Nat : Fed(n).block = n /\ Fed(n).sound = Base
<1> DEFINE b == voice.size
           s == voice.start
           z == Base
<1>1. /\ b \in Int /\ s \in Int /\ z \in Int /\ 0 \in Nat /\ 0 \in Int
  BY DEF Voices, Base
<1>2. /\ LoopedRaw = [voice EXCEPT !.block = b, !.next = s, !.length = 0, !.position = 0]
      /\ LoopedVoc = [voice EXCEPT !.block = b, !.sound = s, !.position = 0]
      /\ \A n : Fed(n) = [voice EXCEPT !.position = 0, !.sound = z, !.block = n]
      /\ \A at : Ended(at) = [voice EXCEPT !.block = at - s, !.sound = s, !.position = 0]
  BY DEF LoopedRaw, LoopedVoc, Fed, Ended
<1> DEFINE Same(v) == /\ v \in Voices /\ v.position = 0
                      /\ v.start = voice.start /\ v.end = voice.end
                      /\ v.size = voice.size /\ v.width = voice.width
                      /\ v.channels = voice.channels /\ v.mix = voice.mix
                      /\ v.playing = voice.playing /\ v.rate = voice.rate
                      /\ v.count = voice.count
<1>3. b = voice.size /\ s = voice.start /\ z = Base
  OBVIOUS
<1> HIDE DEF b, s, z
<1>4. Same(LoopedRaw) /\ LoopedRaw.length = 0 /\ LoopedRaw.next = s /\ LoopedRaw.block = b
  <2>1. LoopedRaw \in Voices
    BY <1>1, <1>2 DEF Voices
  <2>2. QED BY <1>2, <2>1 DEF Voices
<1>5. Same(LoopedVoc) /\ LoopedVoc.block = b /\ LoopedVoc.sound = s
  <2>1. LoopedVoc \in Voices
    BY <1>1, <1>2 DEF Voices
  <2>2. QED BY <1>2, <2>1 DEF Voices
<1>6. ASSUME NEW at \in Nat
      PROVE  Same(Ended(at)) /\ Ended(at).block = at - s /\ Ended(at).sound = s
  <2> DEFINE e == at - s
  <2>0. Ended(at) = [voice EXCEPT !.block = e, !.sound = s, !.position = 0]
    BY <1>2
  <2>1. e \in Int /\ Ended(at) = [voice EXCEPT !.block = e, !.sound = s, !.position = 0]
    BY <1>1, <2>0
  <2> HIDE DEF e
  <2>2. Ended(at) \in Voices
    BY <1>1, <2>1 DEF Voices
  <2>3. Same(Ended(at)) /\ Ended(at).block = e /\ Ended(at).sound = s
    BY <2>1, <2>2 DEF Voices
  <2>4. QED BY <2>3 DEF e
<1>7. ASSUME NEW n \in Nat PROVE Same(Fed(n)) /\ Fed(n).block = n /\ Fed(n).sound = z
  <2>1. n \in Int
    OBVIOUS
  <2>2. Fed(n) \in Voices
    BY <1>1, <1>2, <2>1 DEF Voices
  <2>3. QED BY <1>2, <2>2 DEF Voices
<1>8. QED BY <1>3, <1>4, <1>5, <1>6, <1>7

LEMMA TypeInit == Init => TypeInv
<1> SUFFICES ASSUME Init PROVE TypeInv
  OBVIOUS
<1>1. VoiceInv
  BY ConstantsAssumption, IdleType DEF Init, VoiceInv
<1>2. /\ sound = None /\ ipc = "idle" /\ mpc = "run" /\ loc.last = "none"
      /\ todo = 0 /\ fixed = 0 /\ dest = 0 /\ odds = 0
      /\ torn \in BOOLEAN /\ astray \in BOOLEAN
  BY DEF Init
<1>3. SoundInv
  BY <1>2 DEF SoundInv
<1>4. MainInv /\ HandlerInv
  BY <1>2 DEF MainInv, HandlerInv
<1>5. QED BY <1>1, <1>3, <1>4 DEF TypeInv

LEMMA PlayType ==
    ASSUME TypeInv, NEW s \in Sounds, NEW pan \in Pans, NEW pitch \in Pitches,
           Play(s, pan, pitch)
    PROVE  TypeInv'
<1> USE DEF TypeInv, VoiceInv, SoundInv, HandlerInv
<1>1. /\ voice' \in Voices /\ Like(Fresh(s), voice')
      /\ sound' = s /\ sound = None /\ ipc = "idle"
      /\ UNCHANGED <<mode, mixpos, ipc, then, page, loc>>
      /\ astray' = FALSE
      /\ MainInv'
  BY PlayMakes
<1>2. UNCHANGED <<mode, mixpos, ipc, then, todo, fixed, dest, odds, torn, loc>>
  BY <1>1 DEF page
<1>3. QED BY <1>1, <1>2

LEMMA MainType ==
    ASSUME TypeInv, MainChange
    PROVE  TypeInv'
<1> USE DEF TypeInv, VoiceInv, SoundInv, HandlerInv
<1>1. /\ voice' \in Voices /\ MainInv' /\ ipc = "idle"
      /\ UNCHANGED <<mode, sound, mixpos, ipc, then, page, loc, ghosts>>
  BY MainKeeps
<1>2. UNCHANGED <<mode, sound, mixpos, ipc, then, todo, fixed, dest, odds, torn, loc, astray>>
  BY <1>1 DEF page, ghosts
<1>3. QED BY <1>1, <1>2

LEMMA PageType ==
    ASSUME TypeInv, BeginPage \/ BeginMix \/ LeavePage \/ EndPage
    PROVE  TypeInv'
<1> USE DEF TypeInv, VoiceInv, SoundInv, MainInv, HandlerInv
<1>1. CASE BeginPage
  <2>1. /\ sound # None /\ ipc' \in {"get", "begin"}
        /\ (ipc' = "get" => voice.length = 0)
        /\ then' = "begin" /\ todo' = PageSize /\ dest' = 0 /\ odds' = 0
        /\ mixpos' \in Nat
        /\ UNCHANGED <<mode, mpc, arg, sound, voice, fixed, torn, loc, astray>>
    BY <1>1, ConstantsAssumption DEF BeginPage, InHandler, main, ghosts
  <2>2. PageSize \in Int /\ voice.position >= 0
    BY ConstantsAssumption DEF Voices
  <2>3. HandlerInv'
    BY <2>1, <2>2
  <2>4. VoiceInv' /\ SoundInv' /\ MainInv'
    BY <2>1
  <2>5. QED BY <2>3, <2>4
<1>2. CASE BeginMix
  <2>1. /\ ipc = "begin" /\ ipc' = "mix" /\ fixed' = voice.fixed
        /\ torn' \in BOOLEAN
        /\ UNCHANGED <<mode, mpc, arg, sound, voice, mixpos, then, todo, dest, odds, loc,
                       astray>>
    BY <1>2 DEF BeginMix, InHandler, main, ghosts
  <2>2. voice.fixed \in Int
    BY DEF Voices
  <2>3. HandlerInv'
    BY <2>1, <2>2
  <2>4. VoiceInv' /\ SoundInv' /\ MainInv'
    BY <2>1
  <2>5. QED BY <2>3, <2>4
<1>3. CASE LeavePage
  <2>1. /\ ipc = "mix" /\ ipc' = "get" /\ then' = "leave"
        /\ voice.position >= voice.length
        /\ UNCHANGED <<mode, mpc, arg, sound, voice, mixpos, todo, fixed, dest, odds, torn,
                       loc, astray>>
    BY <1>3 DEF LeavePage, InHandler, main, page, ghosts
  <2>2. HandlerInv'
    BY <2>1
  <2>3. VoiceInv' /\ SoundInv' /\ MainInv'
    BY <2>1
  <2>4. QED BY <2>2, <2>3
<1>4. CASE EndPage
  <2>1. /\ ipc' = "idle" /\ sound' \in {sound, None}
        /\ then' = "none" /\ todo' = 0 /\ fixed' = 0 /\ dest' = 0 /\ odds' = 0
        /\ torn' \in BOOLEAN
        /\ UNCHANGED <<mode, mpc, arg, voice, mixpos, loc, astray>>
    BY <1>4 DEF EndPage, InHandler, main, ghosts
  <2>2. HandlerInv'
    BY <2>1
  <2>3. VoiceInv' /\ SoundInv' /\ MainInv'
    BY <2>1
  <2>4. QED BY <2>2, <2>3
<1>5. QED BY <1>1, <1>2, <1>3, <1>4

LEMMA MixPartType ==
    ASSUME TypeInv, MixPart
    PROVE  TypeInv'
<1> USE DEF TypeInv, VoiceInv, SoundInv, MainInv, HandlerInv
<1> DEFINE n == VocLength
<1>1. /\ voice \in Voices /\ todo \in Nat \ {0} /\ ipc = "mix"
      /\ voice.position < voice.length
      /\ todo' = todo - (n - (n % 2)) /\ then' = "mix"
      /\ UNCHANGED <<mode, mpc, arg, sound, fixed, torn, loc>>
  BY MixPartIs DEF main
<1>2. PICK w \in Written(voice.mix, n) :
          /\ Left(n, w) \in Nat
          /\ ipc' = (IF Left(n, w) >= voice.length THEN "get" ELSE "mix")
          /\ voice' = [voice EXCEPT !.position = Left(n, w)]
          /\ mixpos' = Left(n, w)
          /\ dest' = dest + w[1] /\ odds' = odds + (w[1] % 2)
          /\ astray' = (astray \/ (~(w[1] > 0) /\ mixpos # voice.position))
  BY MixPartIs
<1>3. n \in Nat \ {0}
  BY <1>1, VocLengthIs
<1>4. w[1] \in Nat
  BY <1>3, WrittenCount
<1> DEFINE left == Left(n, w)
<1>5. left \in Nat
  BY <1>2
<1> HIDE DEF n, left
<1>6. voice' \in Voices
  BY <1>1, <1>2, <1>5 DEF Voices, left
<1>7. voice'.position = left /\ voice'.length = voice.length /\ voice.length \in Int
  BY <1>1, <1>2 DEF Voices, left
<1>8. todo' \in Int /\ dest' \in Int /\ odds' \in Int
  BY <1>1, <1>2, <1>3, <1>4
<1>9. astray' \in BOOLEAN
  BY <1>2
<1>10. ipc' \in {"get", "mix"} /\ (ipc' = "get" => left >= voice.length) /\ mixpos' = left
  BY <1>2, <1>5, <1>7 DEF left
<1>11. VoiceInv' /\ MainInv'
  BY <1>1, <1>5, <1>6, <1>10
<1>12. SoundInv'
  BY <1>1, <1>10
<1>13. HandlerInv'
  BY <1>1, <1>7, <1>8, <1>9, <1>10
<1>14. QED BY <1>11, <1>12, <1>13

LEMMA GetSoundType ==
    ASSUME TypeInv, GetSound
    PROVE  TypeInv'
<1> USE DEF TypeInv, VoiceInv, HandlerInv
<1>1. voice \in Voices /\ astray \in BOOLEAN /\ (ipc = "get" => voice.position >= voice.length)
  OBVIOUS
<1>2. CASE GetNextRawBlock
  <2>1. KeepPlaying("get", RawPart(voice)) /\ astray' \in {astray, FALSE} /\ ipc = "get"
    BY <1>2 DEF GetNextRawBlock, KeepPlaying, InHandler, NewPass, SamePass, ghosts
  <2>2. RawPart(voice) \in Voices
    BY <1>1, <2>1, RawPartType
  <2>3. QED BY <1>1, <2>1, <2>2, KeepType
<1>3. CASE RawLoop
  <2>1. KeepPlaying("get", RawPart(LoopedRaw)) /\ astray' = FALSE
    BY <1>3 DEF RawLoop, NewPass, LoopedRaw
  <2>2. LoopedRaw \in Voices /\ LoopedRaw.position = 0 /\ LoopedRaw.length = 0
    BY <1>1, LoopTypes
  <2>3. RawPart(LoopedRaw) \in Voices
    BY <2>2, RawPartType
  <2>4. QED BY <2>1, <2>3, KeepType
<1>4. CASE RawEnd
  <2>1. NoMoreData("get", [voice EXCEPT !.playing = FALSE])
    BY <1>4 DEF RawEnd
  <2>2. [voice EXCEPT !.playing = FALSE] \in Voices
    BY <1>1 DEF Voices
  <2>3. QED BY <2>1, <2>2, NoMoreType
<1>5. CASE GetNextDemandFeedBlock
  <2>1. KeepPlaying("get", NextPart(1)) /\ astray' = astray /\ ipc = "get"
    BY <1>5 DEF GetNextDemandFeedBlock, KeepPlaying, InHandler, SamePass, ghosts
  <2>2. NextPart(1) \in Voices
    BY <1>1, <2>1, NextPartType
  <2>3. QED BY <1>1, <2>1, <2>2, KeepType
<1>6. ASSUME NEW n \in Chunks, DemandFeed(n) PROVE TypeInv'
  <2>1. \/ KeepPlaying("get", Cut(Fed(n))) /\ astray' = FALSE
        \/ NoMoreData("get", Cut(Fed(n)))
    BY <1>6 DEF DemandFeed, NewPass, Fed
  <2>2. n \in Nat
    BY ConstantsAssumption
  <2>3. Cut(Fed(n)) \in Voices
    BY <1>1, <2>2, LoopTypes, CutType
  <2>4. QED BY <2>1, <2>3, KeepType, NoMoreType
<1>7. CASE GetNextVOCBlock
  <2>1. /\ KeepPlaying("get", NextPart(voice.width \div 8)) /\ astray' = astray
        /\ ipc = "get"
    BY <1>7 DEF GetNextVOCBlock, KeepPlaying, InHandler, SamePass, ghosts
  <2>2. voice.width \div 8 \in Int
    BY <1>1, FrameType
  <2>3. NextPart(voice.width \div 8) \in Voices
    BY <1>1, <2>1, <2>2, NextPartType
  <2>4. QED BY <1>1, <2>1, <2>3, KeepType
<1>8. CASE VocLoop
  <2>1. KeepPlaying("get", Cut(LoopedVoc)) /\ astray' = FALSE
    BY <1>8 DEF VocLoop, NewPass, LoopedVoc
  <2>2. Cut(LoopedVoc) \in Voices
    BY <1>1, LoopTypes, CutType
  <2>3. QED BY <2>1, <2>2, KeepType
<1>9. CASE VocParse
  <2>1. /\ ipc = "get" /\ ipc' = "voc" /\ sound.type = "voc"
        /\ voice' = [voice EXCEPT !.playing = TRUE] /\ loc'.last = "none"
        /\ UNCHANGED <<mode, mpc, arg, sound, mixpos, then, todo, fixed, dest, odds, torn,
                       astray>>
    BY <1>9 DEF VocParse, InHandler, main, page, ghosts
  <2>2. voice' \in Voices
    BY <1>1, <2>1 DEF Voices
  <2>3. VoiceInv' /\ MainInv' /\ SoundInv'
    BY <2>1, <2>2 DEF MainInv, SoundInv
  <2>4. HandlerInv'
    BY <2>1
  <2>5. QED BY <2>3, <2>4
<1>10. QED
  BY <1>2, <1>3, <1>4, <1>5, <1>6, <1>7, <1>8, <1>9 DEF GetSound

LEMMA VocStepType ==
    ASSUME TypeInv, VocStep
    PROVE  TypeInv'
<1> USE DEF TypeInv, VoiceInv, HandlerInv
<1>1. voice \in Voices /\ astray \in BOOLEAN
  OBVIOUS
<1>2. ASSUME NEW v \in Voices, NEW ptr, NEW speed, ToBlock(ptr, v, speed),
             VocHere.kind = "extended" => speed \in Nat \ {0}
      PROVE  TypeInv'
  <2>1. /\ ipc = "voc" /\ ipc' = "voc" /\ voice' = v
        /\ loc'.last = VocHere.kind /\ loc'.speed = speed
        /\ UNCHANGED <<mode, mpc, arg, sound, mixpos, then, todo, fixed, dest, odds, torn,
                       astray>>
    BY <1>2 DEF ToBlock, InHandler, main, page, ghosts
  <2>2. VoiceInv' /\ MainInv' /\ SoundInv'
    BY <2>1 DEF MainInv, SoundInv
  <2>3. HandlerInv'
    BY <1>2, <2>1
  <2>4. QED BY <2>2, <2>3
<1>3. CASE VocText
  <2>1. VocHere.kind = "text" /\ ToBlock(Behind(VocHere), voice, loc.speed)
    BY <1>3 DEF VocText, AtVoc
  <2>2. QED BY <1>1, <1>2, <2>1
<1>4. CASE VocExtended
  <2> DEFINE v == [voice EXCEPT !.width = 8, !.channels = VocHere.channels]
  <2>1. ToBlock(Behind(VocHere), v, VocHere.speed)
    BY <1>4 DEF VocExtended
  <2>2. VocHere.kind = "extended" /\ VocBlock(VocHere)
    BY <1>4, AtVocHere DEF VocExtended
  <2>3. VocHere.speed \in Nat \ {0} /\ VocHere.channels \in {1, 2}
    BY <2>2 DEF VocBlock
  <2>4. v \in Voices
    BY <1>1, <2>3 DEF Voices
  <2>5. QED BY <1>2, <2>1, <2>3, <2>4
<1>5. CASE VocRepeat
  <2> DEFINE c == VocHere.count
             p == Behind(VocHere)
             v == IF voice.end # Null THEN voice ELSE [voice EXCEPT !.count = c, !.start = p]
  <2>1. ToBlock(p, v, loc.speed)
    BY <1>5 DEF VocRepeat
  <2>2. VocHere.kind = "repeat" /\ VocBlock(VocHere)
    BY <1>5, AtVocHere DEF VocRepeat
  <2>3. c \in Int /\ p \in Nat
    BY <2>2 DEF VocBlock, Behind, First
  <2> HIDE DEF c, p
  <2>4. v \in Voices
    BY <1>1, <2>3 DEF Voices
  <2>5. QED BY <1>2, <2>1, <2>2, <2>4
<1>6. CASE VocUntil
  <2> DEFINE again == loc.last # "repeat" /\ voice.count > 0 /\ voice.start # Null
             left  == IF voice.count < Forever THEN voice.count - 1 ELSE voice.count
             v == IF loc.last = "repeat" THEN [voice EXCEPT !.count = 0]
                  ELSE IF ~again THEN voice
                  ELSE [voice EXCEPT !.count = left,
                                     !.start = IF left = 0 THEN Null ELSE @]
             ptr == IF again THEN voice.start ELSE Behind(VocHere)
  <2>1. ToBlock(ptr, v, loc.speed) /\ VocHere.kind = "until"
    BY <1>6 DEF VocUntil, AtVoc
  <2>2. left \in Int /\ Null \in Nat
    BY <1>1 DEF Voices, Null
  <2> DEFINE to == IF left = 0 THEN Null ELSE voice.start
             zero == 0
  <2>5. to \in Nat /\ zero \in Int
    BY <1>1, <2>2 DEF Voices
  <2>6. v = IF loc.last = "repeat" THEN [voice EXCEPT !.count = zero]
            ELSE IF ~again THEN voice ELSE [voice EXCEPT !.count = left, !.start = to]
    BY DEF Voices
  <2> HIDE DEF left, again, to, zero, v
  <2>3. v \in Voices
    BY <1>1, <2>2, <2>5, <2>6 DEF Voices
  <2>4. QED BY <1>2, <2>1, <2>3
<1>7. CASE VocEnd
  <2>1. VocHere.at \in Nat
    BY <1>7, AtVocHere DEF VocEnd, VocBlock
  <2>2. \/ NoMoreData("voc", [voice EXCEPT !.playing = FALSE])
        \/ KeepPlaying("voc", Cut(Ended(VocHere.at))) /\ astray' = FALSE
    BY <1>7 DEF VocEnd, NewPass, Ended
  <2>3. [voice EXCEPT !.playing = FALSE] \in Voices
    BY <1>1 DEF Voices
  <2>4. Cut(Ended(VocHere.at)) \in Voices
    BY <1>1, <2>1, LoopTypes, CutType
  <2>5. QED BY <2>2, <2>3, <2>4, KeepType, NoMoreType
<1>8. CASE VocData
  <2>1. AtVoc({"data", "more", "new"})
    BY <1>8 DEF VocData
  <2>2. KeepPlaying("voc", Found(VocHere, Described(VocHere))) /\ astray' = FALSE
    BY <1>8 DEF VocData, NewPass, Described
  <2>3. Described(VocHere) \in Voices /\ VocBlock(VocHere)
    BY <2>1, DescribedType, AtVocHere
  <2>4. Found(VocHere, Described(VocHere)) \in Voices
    BY <2>3, FoundType
  <2>5. QED BY <2>2, <2>4, KeepType
<1>9. QED BY <1>3, <1>4, <1>5, <1>6, <1>7, <1>8 DEF VocStep

LEMMA TypeStep == TypeInv /\ [Next]_vars => TypeInv'
<1> SUFFICES ASSUME TypeInv, [Next]_vars PROVE TypeInv'
  OBVIOUS
<1>1. CASE UNCHANGED vars
  BY <1>1 DEF vars, main, page, ghosts, TypeInv, VoiceInv, SoundInv, MainInv, HandlerInv
<1>2. CASE Next
  BY <1>2, PlayType, MainType, PageType, MixPartType, GetSoundType, VocStepType
     DEF Next, HandlerStep, MainChange
<1>3. QED BY <1>1, <1>2

\* Every variable, and every field of the voice, keeps its type: no length becomes a
\* negative position, no divisor (the rate, the bytes of a frame) becomes 0.
THEOREM StreamTypeCorrect == Spec => []TypeInv
  BY TypeInit, TypeStep, PTL DEF Spec

-----------------------------------------------------------------------------
(* The page.                                                               *)

\* At the start of a page all of it is to be written.
Started ==
    ipc = "begin" \/ (ipc \in {"get", "voc"} /\ then = "begin")
        => todo = PageSize /\ dest = 0 /\ odds = 0

\* What is to be written is even and fits behind what has been written, and MV_Mix knows
\* which step the last sample of it is.
Fits ==
    ~torn => /\ todo \in Nat /\ todo % 2 = 0
             /\ dest + todo <= PageSize + odds
             /\ ipc = "mix" /\ todo > 0 => fixed = voice.rate * (todo - 1)

PageInv == Started /\ Fits

\* What GetSound finds, or that it finds no more, leaves the page alone.
LEMMA GetSoundKeeps ==
    ASSUME TypeInv, GetSound \/ VocStep
    PROVE  /\ ipc \in {"get", "voc"}
           /\ UNCHANGED <<mode, main, sound, mixpos, then, todo, aside, dest, odds, torn>>
           /\ \/ /\ ipc' = IF then = "leave" THEN "end" ELSE then
                 /\ fixed' = IF then = "mix" /\ todo > 0 THEN voice'.rate * (todo - 1)
                             ELSE fixed
              \/ ipc' = "voc" /\ fixed' = fixed
              \/ ipc' = "end" /\ fixed' = fixed
<1>1. ASSUME NEW from \in {"get", "voc"}, NEW v, KeepPlaying(from, v)
      PROVE  /\ ipc \in {"get", "voc"}
             /\ UNCHANGED <<mode, main, sound, mixpos, then, todo, aside, dest, odds, torn>>
             /\ ipc' = (IF then = "leave" THEN "end" ELSE then)
             /\ fixed' = IF then = "mix" /\ todo > 0 THEN voice'.rate * (todo - 1)
                         ELSE fixed
  BY <1>1 DEF KeepPlaying, InHandler
<1>2. ASSUME NEW from \in {"get", "voc"}, NEW v, NoMoreData(from, v)
      PROVE  /\ ipc \in {"get", "voc"}
             /\ UNCHANGED <<mode, main, sound, mixpos, then, todo, aside, dest, odds, torn>>
             /\ ipc' = "end" /\ fixed' = fixed
  BY <1>2 DEF NoMoreData, InHandler, page
<1>3. ASSUME NEW ptr, NEW v, NEW speed, ToBlock(ptr, v, speed)
      PROVE  /\ ipc \in {"get", "voc"}
             /\ UNCHANGED <<mode, main, sound, mixpos, then, todo, aside, dest, odds, torn>>
             /\ ipc' = "voc" /\ fixed' = fixed
  BY <1>3 DEF ToBlock, InHandler, page
<1>4. CASE VocParse
  BY <1>4 DEF VocParse, InHandler, page
<1>5. CASE GetNextRawBlock \/ RawLoop \/ RawEnd
  BY <1>1, <1>2, <1>5 DEF GetNextRawBlock, RawLoop, RawEnd
<1>6. CASE GetNextDemandFeedBlock \/ \E n \in Chunks : DemandFeed(n)
  BY <1>1, <1>2, <1>6 DEF GetNextDemandFeedBlock, DemandFeed
<1>7. CASE GetNextVOCBlock \/ VocLoop
  BY <1>1, <1>2, <1>7 DEF GetNextVOCBlock, VocLoop
<1>8. CASE VocText \/ VocExtended \/ VocRepeat
  BY <1>3, <1>8 DEF VocText, VocExtended, VocRepeat
<1>9. CASE VocUntil
  BY <1>3, <1>9 DEF VocUntil
<1>10. CASE VocEnd \/ VocData
  BY <1>1, <1>2, <1>10 DEF VocEnd, VocData
<1>11. QED
  BY <1>4, <1>5, <1>6, <1>7, <1>8, <1>9, <1>10 DEF GetSound, VocStep

\* A part that ends before the last sample of the page ends with the block, but for one
\* sample that a mono mixer does not write.
LEMMA PartFits ==
    ASSUME TypeInv, Fits, MixPart, ~torn
    PROVE  Fits'
<1> USE DEF TypeInv, HandlerInv
<1> DEFINE n == VocLength
           r == voice.rate
<1>1. /\ voice \in Voices /\ todo \in Nat \ {0} /\ ipc = "mix" /\ fixed \in Int
      /\ voice.position < voice.length
      /\ todo' = todo - (n - (n % 2))
      /\ UNCHANGED <<fixed, torn>>
  BY MixPartIs
<1>2. PICK w \in Written(voice.mix, n) :
          /\ Left(n, w) \in Nat
          /\ ipc' = (IF Left(n, w) >= voice.length THEN "get" ELSE "mix")
          /\ voice' = [voice EXCEPT !.position = Left(n, w)]
          /\ dest' = dest + w[1] /\ odds' = odds + (w[1] % 2)
  BY MixPartIs
<1>3. /\ n \in Nat \ {0}
      /\ \/ /\ voice.position + fixed < voice.length /\ n = todo
         \/ /\ voice.position + fixed >= voice.length
            /\ (n - 1) * r < voice.length - voice.position
            /\ voice.length - voice.position <= n * r
  BY <1>1, VocLengthIs
<1> HIDE DEF n
<1>4. /\ w[1] \in Nat /\ w[2] \in Nat /\ n - 1 <= w[1] /\ w[1] <= n
      /\ w[1] + (n % 2) <= n + (w[1] % 2)
      /\ n - (n % 2) \in Nat /\ (n - (n % 2)) % 2 = 0 /\ (n >= 2 => w[1] >= 2)
      /\ w[1] <= w[2] /\ (n % 2) \in {0, 1} /\ w[1] % 2 \in Int
      /\ (w[1] < n => w[2] >= n)
  <2>1. w[1] % 2 \in Int /\ (w[1] < n => w[2] >= n)
    BY <1>3 DEF Written
  <2>2. QED BY <1>3, <2>1, WrittenCount
<1>5. /\ todo % 2 = 0 /\ dest + todo <= PageSize + odds
      /\ fixed = r * (todo - 1) /\ PageSize \in Int /\ dest \in Int /\ odds \in Int
  BY <1>1, ConstantsAssumption DEF Fits
<1>6. r \in Nat \ {0} /\ voice.position \in Nat /\ voice.length \in Int
  BY <1>1 DEF Voices
<1>7. voice'.rate = r
  BY <1>1, <1>2 DEF Voices
<1>8. dest' + todo' <= PageSize + odds'
  <2> DEFINE x == n % 2
             y == w[1] % 2
  <2>1. /\ x \in Int /\ y \in Int /\ w[1] + x <= n + y
        /\ todo' = todo - (n - x) /\ dest' = dest + w[1] /\ odds' = odds + y
    BY <1>1, <1>2, <1>4
  <2> HIDE DEF x, y
  <2>2. QED BY <1>1, <1>3, <1>4, <1>5, <2>1
<1>9. CASE n = todo
  <2>1. todo' = 0
    BY <1>1, <1>5, <1>9
  <2>2. QED BY <1>8, <2>1 DEF Fits
<1>10. CASE n # todo
  <2>1. /\ (n - 1) * r < voice.length - voice.position
        /\ voice.length - voice.position <= n * r
        /\ voice.length - voice.position <= r * (todo - 1)
    BY <1>3, <1>5, <1>6, <1>10
  <2>2. n - 1 < todo - 1
    <3>1. SUFFICES ASSUME todo - 1 <= n - 1 PROVE FALSE
      BY <1>1, <1>3
    <3>2. r * (todo - 1) = (todo - 1) * r /\ todo - 1 \in Int /\ n - 1 \in Int
      BY <1>1, <1>3, <1>6
    <3>3. (todo - 1) * r <= (n - 1) * r
      BY <1>6, <3>1, <3>2, ProductsGrow
    <3>4. (todo - 1) * r \in Int /\ (n - 1) * r \in Int
      BY <1>6, <3>2, IntProducts
    <3>5. QED BY <1>6, <2>1, <3>2, <3>3, <3>4
  <2>3. todo' \in Nat
    BY <1>1, <1>3, <1>4, <2>2
  <2>4. todo' % 2 = 0
    <3>1. PICK k \in Int : todo = 2 * k
      BY <1>1, <1>5
    <3> DEFINE e == n - (n % 2)
    <3>2. e \in Nat /\ e % 2 = 0 /\ todo' = todo - e
      BY <1>1, <1>4
    <3> HIDE DEF e
    <3>3. PICK j \in Int : e = 2 * j
      BY <3>2
    <3>4. todo' = 2 * (k - j)
      BY <3>1, <3>2, <3>3
    <3>5. QED BY <2>3, <3>4
  <2>5. ASSUME ipc' = "mix" PROVE fixed' = voice'.rate * (todo' - 1)
    <3>1. CASE w[1] = 0
      <4>1. n = 1
        BY <1>3, <1>4, <3>1
      <4>2. todo' = todo
        BY <1>1, <4>1
      <4>3. QED BY <1>1, <1>5, <1>7, <4>2
    <3>2. CASE w[1] > 0
      <4>1. w[2] >= n
        BY <1>3, <1>4
      <4>2. n * r <= w[2] * r
        BY <1>3, <1>4, <1>6, <4>1, ProductsGrow
      <4>3. Stepped(n) \in Nat
        BY <1>6 DEF Stepped
      <4>4. Left(n, w) = voice.position + w[2] * r + Stepped(n)
        BY <3>2 DEF Left
      <4>5. w[2] * r \in Int /\ n * r \in Int
        BY <1>3, <1>4, <1>6, IntProducts
      <4>6. Left(n, w) >= voice.length
        BY <1>2, <1>6, <2>1, <4>2, <4>3, <4>4, <4>5
      <4>7. QED BY <1>2, <2>5, <4>6
    <3>3. QED BY <1>4, <3>1, <3>2
  <2>6. QED BY <1>8, <2>3, <2>4, <2>5 DEF Fits
<1>11. QED BY <1>9, <1>10

LEMMA PageInit == Init => PageInv
<1> SUFFICES ASSUME Init PROVE PageInv
  OBVIOUS
<1>1. ipc = "idle" /\ todo = 0 /\ dest = 0 /\ odds = 0
  BY DEF Init
<1>2. PageSize \in Nat /\ todo % 2 = 0
  BY <1>1, ConstantsAssumption
<1>3. QED BY <1>1, <1>2 DEF PageInv, Started, Fits

LEMMA PageStep == TypeInv /\ PageInv /\ [Next]_vars => PageInv'
<1> SUFFICES ASSUME TypeInv, PageInv, [Next]_vars PROVE PageInv'
  OBVIOUS
<1> USE DEF PageInv
<1>0. PageSize \in Nat \ {0} /\ PageSize % 2 = 0
  BY ConstantsAssumption
<1>1. CASE UNCHANGED <<ipc, then, todo, dest, odds, torn, fixed, voice>>
  BY <1>1 DEF Started, Fits
<1>2. CASE ipc = "idle" /\ UNCHANGED <<ipc, then, page>>
  BY <1>2 DEF Started, Fits, page
<1>3. CASE BeginPage
  <2>1. /\ ipc' \in {"get", "begin"} /\ todo' = PageSize /\ dest' = 0 /\ odds' = 0
    BY <1>3 DEF BeginPage, InHandler
  <2>2. QED BY <1>0, <2>1 DEF Started, Fits
<1>4. CASE BeginMix
  <2>1. /\ ipc = "begin" /\ ipc' = "mix" /\ fixed' = voice.fixed
        /\ torn' = (voice.fixed # FixedSize(voice.rate))
        /\ UNCHANGED <<voice, todo, dest, odds>>
    BY <1>4 DEF BeginMix, InHandler
  <2>2. todo = PageSize /\ dest = 0 /\ odds = 0
    BY <2>1 DEF Started
  <2>3. ASSUME ~torn' PROVE fixed' = voice'.rate * (todo' - 1)
    <3>1. fixed' = FixedSize(voice.rate)
      BY <2>1, <2>3
    <3>2. voice.rate \in Int
      BY DEF TypeInv, VoiceInv, Voices
    <3> DEFINE r == voice.rate
    <3>5. r \in Int /\ PageSize \in Int
      BY <1>0, <3>2
    <3> HIDE DEF r
    <3>6. r * PageSize - r = r * (PageSize - 1)
      BY <3>5, OneLess
    <3>3. voice.rate * PageSize - voice.rate = voice.rate * (PageSize - 1)
      BY <3>6 DEF r
    <3>4. QED BY <2>1, <2>2, <3>1, <3>3 DEF FixedSize
  <2>4. QED BY <1>0, <2>1, <2>2, <2>3 DEF Started, Fits
<1>5. CASE LeavePage
  <2>1. /\ ipc = "mix" /\ ipc' = "get" /\ then' = "leave"
        /\ UNCHANGED <<todo, dest, odds, torn, fixed, voice>>
    BY <1>5 DEF LeavePage, InHandler, page
  <2>2. QED BY <2>1 DEF Started, Fits
<1>6. CASE MixPart
  <2>1. then' = "mix" /\ ipc' \in {"mix", "get"} /\ torn' = torn
    BY <1>6, MixPartIs
  <2>2. Started'
    BY <2>1 DEF Started
  <2>3. ~torn => Fits'
    BY <1>6, PartFits
  <2>4. torn => Fits'
    BY <2>1 DEF Fits
  <2>5. QED BY <2>2, <2>3, <2>4
<1>7. CASE EndPage
  <2>1. ipc' = "idle" /\ todo' = 0 /\ dest' = 0 /\ odds' = 0
    BY <1>7 DEF EndPage, InHandler
  <2>2. todo' % 2 = 0
    BY <2>1
  <2>3. QED BY <1>0, <2>1, <2>2 DEF Started, Fits
<1>8. CASE GetSound \/ VocStep
  <2>1. /\ ipc \in {"get", "voc"}
        /\ UNCHANGED <<then, todo, dest, odds, torn>>
        /\ \/ /\ ipc' = (IF then = "leave" THEN "end" ELSE then)
              /\ fixed' = IF then = "mix" /\ todo > 0 THEN voice'.rate * (todo - 1)
                          ELSE fixed
           \/ ipc' = "voc"
           \/ ipc' = "end"
    BY <1>8, GetSoundKeeps
  <2>2. then \in {"begin", "mix", "leave"}
    BY <2>1 DEF TypeInv, HandlerInv
  <2>3. Started'
    BY <2>1, <2>2 DEF Started
  <2>4. Fits'
    BY <2>1, <2>2 DEF Fits
  <2>5. QED BY <2>3, <2>4
<1>9. CASE UNCHANGED vars
  BY <1>1, <1>9 DEF vars, page
<1>10. ASSUME NEW s \in Sounds, NEW pan \in Pans, NEW pitch \in Pitches,
              Play(s, pan, pitch)
       PROVE  PageInv'
  BY <1>2, <1>10 DEF Play, InMain
<1>11. CASE MainChange
  BY <1>2, <1>11, MainKeeps
<1>12. QED
  BY <1>3, <1>4, <1>5, <1>6, <1>7, <1>8, <1>9, <1>10, <1>11
     DEF Next, HandlerStep, MainChange

\* A page is never written over its end, but for the odd samples of its blocks: in any
\* mode, at any pitch, whatever blocks a sound comes in.
THEOREM StaysInPageCorrect == Spec => []StaysInPage
<1>1. TypeInv /\ PageInv => StaysInPage
  <2> SUFFICES ASSUME TypeInv, PageInv PROVE StaysInPage
    OBVIOUS
  <2>1. dest \in Int /\ odds \in Int /\ PageSize \in Int
    BY ConstantsAssumption DEF TypeInv, HandlerInv
  <2>2. ~torn => todo \in Nat /\ dest + todo <= PageSize + odds
    BY DEF PageInv, Fits
  <2>3. QED BY <2>1, <2>2 DEF StaysInPage
<1>2. Init => TypeInv /\ PageInv
  BY TypeInit, PageInit
<1>3. (TypeInv /\ PageInv) /\ [Next]_vars => (TypeInv /\ PageInv)'
  BY TypeStep, PageStep
<1>4. QED BY <1>1, <1>2, <1>3, PTL DEF Spec

-----------------------------------------------------------------------------
(* What the mixers read.                                                   *)

FramesOf(v)  == v.length \div One
MixSizeOf(v) == (v.mix[3] \div 8) * v.mix[4]

\* The mixer is one for the samples of the sound.
AgreesWith(v) == v.mix[3] = v.width /\ v.mix[4] = v.channels

\* The block that plays lies in front of g.
BlockLies(v, g) ==
    /\ v.length = FramesOf(v) * One
    /\ v.length > 0 => v.sound + FramesOf(v) * MixSizeOf(v) <= g

\* So does what MV_GetNextVOCBlock and MV_GetNextDemandFeedBlock have left behind it.
RestLies(s, v, g) ==
    s.type \in {"feed", "voc"} /\ v.block > 0 =>
        v.length > 0 /\ v.sound + (FramesOf(v) + v.block) * MixSizeOf(v) <= g

\* Where a raw sound ends, its loop and what comes before the first time round.
LoopEnd(s, v) ==
    IF s.type = "raw" THEN s.loop[2] + 1
    ELSE Base + LeastOf(s.loop[2], s.frames) * FrameOf(v)

FirstEnd(s, v) ==
    IF s.type = "wav" /\ LoopInside(s) THEN LoopEnd(s, v) ELSE Base + s.frames * FrameOf(v)

RawLies(s, v, g) ==
    s.type \in {"raw", "wav"} =>
        /\ g = 0 => v.next + v.block * FrameOf(v) = FirstEnd(s, v) /\ FirstEnd(s, v) > 0
        /\ g # 0 /\ v.block > 0 => v.next + v.block * FrameOf(v) <= g
        /\ v.start # Null =>
               v.start + v.size * FrameOf(v) = LoopEnd(s, v) /\ LoopEnd(s, v) > 0

VocLies(s, v, g) ==
    s.type = "voc" =>
        /\ v.start # Null \/ v.end # Null => Repeats(s)
        /\ Repeats(s) => v.width = 8 /\ v.channels = 1 /\ AgreesWith(v)
        /\ v.start # Null /\ v.end # Null =>
               v.size <= 0 \/ v.start + v.size <= IF v.length > 0 THEN g ELSE Base

FeedLies(s, v) == s.type = "feed" => v.width = 8 /\ v.channels = 1

Lies(s, v, g) ==
    BlockLies(v, g) /\ RestLies(s, v, g) /\ RawLies(s, v, g) /\ VocLies(s, v, g)
    /\ FeedLies(s, v)

MixAgrees ==
    sound # None /\ ipc # "voc" /\ (ipc = "end" => voice.playing) => AgreesWith(voice)

\* What has been played lies in front of g, and what has been read not far behind it.
ReadsTo(read, g) ==
    /\ read.played \in Int /\ read.read \in Int /\ read.spare \in Int
    /\ read.played <= g /\ read.read <= g + read.spare

ReadInv ==
    /\ goal \in Nat /\ ReadsTo(reach, goal)
    /\ sound # None => Lies(sound, voice, goal)
    /\ MixAgrees
    /\ ipc = "voc" => /\ voice.block = 0
                      /\ voice.length = 0 \/ voice.end = Null \/ voice.start = Null

\* What lies in front of g still does when the voice forgets a loop, or steps on.
LEMMA LiesSame ==
    ASSUME NEW s, NEW v, NEW w, NEW g, Lies(s, v, g),
           w.sound = v.sound, w.next = v.next, w.block = v.block, w.size = v.size,
           w.length = v.length, w.width = v.width, w.channels = v.channels,
           w.start \in {v.start, Null}, w.end \in {v.end, Null},
           w.mix[3] = v.mix[3], w.mix[4] = v.mix[4]
    PROVE  Lies(s, w, g)
<1>1. /\ FramesOf(w) = FramesOf(v) /\ MixSizeOf(w) = MixSizeOf(v)
      /\ FrameOf(w) = FrameOf(v) /\ (AgreesWith(v) => AgreesWith(w))
  BY DEF FramesOf, MixSizeOf, FrameOf, AgreesWith
<1>2. LoopEnd(s, w) = LoopEnd(s, v) /\ FirstEnd(s, w) = FirstEnd(s, v)
  BY <1>1 DEF LoopEnd, FirstEnd
<1>3. /\ w.start # Null => w.start = v.start /\ v.start # Null
      /\ w.end # Null => w.end = v.end /\ v.end # Null
  OBVIOUS
<1>4. BlockLies(w, g)
  BY <1>1 DEF Lies, BlockLies
<1>5. RestLies(s, w, g)
  BY <1>1 DEF Lies, RestLies
<1>6. RawLies(s, w, g)
  BY <1>1, <1>2, <1>3 DEF Lies, RawLies
<1>7. VocLies(s, w, g)
  BY <1>1, <1>3 DEF Lies, VocLies
<1>8. FeedLies(s, w)
  BY DEF Lies, FeedLies
<1>9. QED BY <1>4, <1>5, <1>6, <1>7, <1>8 DEF Lies

LEMMA SizeType ==
    ASSUME NEW v \in Voices
    PROVE  /\ MixSizeOf(v) \in {1, 2, 4}
           /\ AgreesWith(v) => MixSizeOf(v) = FrameOf(v)
           /\ v.mix[3] = 8 /\ v.mix[4] = 1 => MixSizeOf(v) = 1
           /\ v.width = 8 /\ v.channels = 1 => FrameOf(v) = 1
<1>1. v.mix[3] \in {8, 16} /\ v.mix[4] \in {1, 2}
  BY DEF Voices, Mixes
<1>2. QED BY <1>1 DEF MixSizeOf, AgreesWith, FrameOf

LEMMA Distributes ==
    ASSUME NEW a \in Int, NEW b \in Int, NEW c \in Int
    PROVE  (a + b) * c = a * c + b * c
OBVIOUS

\* The next part of b frames that lie in front of g lies there, and so does the rest.
LEMMA PartLies ==
    ASSUME NEW w \in Voices, NEW b \in Int, NEW g \in Int,
           w.length = LeastOf(b, Block) * One, w.block = b - LeastOf(b, Block),
           b > 0 => w.sound + b * MixSizeOf(w) <= g
    PROVE  /\ BlockLies(w, g) /\ (w.length > 0 <=> b > 0)
           /\ \A s : RestLies(s, w, g)
           /\ FramesOf(w) = LeastOf(b, Block)
<1> DEFINE n == LeastOf(b, Block)
           size == MixSizeOf(w)
<1>1. n \in Int /\ n <= b /\ (b > 0 <=> n > 0) /\ (b <= 0 => n = b)
  BY ConstantsAssumption DEF LeastOf
<1>2. One \in Nat \ {0} /\ size \in {1, 2, 4}
  BY OneAssumption, SizeType
<1> HIDE DEF n
<1>3. FramesOf(w) = n
  BY <1>1, <1>2, QuotientOfMultiple DEF FramesOf, n
<1>4. w.length > 0 <=> n > 0
  <2>1. w.length = n * One /\ n * One \in Int /\ 0 * One = 0
    BY <1>1, <1>2, IntProducts DEF n
  <2>2. n > 0 => n * One > 0
    <3>1. SUFFICES ASSUME n > 0 PROVE n * One > 0
      OBVIOUS
    <3>2. n \in Nat \ {0}
      BY <1>1, <3>1
    <3>3. n * One \in Nat \ {0}
      BY <1>2, <3>2, Products
    <3>4. QED BY <3>3
  <2>3. n <= 0 => n * One <= 0 * One
    BY <1>1, <1>2, ProductsGrow
  <2>4. QED BY <1>1, <2>1, <2>2, <2>3
<1>5. w.sound \in Int /\ n * size \in Int /\ b * size \in Int
  BY <1>1, <1>2, IntProducts DEF Voices
<1>6. n * size <= b * size
  BY <1>1, <1>2, ProductsGrow
<1> HIDE DEF size
<1>7. n > 0 => w.sound + n * size <= g
  BY <1>1, <1>5, <1>6 DEF size
<1>8. BlockLies(w, g)
  BY <1>3, <1>4, <1>7 DEF BlockLies, n, size
<1>9. ASSUME NEW s PROVE RestLies(s, w, g)
  <2>1. n + w.block = b
    BY <1>1 DEF n
  <2>2. w.block > 0 => b > 0
    BY <1>1 DEF n
  <2>3. QED BY <1>1, <1>3, <1>4, <2>1, <2>2 DEF RestLies, size
<1>10. QED BY <1>1, <1>3, <1>4, <1>8, <1>9 DEF n

\* Before a sound plays nothing has been read of it, and where it will end is known.
LEMMA FreshLies ==
    ASSUME NEW s \in Sounds, NEW w \in Voices, Like(Fresh(s), w)
    PROVE  Lies(s, w, 0) /\ AgreesWith(w) /\ (s.type = "voc" => w.block = 0)
<1>0. Sound(s)
  BY ConstantsAssumption
<1> DEFINE f == Fresh(s)
<1>1. /\ w.next = f.next /\ w.block = f.block /\ w.size = f.size
      /\ w.start = f.start /\ w.end = f.end /\ w.length = f.length
      /\ w.width = f.width /\ w.channels = f.channels
      /\ w.mix[3] = f.width /\ w.mix[4] = f.channels
  BY DEF Like
<1>2. f.length = 0
  BY FreshType
<1> HIDE DEF f
<1>3. AgreesWith(w)
  BY <1>1 DEF AgreesWith
<1>4. BlockLies(w, 0)
  <2>1. 0 \div One = 0 /\ 0 * One = 0
    BY OneAssumption
  <2>2. QED BY <1>1, <1>2, <2>1 DEF BlockLies, FramesOf
<1>5. CASE s.type = "feed"
  <2>1. f.block = 0 /\ f.width = 8 /\ f.channels = 1
    BY <1>5 DEF f, Fresh, Filled, StartDemandFeedPlayback, Idle
  <2>2. QED BY <1>1, <1>3, <1>4, <1>5, <2>1 DEF Lies, RestLies, RawLies, VocLies, FeedLies
<1>6. CASE s.type = "voc"
  <2> DEFINE a == IF s.loop[1] < 0 THEN Null ELSE s.loop[1]
             e == IF s.loop[1] < 0 THEN Null ELSE s.loop[2]
             n == s.loop[2] - s.loop[1] + 1
  <2>1. /\ f.block = 0 /\ f.width = 8 /\ f.channels = 1
        /\ f.start = a /\ f.end = e /\ f.size = n
    BY <1>6 DEF f, Fresh, PlayVOC, Idle
  <2>2. s.loop \in Int \X Int /\ (s.loop[1] >= 0 => s.loop[2] \in 0..(Base - 1))
    BY <1>0, <1>6 DEF Sound
  <2>3. a # Null \/ e # Null => s.loop[1] >= 0
    BY <2>2 DEF Null
  <2>4. s.loop[1] >= 0 => a + n = s.loop[2] + 1 /\ a + n <= Base
    BY <2>2 DEF Base
  <2> HIDE DEF a, e, n
  <2>5. VocLies(s, w, 0)
    BY <1>1, <1>2, <1>3, <2>1, <2>3, <2>4 DEF VocLies, Repeats
  <2>6. QED BY <1>1, <1>3, <1>4, <1>6, <2>1, <2>5 DEF Lies, RestLies, RawLies, FeedLies
<1>7. CASE s.type = "raw"
  <2>1. /\ f.next = Base /\ f.block = s.frames /\ f.width = 8 /\ f.channels = 1
        /\ f.start = s.loop[1] /\ f.size = s.loop[2] - s.loop[1] + 1
    BY <1>7 DEF f, Fresh, Filled, PlayRaw, Idle
  <2>2. s.frames \in Nat /\ s.loop[1] \in Nat /\ s.loop[2] \in Nat
    BY <1>0, <1>7 DEF Sound
  <2>3. FrameOf(w) = 1
    BY <1>1, <2>1, SizeType
  <2>4. FirstEnd(s, w) = Base + s.frames /\ LoopEnd(s, w) = s.loop[2] + 1
    BY <1>7, <2>2, <2>3 DEF FirstEnd, LoopEnd
  <2>5. RawLies(s, w, 0)
    BY <1>1, <2>1, <2>2, <2>3, <2>4 DEF RawLies, Base
  <2>6. QED BY <1>1, <1>3, <1>4, <1>7, <2>5 DEF Lies, RestLies, VocLies, FeedLies
<1>8. CASE s.type = "wav"
  <2> DEFINE frame == (s.width \div 8) * s.channels
             end   == LeastOf(s.loop[2], s.frames)
             from  == Base + s.loop[1] * frame
  <2>1. /\ s.frames \in Nat /\ s.width \in {8, 16} /\ s.channels \in {1, 2}
        /\ s.loop[1] \in Int /\ s.loop[2] \in Int /\ (s.loop[1] >= 0 => s.loop[2] >= 0)
    BY <1>0, <1>8 DEF Sound
  <2>2. frame \in {1, 2, 4}
    BY <2>1
  <2>3. /\ f.next = Base /\ f.width = s.width /\ f.channels = s.channels
        /\ ~LoopInside(s) => f.block = s.frames /\ f.start = Null
        /\ LoopInside(s) => /\ f.block = end /\ f.size = end - s.loop[1]
                            /\ f.start = from
    <3>1. CASE LoopInside(s)
      BY <1>8, <3>1 DEF f, Fresh, Filled, PlayWAV, Idle
    <3>2. CASE ~LoopInside(s)
      BY <1>8, <3>2 DEF f, Fresh, Filled, PlayWAV, Idle
    <3>3. QED BY <3>1, <3>2
  <2>4. FrameOf(w) = frame
    BY <1>1, <2>3 DEF FrameOf
  <2>5. LoopInside(s) => end \in Nat /\ s.loop[1] \in Nat
    BY <2>1 DEF LoopInside, LeastOf
  <2>6. LoopEnd(s, w) = Base + end * frame
    BY <1>8, <2>4 DEF LoopEnd
  <2>7. FirstEnd(s, w) = IF LoopInside(s) THEN Base + end * frame
                         ELSE Base + s.frames * frame
    BY <1>8, <2>4, <2>6 DEF FirstEnd
  <2> HIDE DEF frame, end
  <2>8. s.frames * frame \in Nat /\ (LoopInside(s) => end * frame \in Nat)
    BY <2>1, <2>2, <2>5, NatProducts
  <2>9. LoopInside(s) => from + (end - s.loop[1]) * frame = Base + end * frame
    BY <2>2, <2>5 DEF Base
  <2> HIDE DEF from
  <2>10. RawLies(s, w, 0)
    <3>1. CASE LoopInside(s)
      BY <1>1, <2>3, <2>4, <2>6, <2>7, <2>8, <2>9, <3>1 DEF RawLies, Base
    <3>2. CASE ~LoopInside(s)
      BY <1>1, <2>3, <2>4, <2>7, <2>8, <3>2 DEF RawLies, Base
    <3>3. QED BY <3>1, <3>2
  <2>11. QED BY <1>1, <1>3, <1>4, <1>8, <2>10 DEF Lies, RestLies, VocLies, FeedLies
<1>9. QED BY <1>0, <1>5, <1>6, <1>7, <1>8 DEF Sound

LEMMA UnreadReads ==
    ASSUME NEW g \in Nat
    PROVE  ReadsTo(Unread, g)
BY DEF ReadsTo, Unread

\* The one or two samples that are fetched in advance end at most two steps further.
LEMMA FetchEnds ==
    ASSUME NEW x \in Int, NEW r \in Nat \ {0}, NEW size \in {1, 2, 4}, NEW a \in {1, 2}
    PROVE  /\ FrameEnd(x + a * r, size) \in Int /\ size * Frames(2 * r) \in Int
           /\ FrameEnd(x + a * r, size) <= FrameEnd(x, size) + size * Frames(2 * r)
<1> DEFINE y == x + a * r
           q == x \div One
           k == y \div One
           b == 2 * r + One - 1
           c == b \div One
<1>1. One \in Nat \ {0} /\ y \in Int /\ b \in Int /\ y <= x + b - One + 1
  BY OneAssumption
<1> HIDE DEF y, b
<1>2. /\ q \in Int /\ x < q * One + One
      /\ k \in Int /\ k * One <= y
      /\ c \in Int /\ b < c * One + One
  BY <1>1, IntQuotients
<1>3. Frames(2 * r) = c /\ FrameEnd(y, size) = size * k + size
      /\ FrameEnd(x, size) = size * q + size
  BY DEF Frames, FrameEnd, b
<1> HIDE DEF q, k, c
<1>4. q * One \in Int /\ k * One \in Int /\ c * One \in Int
  BY <1>1, <1>2, IntProducts
<1>5. (q + c) * One = q * One + c * One
  BY <1>1, <1>2
<1>6. k <= q + c
  <2>1. SUFFICES ASSUME q + c < k PROVE FALSE
    BY <1>2
  <2>2. (q + c) * One + One <= k * One
    BY <1>1, <1>2, <2>1, ProductOrder
  <2>3. QED BY <1>1, <1>2, <1>4, <1>5, <2>2
<1>7. QED BY <1>2, <1>3, <1>6 DEF y

\* The mixer of a part reads what lies between the position and the end of the block.
LEMMA PartReads ==
    ASSUME TypeInv, PageInv, ReadInv, MixPart
    PROVE  ReadInv'
<1> USE DEF TypeInv, VoiceInv, SoundInv, HandlerInv
<1> DEFINE n == VocLength
           r == voice.rate
           p == voice.position
           l == voice.length
           size == MixSizeOf(voice)
           f == FramesOf(voice)
<1>1. /\ voice \in Voices /\ todo \in Nat \ {0} /\ ipc = "mix" /\ fixed \in Int
      /\ p < l
      /\ UNCHANGED <<sound, torn, goal>>
  BY MixPartIs
<1>2. PICK w \in Written(voice.mix, n) :
          /\ Left(n, w) \in Nat
          /\ ipc' = (IF Left(n, w) >= voice.length THEN "get" ELSE "mix")
          /\ voice' = [voice EXCEPT !.position = Left(n, w)]
          /\ torn => reach' = Unread
          /\ reach' = Unread \/ \E a \in {1, 2} : reach' = ReadBy(w, a)
  BY MixPartIs
<1>3. /\ n \in Nat \ {0}
      /\ \/ p + fixed < l /\ n = todo
         \/ (n - 1) * r < l - p
  BY <1>1, VocLengthIs
<1>4. ~torn => fixed = r * (todo - 1)
  BY <1>1 DEF PageInv, Fits
<1>5. r \in Nat \ {0} /\ p \in Nat /\ l \in Int /\ voice.sound \in Int
  BY <1>1 DEF Voices
<1> HIDE DEF n
<1>6. w[1] \in Nat /\ w[1] <= n
  BY <1>3, WrittenCount
<1>7. sound # None /\ sound' = sound
  BY <1>1
<1>8. Lies(sound, voice, goal) /\ goal \in Nat
  BY <1>7 DEF ReadInv
<1>9. /\ voice'.sound = voice.sound /\ voice'.next = voice.next
      /\ voice'.block = voice.block /\ voice'.size = voice.size
      /\ voice'.length = voice.length
      /\ voice'.width = voice.width /\ voice'.channels = voice.channels
      /\ voice'.start = voice.start /\ voice'.end = voice.end /\ voice'.mix = voice.mix
  BY <1>1, <1>2 DEF Voices
<1>10. Lies(sound, voice', goal)
  BY <1>8, <1>9, LiesSame
<1>11. AgreesWith(voice)
  BY <1>1, <1>7 DEF ReadInv, MixAgrees
<1>12. AgreesWith(voice')
  BY <1>9, <1>11 DEF AgreesWith
<1>13. ReadsTo(reach', goal)
  <2>1. CASE reach' = Unread
    BY <1>8, <2>1, UnreadReads
  <2>2. CASE reach' # Unread
    <3> DEFINE x == p + (w[1] - 1) * r
               q == x \div One
    <3>0. ~torn
      BY <1>2, <2>2
    <3>1. (n - 1) * r < l - p
      <4>1. CASE n = todo /\ p + fixed < l
        <5>1. fixed = r * (n - 1)
          BY <1>4, <3>0, <4>1
        <5>2. r * (n - 1) = (n - 1) * r /\ (n - 1) * r \in Int
          <6>1. n - 1 \in Int /\ r \in Int
            BY <1>3, <1>5
          <6> HIDE DEF r
          <6>2. QED BY <1>3, <6>1, IntProducts
        <5>3. QED BY <1>1, <1>5, <4>1, <5>1, <5>2
      <4>2. QED BY <1>3, <4>1
    <3>2. (w[1] - 1) * r <= (n - 1) * r /\ (w[1] - 1) * r \in Int /\ (n - 1) * r \in Int
      <4>1. w[1] - 1 <= n - 1 /\ w[1] - 1 \in Int /\ n - 1 \in Int
        BY <1>3, <1>6
      <4> HIDE DEF r
      <4>2. QED BY <1>5, <4>1, ProductsGrow, IntProducts DEF r
    <3>3. x \in Int /\ x < l
      BY <1>5, <3>1, <3>2
    <3>4. One \in Nat \ {0} /\ size \in {1, 2, 4}
      BY <1>1, OneAssumption, SizeType
    <3>5. q \in Int /\ q * One <= x
      BY <3>3, <3>4, IntQuotients
    <3>6. l = f * One /\ f \in Int /\ (l > 0 => voice.sound + f * size <= goal)
      BY <1>5, <1>8, <3>4 DEF Lies, BlockLies, FramesOf
    <3>7. PICK a \in {1, 2} : reach' = ReadBy(w, a)
      BY <1>2, <2>2
    <3>8. Frame = size
      BY <1>1, <1>11, SizeType DEF Frame, FrameOf
    <3>9. /\ reach'.played = voice.sound + FrameEnd(x, size)
          /\ reach'.read = voice.sound + FrameEnd(x + a * r, size)
          /\ reach'.spare = size * Frames(2 * r)
      BY <3>7, <3>8 DEF ReadBy, MixSize, MixSizeOf
    <3> HIDE DEF x, r
    <3>10. ~(f <= q)
      <4>1. SUFFICES ASSUME f <= q PROVE FALSE
        OBVIOUS
      <4> HIDE DEF q, f, l
      <4>2. f * One <= q * One
        BY <3>4, <3>5, <3>6, <4>1, ProductsGrow
      <4>3. q * One \in Int /\ f * One \in Int
        BY <3>4, <3>5, <3>6, IntProducts
      <4>4. QED BY <3>3, <3>5, <3>6, <4>2, <4>3
    <3>11. FrameEnd(x, size) = size * q + size
      BY DEF FrameEnd
    <3> HIDE DEF q, f, size
    <3>12. q + 1 <= f
      BY <3>5, <3>6, <3>10
    <3>13. (q + 1) * size <= f * size /\ f * size \in Int
      BY <3>4, <3>5, <3>6, <3>12, ProductsGrow, IntProducts
    <3>14. (q + 1) * size = size * q + size /\ size * q + size \in Int
      BY <3>4, <3>5
    <3>15. voice.sound + f * size <= goal
      BY <1>1, <1>5, <3>6
    <3>16. reach'.played \in Int /\ reach'.played <= goal
      BY <1>5, <1>8, <3>9, <3>11, <3>13, <3>14, <3>15
    <3>17. /\ FrameEnd(x + a * r, size) \in Int /\ size * Frames(2 * r) \in Int
           /\ FrameEnd(x + a * r, size) <= FrameEnd(x, size) + size * Frames(2 * r)
      BY <1>5, <3>3, <3>4, FetchEnds
    <3>18. QED BY <1>5, <1>8, <3>9, <3>11, <3>14, <3>16, <3>17 DEF ReadsTo
  <2>3. QED BY <2>1, <2>2
<1>14. goal' = goal /\ ipc' # "voc"
  BY <1>1, <1>2
<1>15. QED BY <1>7, <1>8, <1>10, <1>12, <1>13, <1>14 DEF ReadInv, MixAgrees

\* What the handler goes on with when GetSound has found more of the sound.
LEMMA KeepReads ==
    ASSUME TypeInv, ReadInv, NEW from \in {"get", "voc"}, NEW v \in Voices,
           KeepPlaying(from, v),
           Lies(sound, v, goal'), AgreesWith(v),
           goal' \in Nat, ReadsTo(reach', goal')
    PROVE  ReadInv'
<1>1. /\ voice' = v /\ ipc' \in {"begin", "mix", "end"} /\ sound' = sound
  BY KeepType
<1>2. QED BY <1>1 DEF ReadInv, MixAgrees

\* The same when it has not.
LEMMA NoMoreReads ==
    ASSUME TypeInv, ReadInv, NEW from \in {"get", "voc"}, NEW v \in Voices,
           NoMoreData(from, v),
           Lies(sound, v, goal), AgreesWith(v) \/ ~v.playing
    PROVE  ReadInv'
<1>1. /\ voice' = v /\ ipc' = "end" /\ sound' = sound /\ goal' = goal /\ reach' = reach
  BY NoMoreType DEF ghosts
<1>2. QED BY <1>1 DEF ReadInv, MixAgrees

\* A part of a raw sound: 16-bit stereo moves on by less than it plays.
LEMMA RawPartLies ==
    ASSUME NEW s, s.type \in {"raw", "wav"}, NEW v \in Voices, v.position >= v.length,
           NEW g \in Nat \ {0}, AgreesWith(v),
           v.block > 0 => v.next + v.block * FrameOf(v) <= g,
           v.start # Null =>
               v.start + v.size * FrameOf(v) = LoopEnd(s, v) /\ LoopEnd(s, v) > 0
    PROVE  Lies(s, RawPart(v), g) /\ AgreesWith(RawPart(v)) /\ RawPart(v) \in Voices
<1> DEFINE w == RawPart(v)
           b == v.block
           n == LeastOf(b, Block)
           x == v.next
           z == v.width \div 8
           k == FrameOf(v)
<1>1. /\ w \in Voices /\ n \in Int
      /\ w.length = n * One /\ w.block = b - n /\ w.next = x + n * z
      /\ w.sound = x
      /\ w.start = v.start /\ w.end = v.end /\ w.size = v.size
      /\ w.width = v.width /\ w.channels = v.channels /\ w.mix = v.mix
  BY RawPartType
<1>2. /\ b \in Int /\ x \in Int /\ z \in {1, 2} /\ k \in {1, 2, 4} /\ z <= k
  BY FrameType DEF Voices
<1>3. AgreesWith(w) /\ FrameOf(w) = k
  BY <1>1 DEF AgreesWith, FrameOf
<1>4. MixSizeOf(w) = k
  BY <1>1, <1>3, SizeType
<1> HIDE DEF w, k, z
<1>5. b > 0 => w.sound + b * MixSizeOf(w) <= g
  BY <1>1, <1>4 DEF k
<1>6. n <= b /\ (b > 0 => n > 0) /\ (b <= 0 => n = b)
  BY <1>2, ConstantsAssumption DEF LeastOf
<1>7. BlockLies(w, g) /\ \A t : RestLies(t, w, g)
  BY <1>1, <1>2, <1>5, PartLies
<1>8. w.block > 0 => w.next + w.block * k <= g
  <2>1. SUFFICES ASSUME w.block > 0 PROVE w.next + w.block * k <= g
    OBVIOUS
  <2>2. b > 0 /\ n > 0
    BY <1>1, <1>2, <1>6, <2>1
  <2>3. x + b * k <= g
    BY <2>2 DEF k
  <2> HIDE DEF n, b, x
  <2>4. n * z <= n * k
    BY <1>1, <1>2, <2>2
  <2>5. n * k + (b - n) * k = b * k /\ n * k \in Int /\ n * z \in Int
        /\ (b - n) * k \in Int /\ b * k \in Int
    BY <1>1, <1>2
  <2>6. QED BY <1>1, <1>2, <2>3, <2>4, <2>5
<1>9. LoopEnd(s, w) = LoopEnd(s, v)
  BY <1>3 DEF LoopEnd, k
<1>10. RawLies(s, w, g)
  BY <1>1, <1>3, <1>8, <1>9 DEF RawLies, k
<1>11. VocLies(s, w, g) /\ FeedLies(s, w)
  BY DEF VocLies, FeedLies
<1>12. QED BY <1>1, <1>3, <1>7, <1>10, <1>11 DEF Lies, w

\* What has been found so far of a feed or a VOC block goes on.
LEMMA NextPartLies ==
    ASSUME voice \in Voices, voice.position >= voice.length, sound.type \in {"feed", "voc"},
           voice.block > 0, Lies(sound, voice, goal), AgreesWith(voice), goal \in Nat,
           NEW bytes \in {1, 2}, bytes <= MixSizeOf(voice)
    PROVE  /\ Lies(sound, NextPart(bytes), goal)
           /\ AgreesWith(NextPart(bytes)) /\ NextPart(bytes) \in Voices
<1> DEFINE w == NextPart(bytes)
           b == voice.block
           n == LeastOf(b, Block)
           f == FramesOf(voice)
           k == MixSizeOf(voice)
<1>1. /\ w \in Voices
      /\ w.length = n * One /\ w.block = b - n
      /\ w.sound = voice.sound + f * bytes
      /\ w.start = voice.start /\ w.end = voice.end /\ w.size = voice.size
      /\ w.width = voice.width /\ w.channels = voice.channels /\ w.mix = voice.mix
  BY NextPartType DEF FramesOf
<1> HIDE DEF w
<1>2. AgreesWith(w) /\ MixSizeOf(w) = k
  BY <1>1 DEF AgreesWith, MixSizeOf
<1>3. /\ voice.length > 0 /\ voice.sound + (f + b) * k <= goal /\ voice.length = f * One
  BY DEF Lies, RestLies, BlockLies
<1>4. /\ One \in Nat \ {0} /\ k \in {1, 2, 4} /\ b \in Int /\ voice.length \in Int
      /\ voice.sound \in Int
  BY OneAssumption, SizeType DEF Voices
<1>5. f \in Int
  BY <1>4, IntQuotients DEF FramesOf
<1> HIDE DEF f, k
<1>6. f >= 0
  <2>1. SUFFICES ASSUME f <= 0 PROVE f >= 0
    BY <1>5
  <2>2. f * One <= 0 * One /\ 0 * One = 0
    BY <1>4, <1>5, <2>1, ProductsGrow
  <2>3. QED BY <1>3, <1>4, <1>5, <2>2, IntProducts
<1>7. (f + b) * k = f * k + b * k /\ f * k \in Int /\ b * k \in Int /\ f * bytes \in Int
  BY <1>4, <1>5
<1>8. f * bytes <= f * k
  BY <1>4, <1>5, <1>6 DEF k
<1>9. w.sound + b * MixSizeOf(w) <= goal
  BY <1>1, <1>2, <1>3, <1>4, <1>7, <1>8
<1>10. BlockLies(w, goal) /\ RestLies(sound, w, goal) /\ w.length > 0
  BY <1>1, <1>4, <1>9, PartLies
<1>11. RawLies(sound, w, goal) /\ FeedLies(sound, w)
  BY <1>1 DEF RawLies, FeedLies, Lies
<1>12. VocLies(sound, w, goal)
  BY <1>1, <1>2, <1>3, <1>10 DEF VocLies, Lies
<1>13. QED BY <1>1, <1>2, <1>10, <1>11, <1>12 DEF Lies, w

\* The frames that the program gives.
LEMMA FedLies ==
    ASSUME voice \in Voices, sound.type = "feed", Lies(sound, voice, goal),
           AgreesWith(voice), goal \in Nat, NEW n \in Nat
    PROVE  LET w == Cut(Fed(n))
               g == IF n > 0 THEN Base + n ELSE goal
           IN  Lies(sound, w, g) /\ AgreesWith(w) /\ w \in Voices
<1> DEFINE w == Cut(Fed(n))
           g == IF n > 0 THEN Base + n ELSE goal
           v == Fed(n)
           b == n
<1>1. /\ v \in Voices /\ v.block = n /\ v.sound = Base
      /\ v.width = voice.width /\ v.channels = voice.channels /\ v.mix = voice.mix
  BY LoopTypes
<1> HIDE DEF v
<1>2. /\ w \in Voices
      /\ w.length = LeastOf(b, Block) * One /\ w.block = b - LeastOf(b, Block)
      /\ w.sound = Base
      /\ w.width = voice.width /\ w.channels = voice.channels /\ w.mix = voice.mix
  BY <1>1, CutType DEF v
<1> HIDE DEF w
<1>3. AgreesWith(w) /\ w.width = 8 /\ w.channels = 1
  BY <1>2 DEF AgreesWith, Lies, FeedLies
<1>4. MixSizeOf(w) = 1
  BY <1>2, <1>3, SizeType
<1>5. b \in Int /\ g \in Int /\ (b > 0 => w.sound + b * MixSizeOf(w) <= g)
  BY <1>2, <1>4 DEF Base
<1> HIDE DEF b, g
<1>6. BlockLies(w, g) /\ RestLies(sound, w, g)
  BY <1>2, <1>5, PartLies
<1>7. RawLies(sound, w, g) /\ VocLies(sound, w, g) /\ FeedLies(sound, w)
  BY <1>3 DEF RawLies, VocLies, FeedLies
<1>8. QED BY <1>2, <1>3, <1>6, <1>7 DEF Lies, w, g

\* A loop of a VOC file: that which was asked for, or one up to the end of the file.
LEMMA LoopLies ==
    ASSUME NEW v \in Voices, NEW g \in Nat, sound.type = "voc", voice \in Voices,
           Lies(sound, voice, goal), voice.start # Null,
           v.sound = voice.start, v.start = voice.start, v.end = voice.end,
           v.size = voice.size, v.width = voice.width, v.channels = voice.channels,
           v.mix = voice.mix, v.block > 0 => v.sound + v.block <= g,
           v.end # Null => v.size <= 0 \/ v.start + v.size <= IF v.block > 0 THEN g ELSE Base
    PROVE  Lies(sound, Cut(v), g) /\ AgreesWith(Cut(v)) /\ Cut(v) \in Voices
<1> DEFINE w == Cut(v)
           b == v.block
<1>1. /\ w \in Voices
      /\ w.length = LeastOf(b, Block) * One /\ w.block = b - LeastOf(b, Block)
      /\ w.sound = v.sound /\ w.start = v.start /\ w.end = v.end /\ w.size = v.size
      /\ w.width = v.width /\ w.channels = v.channels /\ w.mix = v.mix
  BY CutType
<1> HIDE DEF w
<1>2. Repeats(sound) /\ voice.width = 8 /\ voice.channels = 1 /\ AgreesWith(voice)
  BY DEF Lies, VocLies
<1>3. AgreesWith(w) /\ w.width = 8 /\ w.channels = 1
  BY <1>1, <1>2 DEF AgreesWith
<1>4. MixSizeOf(w) = 1
  BY <1>1, <1>3, SizeType
<1>5. b \in Int /\ w.sound \in Int
  BY <1>1 DEF Voices
<1>6. b > 0 => w.sound + b * MixSizeOf(w) <= g
  BY <1>1, <1>4, <1>5
<1> HIDE DEF b
<1>7. BlockLies(w, g) /\ RestLies(sound, w, g) /\ (w.length > 0 <=> b > 0)
  BY <1>1, <1>5, <1>6, PartLies
<1>8. VocLies(sound, w, g)
  BY <1>1, <1>2, <1>3, <1>7 DEF VocLies, b
<1>9. RawLies(sound, w, g) /\ FeedLies(sound, w)
  BY DEF RawLies, FeedLies
<1>10. QED BY <1>1, <1>3, <1>7, <1>8, <1>9 DEF Lies, w

\* The data that a VOC block holds.
LEMMA FoundLies ==
    ASSUME TypeInv, ReadInv, RepeatsInBytes, AtVoc({"data", "more", "new"})
    PROVE  LET b == VocHere
               w == Found(b, Described(b))
               g == First(b) + Bytes(b, voice)
           IN  g \in Nat /\ Lies(sound, w, g) /\ AgreesWith(w) /\ w \in Voices
<1> DEFINE b     == VocHere
           v     == Described(b)
           w     == Found(b, v)
           bytes == Bytes(b, v)
           size  == FrameOf(v)
           block == bytes \div size
           n     == LeastOf(block, Block)
           g     == First(b) + bytes
<1>1. /\ sound \in Sounds /\ sound.type = "voc" /\ VocBlock(b) /\ b \in sound.blocks
      /\ b.kind \in {"data", "more", "new"} /\ ipc = "voc" /\ voice \in Voices
  BY AtVocHere DEF TypeInv, VoiceInv
<1>2. /\ v \in Voices /\ v.start = voice.start /\ v.end = voice.end
      /\ b.kind = "data" => v.width = 8 /\ (v.channels = 1 \/ v.channels = voice.channels)
      /\ b.kind = "new" => v.width = b.width /\ v.channels = b.channels
      /\ b.kind = "more" => v = voice
  BY DescribedType
<1>3. VoiceInv
  BY DEF TypeInv
<1> HIDE DEF b, v
<1>4. /\ w \in Voices /\ bytes \in Nat /\ block \in Nat
      /\ w.length = n * One /\ w.block = block - n
      /\ w.sound = First(b) /\ w.width = v.width /\ w.channels = v.channels
      /\ w.mix[3] = v.width /\ w.mix[4] = v.channels
      /\ v.end = Null => w.start = v.start /\ w.end = v.end
      /\ v.end # Null => /\ w.start = First(b) + v.start
                         /\ w.size = bytes - v.start
  BY <1>1, <1>2, <1>3, FoundType
<1>5. size \in {1, 2, 4}
  BY <1>2, FrameType
<1>6. First(b) \in Nat /\ g \in Nat
  BY <1>1, <1>4 DEF First, VocBlock
<1> HIDE DEF w, bytes, size
<1>7. block * size <= bytes
  BY <1>4, <1>5, IntQuotients
<1>8. AgreesWith(w) /\ MixSizeOf(w) = size
  <2>1. AgreesWith(w) /\ FrameOf(w) = size
    BY <1>4 DEF AgreesWith, FrameOf, size
  <2>2. QED BY <1>4, <2>1, SizeType
<1> HIDE DEF block
<1>9. w.sound + block * MixSizeOf(w) <= g /\ block \in Int
  <2>1. block * size \in Int
    BY <1>4, <1>5
  <2>2. QED BY <1>4, <1>6, <1>7, <1>8, <2>1
<1> HIDE DEF g
<1>10. BlockLies(w, g) /\ RestLies(sound, w, g) /\ (w.length > 0 <=> block > 0)
  BY <1>4, <1>6, <1>9, PartLies
<1>11. VocLies(sound, voice, goal)
  BY <1>1 DEF ReadInv, SoundInv, TypeInv, Lies
<1>12. w.start # Null \/ w.end # Null => Repeats(sound)
  BY <1>1, <1>2, <1>4, <1>11 DEF VocLies
<1>13. ASSUME Repeats(sound) PROVE w.width = 8 /\ w.channels = 1
  <2>1. OneByte(sound)
    BY <1>1, <1>13 DEF RepeatsInBytes
  <2>2. voice.width = 8 /\ voice.channels = 1
    BY <1>1, <1>11, <1>13 DEF VocLies
  <2>3. QED BY <1>1, <1>2, <1>4, <2>1, <2>2 DEF OneByte
<1>14. ASSUME w.start # Null, w.end # Null
       PROVE  w.size <= 0 \/ w.start + w.size <= IF w.length > 0 THEN g ELSE Base
  <2>1. v.end # Null
    BY <1>4, <1>14
  <2>2. v.start \in Nat
    BY <1>2 DEF Voices
  <2>3. w.start + w.size = g
    BY <1>4, <1>6, <2>1, <2>2 DEF g
  <2>4. CASE w.length > 0
    BY <1>6, <2>3, <2>4
  <2>5. CASE ~(w.length > 0)
    <3>1. block = 0
      BY <1>4, <1>10, <2>5
    <3>2. w.width = 8 /\ w.channels = 1
      BY <1>12, <1>13, <1>14
    <3>3. size = 1
      BY <1>2, <1>4, <3>2, SizeType DEF size
    <3>4. bytes = 0
      BY <1>4, <3>1, <3>3 DEF block
    <3>5. QED BY <1>4, <2>1, <2>2, <3>4
  <2>6. QED BY <2>4, <2>5
<1>15. VocLies(sound, w, g)
  BY <1>8, <1>12, <1>13, <1>14 DEF VocLies
<1>16. RawLies(sound, w, g) /\ FeedLies(sound, w)
  BY <1>1 DEF RawLies, FeedLies
<1>17. Lies(sound, w, g)
  BY <1>10, <1>15, <1>16 DEF Lies
<1>18. Bytes(b, voice) = bytes
  BY <1>2 DEF Bytes, bytes
<1>19. QED BY <1>4, <1>6, <1>8, <1>17, <1>18 DEF b, v, w, g

\* GetSound, at the end of a part.
LEMMA GetReads ==
    ASSUME TypeInv, ReadInv, GetSound
    PROVE  ReadInv'
<1> USE DEF TypeInv, VoiceInv, SoundInv, HandlerInv
<1>1. ipc = "get"
  BY DEF GetSound, GetNextRawBlock, RawLoop, RawEnd, GetNextDemandFeedBlock, DemandFeed,
         GetNextVOCBlock, VocLoop, VocParse, KeepPlaying, NoMoreData, InHandler
<1>2. /\ voice \in Voices /\ voice.position >= voice.length /\ sound # None
      /\ Lies(sound, voice, goal) /\ AgreesWith(voice)
      /\ goal \in Nat /\ ReadsTo(reach, goal)
  BY <1>1 DEF ReadInv, MixAgrees
<1>3. CASE GetNextRawBlock
  <2> DEFINE g == IF goal = 0 THEN FirstEnd(sound, voice) ELSE goal
  <2>1. /\ KeepPlaying("get", RawPart(voice)) /\ sound.type \in {"raw", "wav"}
        /\ voice.block > 0
        /\ IF goal = 0 THEN NewPass(FirstGoal) ELSE SamePass
    BY <1>3 DEF GetNextRawBlock, IsRaw
  <2>2. FirstGoal = FirstEnd(sound, voice)
    BY DEF FirstGoal, FirstEnd, LoopGoal, LoopEnd, Frame, FrameOf
  <2>3. goal' = g /\ reach' \in {Unread, reach} /\ (goal = 0 => reach' = Unread)
    BY <2>1, <2>2 DEF NewPass, SamePass, ghosts
  <2>4. RawLies(sound, voice, goal)
    BY <1>2 DEF Lies
  <2>5. voice.next + voice.block * FrameOf(voice) \in Int
    <3>1. voice.next \in Int /\ voice.block \in Int /\ FrameOf(voice) \in {1, 2, 4}
      BY <1>2, FrameType DEF Voices
    <3>2. QED BY <3>1
  <2>6. g \in Nat \ {0} /\ voice.next + voice.block * FrameOf(voice) <= g
    BY <1>2, <2>1, <2>4, <2>5 DEF RawLies
  <2>7. /\ Lies(sound, RawPart(voice), g) /\ AgreesWith(RawPart(voice))
        /\ RawPart(voice) \in Voices
    <3> HIDE DEF g
    <3>1. voice.start # Null =>
              /\ voice.start + voice.size * FrameOf(voice) = LoopEnd(sound, voice)
              /\ LoopEnd(sound, voice) > 0
      BY <2>1, <2>4 DEF RawLies
    <3>2. QED BY <1>2, <2>1, <2>6, <3>1, RawPartLies
  <2> HIDE DEF g
  <2>8. /\ goal' \in Nat /\ ReadsTo(reach', goal')
        /\ Lies(sound, RawPart(voice), goal')
    BY <1>2, <2>3, <2>6, <2>7, UnreadReads DEF g
  <2>9. QED BY <2>1, <2>7, <2>8, KeepReads
<1>4. CASE RawLoop
  <2> DEFINE g == LoopEnd(sound, voice)
  <2>1. /\ KeepPlaying("get", RawPart(LoopedRaw)) /\ sound.type \in {"raw", "wav"}
        /\ voice.start # Null /\ NewPass(LoopGoal)
    BY <1>4 DEF RawLoop, IsRaw, LoopedRaw
  <2>2. LoopGoal = g
    BY DEF LoopGoal, LoopEnd, Frame, FrameOf
  <2>3. goal' = g /\ reach' = Unread
    BY <2>1, <2>2 DEF NewPass
  <2>4. voice.start + voice.size * FrameOf(voice) = g /\ g > 0
    BY <1>2, <2>1 DEF Lies, RawLies
  <2>5. voice.start + voice.size * FrameOf(voice) \in Int
    <3>1. voice.start \in Int /\ voice.size \in Int /\ FrameOf(voice) \in {1, 2, 4}
      BY <1>2, FrameType DEF Voices
    <3>2. QED BY <3>1
  <2>6. g \in Nat \ {0}
    BY <2>4, <2>5
  <2> DEFINE v == LoopedRaw
  <2>7. /\ v \in Voices /\ v.position = 0 /\ v.length = 0 /\ v.next = voice.start
        /\ v.block = voice.size /\ v.size = voice.size /\ v.start = voice.start
        /\ v.width = voice.width /\ v.channels = voice.channels /\ v.mix = voice.mix
    BY <1>2, LoopTypes
  <2> HIDE DEF v
  <2>8. FrameOf(v) = FrameOf(voice) /\ AgreesWith(v)
    BY <1>2, <2>7 DEF FrameOf, AgreesWith
  <2>9. LoopEnd(sound, v) = g
    BY <2>8 DEF LoopEnd
  <2> HIDE DEF g
  <2>10. Lies(sound, RawPart(v), g) /\ AgreesWith(RawPart(v)) /\ RawPart(v) \in Voices
    <3>1. v.next + v.block * FrameOf(v) <= g
      BY <2>4, <2>6, <2>7, <2>8
    <3>2. v.start + v.size * FrameOf(v) = LoopEnd(sound, v) /\ LoopEnd(sound, v) > 0
      BY <2>4, <2>7, <2>8, <2>9
    <3>3. QED BY <2>1, <2>6, <2>7, <2>8, <3>1, <3>2, RawPartLies
  <2>11. goal' \in Nat /\ ReadsTo(reach', goal') /\ Lies(sound, RawPart(v), goal')
    BY <2>3, <2>6, <2>10, UnreadReads
  <2>12. QED BY <2>1, <2>10, <2>11, KeepReads DEF v
<1>5. CASE RawEnd
  <2> DEFINE v == [voice EXCEPT !.playing = FALSE]
  <2>1. NoMoreData("get", v)
    BY <1>5 DEF RawEnd
  <2>2. v \in Voices /\ ~v.playing
    BY <1>2 DEF Voices
  <2>3. /\ v.sound = voice.sound /\ v.next = voice.next /\ v.block = voice.block
        /\ v.size = voice.size /\ v.length = voice.length
        /\ v.width = voice.width /\ v.channels = voice.channels
        /\ v.start = voice.start /\ v.end = voice.end /\ v.mix = voice.mix
    BY <1>2 DEF Voices
  <2> HIDE DEF v
  <2>4. Lies(sound, v, goal)
    BY <1>2, <2>3, LiesSame
  <2>5. QED BY <2>1, <2>2, <2>4, NoMoreReads
<1>6. CASE GetNextDemandFeedBlock
  <2>1. KeepPlaying("get", NextPart(1)) /\ sound.type = "feed" /\ voice.block > 0 /\ SamePass
    BY <1>6 DEF GetNextDemandFeedBlock
  <2>2. goal' = goal /\ reach' = reach
    BY <2>1 DEF SamePass, ghosts
  <2>3. 1 <= MixSizeOf(voice) /\ 1 \in {1, 2}
    BY <1>2, SizeType
  <2>4. Lies(sound, NextPart(1), goal) /\ AgreesWith(NextPart(1)) /\ NextPart(1) \in Voices
    BY <1>2, <2>1, <2>3, NextPartLies
  <2>5. QED BY <1>2, <2>1, <2>2, <2>4, KeepReads
<1>7. ASSUME NEW n \in Chunks, DemandFeed(n) PROVE ReadInv'
  <2> DEFINE w == Cut(Fed(n))
             g == IF n > 0 THEN Base + n ELSE goal
  <2>1. /\ sound.type = "feed"
        /\ IF n > 0 THEN KeepPlaying("get", w) /\ NewPass(Base + n) ELSE NoMoreData("get", w)
    BY <1>7 DEF DemandFeed, Fed
  <2>2. n \in Nat
    BY ConstantsAssumption
  <2>3. Lies(sound, w, g) /\ AgreesWith(w) /\ w \in Voices
    BY <1>2, <2>1, <2>2, FedLies
  <2> HIDE DEF w
  <2>4. CASE n > 0
    <3>1. KeepPlaying("get", w) /\ goal' = g /\ reach' = Unread /\ g \in Nat
      BY <2>1, <2>2, <2>4 DEF NewPass, Base
    <3>2. ReadsTo(reach', goal') /\ goal' \in Nat
      BY <3>1, UnreadReads
    <3>3. QED BY <2>3, <3>1, <3>2, KeepReads
  <2>5. CASE ~(n > 0)
    <3>1. NoMoreData("get", w) /\ g = goal
      BY <2>1, <2>5
    <3>2. QED BY <2>3, <3>1, NoMoreReads
  <2>6. QED BY <2>4, <2>5
<1>8. CASE GetNextVOCBlock
  <2> DEFINE k == voice.width \div 8
  <2>1. KeepPlaying("get", NextPart(k)) /\ sound.type = "voc" /\ voice.block > 0 /\ SamePass
    BY <1>8 DEF GetNextVOCBlock
  <2>2. goal' = goal /\ reach' = reach
    BY <2>1 DEF SamePass, ghosts
  <2>3. k <= MixSizeOf(voice) /\ k \in {1, 2}
    BY <1>2, SizeType, FrameType
  <2> HIDE DEF k
  <2>4. Lies(sound, NextPart(k), goal) /\ AgreesWith(NextPart(k)) /\ NextPart(k) \in Voices
    BY <1>2, <2>1, <2>3, NextPartLies
  <2>5. QED BY <1>2, <2>1, <2>2, <2>4, KeepReads
<1>9. CASE VocLoop
  <2> DEFINE v == LoopedVoc
  <2>1. /\ KeepPlaying("get", Cut(v)) /\ sound.type = "voc"
        /\ voice.length > 0 /\ voice.end # Null /\ voice.start # Null /\ NewPass(goal)
    BY <1>9 DEF VocLoop, LoopedVoc
  <2>2. goal' = goal /\ reach' = Unread
    BY <2>1 DEF NewPass
  <2>3. /\ v \in Voices /\ v.sound = voice.start /\ v.start = voice.start
        /\ v.end = voice.end /\ v.size = voice.size /\ v.block = voice.size
        /\ v.width = voice.width /\ v.channels = voice.channels /\ v.mix = voice.mix
    BY <1>2, LoopTypes
  <2> HIDE DEF v
  <2>4. voice.size <= 0 \/ voice.start + voice.size <= goal
    BY <1>2, <2>1 DEF Lies, VocLies
  <2>5. voice.size \in Int
    BY <1>2 DEF Voices
  <2>6. /\ v.block > 0 => v.sound + v.block <= goal
        /\ v.size <= 0 \/ v.start + v.size <= IF v.block > 0 THEN goal ELSE Base
    BY <2>3, <2>4, <2>5
  <2>7. Lies(sound, Cut(v), goal) /\ AgreesWith(Cut(v)) /\ Cut(v) \in Voices
    BY <1>2, <2>1, <2>3, <2>6, LoopLies
  <2>8. ReadsTo(reach', goal')
    BY <1>2, <2>2, UnreadReads
  <2>9. QED BY <1>2, <2>1, <2>2, <2>7, <2>8, KeepReads
<1>10. CASE VocParse
  <2>1. /\ ipc' = "voc" /\ voice' = [voice EXCEPT !.playing = TRUE]
        /\ sound' = sound /\ goal' = goal /\ reach' = reach
        /\ voice.block = 0 /\ (voice.length = 0 \/ voice.end = Null \/ voice.start = Null)
    BY <1>10 DEF VocParse, InHandler, ghosts
  <2>2. /\ voice'.sound = voice.sound /\ voice'.next = voice.next
        /\ voice'.block = voice.block /\ voice'.size = voice.size
        /\ voice'.length = voice.length
        /\ voice'.width = voice.width /\ voice'.channels = voice.channels
        /\ voice'.start = voice.start /\ voice'.end = voice.end /\ voice'.mix = voice.mix
    BY <1>2, <2>1 DEF Voices
  <2>3. Lies(sound, voice', goal)
    BY <1>2, <2>2, LiesSame
  <2>4. QED BY <1>2, <2>1, <2>2, <2>3 DEF ReadInv, MixAgrees
<1>11. QED
  BY <1>3, <1>4, <1>5, <1>6, <1>7, <1>8, <1>9, <1>10 DEF GetSound

\* The blocks of a VOC file that are read at once.
LEMMA VocReads ==
    ASSUME TypeInv, ReadInv, RepeatsInBytes, VocStep
    PROVE  ReadInv'
<1> USE DEF TypeInv, VoiceInv, SoundInv, HandlerInv
<1>1. ipc = "voc" /\ sound \in Sounds /\ sound.type = "voc" /\ sound # None
  BY DEF VocStep, VocText, VocExtended, VocRepeat, VocUntil, VocEnd, VocData, AtVoc
<1>2. /\ voice \in Voices /\ Lies(sound, voice, goal) /\ voice.block = 0
      /\ voice.length = 0 \/ voice.end = Null \/ voice.start = Null
      /\ goal \in Nat /\ ReadsTo(reach, goal)
  BY <1>1 DEF ReadInv
<1>3. ASSUME NEW ptr, NEW v, NEW speed, ToBlock(ptr, v, speed), Lies(sound, v, goal),
             v.block = 0, v.length = 0 \/ v.end = Null \/ v.start = Null
      PROVE  ReadInv'
  <2>1. /\ ipc' = "voc" /\ voice' = v /\ sound' = sound /\ goal' = goal /\ reach' = reach
    BY <1>3 DEF ToBlock, InHandler, ghosts
  <2>2. QED BY <1>2, <1>3, <2>1 DEF ReadInv, MixAgrees
<1>4. CASE VocText
  BY <1>2, <1>3, <1>4 DEF VocText
<1>5. CASE VocExtended
  <2> DEFINE c == VocHere.channels
             v == [voice EXCEPT !.width = 8, !.channels = c]
  <2>1. ToBlock(Behind(VocHere), v, VocHere.speed)
    BY <1>5 DEF VocExtended
  <2>2. VocHere.kind = "extended" /\ VocHere \in sound.blocks
    BY <1>5, AtVocHere DEF VocExtended
  <2> HIDE DEF c
  <2>3. /\ v.sound = voice.sound /\ v.next = voice.next /\ v.block = voice.block
        /\ v.size = voice.size /\ v.length = voice.length
        /\ v.width = 8 /\ v.channels = c
        /\ v.start = voice.start /\ v.end = voice.end /\ v.mix = voice.mix
    BY <1>2 DEF Voices
  <2> HIDE DEF v
  <2>4. Repeats(sound) => c = 1
    BY <1>1, <2>2 DEF RepeatsInBytes, OneByte, c
  <2>5. VocLies(sound, v, goal)
    BY <1>1, <1>2, <2>3, <2>4 DEF Lies, VocLies, AgreesWith
  <2>6. FramesOf(v) = FramesOf(voice) /\ MixSizeOf(v) = MixSizeOf(voice)
    BY <2>3 DEF FramesOf, MixSizeOf
  <2>7. BlockLies(v, goal) /\ RestLies(sound, v, goal)
    BY <1>2, <2>3, <2>6 DEF Lies, BlockLies, RestLies
  <2>8. Lies(sound, v, goal)
    BY <1>1, <2>5, <2>7 DEF Lies, RawLies, FeedLies
  <2>9. QED BY <1>2, <1>3, <2>1, <2>3, <2>8
<1>6. CASE VocRepeat
  <2> DEFINE c == VocHere.count
             p == Behind(VocHere)
             x == [voice EXCEPT !.count = c, !.start = p]
             v == IF voice.end # Null THEN voice ELSE x
  <2>1. ToBlock(p, v, loc.speed)
    BY <1>6 DEF VocRepeat
  <2>2. VocHere.kind = "repeat" /\ VocHere \in sound.blocks
    BY <1>6, AtVocHere DEF VocRepeat
  <2>3. Repeats(sound)
    BY <2>2 DEF Repeats
  <2> HIDE DEF c, p
  <2>4. /\ x.sound = voice.sound /\ x.next = voice.next /\ x.block = voice.block
        /\ x.size = voice.size /\ x.length = voice.length
        /\ x.width = voice.width /\ x.channels = voice.channels
        /\ x.end = voice.end /\ x.mix = voice.mix
    BY <1>2 DEF Voices
  <2> HIDE DEF x
  <2>5. ASSUME voice.end = Null PROVE Lies(sound, x, goal)
    <3>1. VocLies(sound, x, goal)
      BY <1>1, <1>2, <2>3, <2>4, <2>5 DEF Lies, VocLies, AgreesWith
    <3>2. FramesOf(x) = FramesOf(voice) /\ MixSizeOf(x) = MixSizeOf(voice)
      BY <2>4 DEF FramesOf, MixSizeOf
    <3>3. BlockLies(x, goal) /\ RestLies(sound, x, goal)
      BY <1>2, <2>4, <3>2 DEF Lies, BlockLies, RestLies
    <3>4. QED BY <1>1, <3>1, <3>3 DEF Lies, RawLies, FeedLies
  <2>6. CASE voice.end = Null
    BY <1>2, <1>3, <2>1, <2>4, <2>5, <2>6
  <2>7. CASE voice.end # Null
    BY <1>2, <1>3, <2>1, <2>7
  <2>8. QED BY <2>6, <2>7
<1>7. CASE VocUntil
  <2> DEFINE again == loc.last # "repeat" /\ voice.count > 0 /\ voice.start # Null
             left  == IF voice.count < Forever THEN voice.count - 1 ELSE voice.count
             v == IF loc.last = "repeat" THEN [voice EXCEPT !.count = 0]
                  ELSE IF ~again THEN voice
                  ELSE [voice EXCEPT !.count = left,
                                     !.start = IF left = 0 THEN Null ELSE @]
             ptr == IF again THEN voice.start ELSE Behind(VocHere)
  <2>1. ToBlock(ptr, v, loc.speed)
    BY <1>7 DEF VocUntil
  <2> HIDE DEF left, again
  <2>2. /\ v.sound = voice.sound /\ v.next = voice.next /\ v.block = voice.block
        /\ v.size = voice.size /\ v.length = voice.length
        /\ v.width = voice.width /\ v.channels = voice.channels
        /\ v.start \in {voice.start, Null} /\ v.end = voice.end /\ v.mix = voice.mix
    BY <1>2 DEF Voices
  <2> HIDE DEF v
  <2>3. Lies(sound, v, goal)
    BY <1>2, <2>2, LiesSame
  <2>4. QED BY <1>2, <1>3, <2>1, <2>2, <2>3
<1>8. CASE VocEnd
  <2> DEFINE at == VocHere.at
             x  == [voice EXCEPT !.playing = FALSE]
             v  == Ended(at)
  <2>1. at \in Nat /\ at >= Base
    BY <1>8, AtVocHere DEF VocEnd, VocBlock
  <2>2. \/ NoMoreData("voc", x)
        \/ /\ voice.start # Null /\ voice.start < at
           /\ KeepPlaying("voc", Cut(v)) /\ NewPass(at)
    <3>1. voice.start \in Int
      BY <1>2 DEF Voices
    <3>2. QED BY <1>8, <2>1, <3>1 DEF VocEnd, Ended
  <2>3. CASE NoMoreData("voc", x)
    <3>1. /\ x.sound = voice.sound /\ x.next = voice.next /\ x.block = voice.block
          /\ x.size = voice.size /\ x.length = voice.length
          /\ x.width = voice.width /\ x.channels = voice.channels
          /\ x.start = voice.start /\ x.end = voice.end /\ x.mix = voice.mix
          /\ ~x.playing /\ x \in Voices
      BY <1>2 DEF Voices
    <3> HIDE DEF x
    <3>2. Lies(sound, x, goal)
      BY <1>2, <3>1, LiesSame
    <3>3. QED BY <2>3, <3>1, <3>2, NoMoreReads
  <2>4. CASE /\ voice.start # Null /\ voice.start < at
             /\ KeepPlaying("voc", Cut(v)) /\ NewPass(at)
    <3>1. goal' = at /\ reach' = Unread
      BY <2>4 DEF NewPass
    <3>2. /\ v \in Voices /\ v.sound = voice.start /\ v.start = voice.start
          /\ v.end = voice.end /\ v.size = voice.size /\ v.block = at - voice.start
          /\ v.width = voice.width /\ v.channels = voice.channels /\ v.mix = voice.mix
      BY <1>2, <2>1, LoopTypes
    <3> HIDE DEF v, at
    <3>3. voice.start \in Int /\ voice.size \in Int /\ voice.length \in Int
      BY <1>2 DEF Voices
    <3>4. v.block > 0 /\ v.sound + v.block <= at
      BY <2>1, <2>4, <3>2, <3>3
    <3>5. v.end # Null => voice.size <= 0 \/ voice.start + voice.size <= Base
      BY <1>1, <1>2, <2>4, <3>2, <3>3 DEF Lies, VocLies
    <3>6. v.end # Null => v.size <= 0 \/ v.start + v.size <= IF v.block > 0 THEN at ELSE Base
      BY <2>1, <3>2, <3>3, <3>4, <3>5 DEF Base
    <3>7. Lies(sound, Cut(v), at) /\ AgreesWith(Cut(v)) /\ Cut(v) \in Voices
      BY <1>1, <1>2, <2>1, <2>4, <3>2, <3>4, <3>6, LoopLies
    <3>8. goal' \in Nat /\ ReadsTo(reach', goal') /\ Lies(sound, Cut(v), goal')
      BY <2>1, <3>1, <3>7, UnreadReads
    <3>9. QED BY <2>4, <3>7, <3>8, KeepReads
  <2>5. QED BY <2>2, <2>3, <2>4
<1>9. CASE VocData
  <2> DEFINE w == Found(VocHere, Described(VocHere))
             g == First(VocHere) + Bytes(VocHere, voice)
  <2>1. AtVoc({"data", "more", "new"})
    BY <1>9 DEF VocData
  <2>2. KeepPlaying("voc", w) /\ NewPass(g)
    BY <1>9 DEF VocData, Described, Bytes
  <2>3. g \in Nat /\ Lies(sound, w, g) /\ AgreesWith(w) /\ w \in Voices
    BY <2>1, FoundLies
  <2> HIDE DEF w, g
  <2>4. goal' = g /\ reach' = Unread
    BY <2>2 DEF NewPass
  <2>5. goal' \in Nat /\ ReadsTo(reach', goal') /\ Lies(sound, w, goal')
    BY <2>3, <2>4, UnreadReads
  <2>6. QED BY <2>2, <2>3, <2>5, KeepReads
<1>10. QED BY <1>4, <1>5, <1>6, <1>7, <1>8, <1>9 DEF VocStep

\* The program, which begins a sound, changes its mixer for one of the same samples, or
\* takes its loop away.
LEMMA PlayReads ==
    ASSUME TypeInv, ReadInv, NEW s \in Sounds, NEW pan \in Pans, NEW pitch \in Pitches,
           Play(s, pan, pitch)
    PROVE  ReadInv'
<1>1. /\ voice' \in Voices /\ Like(Fresh(s), voice')
      /\ sound' = s /\ ipc = "idle" /\ UNCHANGED ipc
      /\ goal' = 0 /\ reach' = Unread
  BY PlayMakes
<1>2. Lies(s, voice', 0) /\ AgreesWith(voice')
  BY <1>1, FreshLies
<1>3. goal' \in Nat /\ ReadsTo(reach', goal') /\ ipc' = "idle"
      /\ Lies(sound', voice', goal')
  BY <1>1, <1>2, UnreadReads
<1>4. QED BY <1>2, <1>3 DEF ReadInv, MixAgrees

LEMMA MainReads ==
    ASSUME TypeInv, ReadInv, MainChange
    PROVE  ReadInv'
<1>1. /\ voice' \in Voices /\ Kept(voice, voice') /\ ipc = "idle"
      /\ ipc' = "idle" /\ sound' = sound /\ goal' = goal /\ reach' = reach
  BY MainKeeps DEF ghosts
<1>2. voice \in Voices /\ VoiceInv
  BY DEF TypeInv, VoiceInv
<1>3. ASSUME sound # None PROVE Lies(sound, voice', goal) /\ AgreesWith(voice')
  <2>1. Lies(sound, voice, goal) /\ AgreesWith(voice)
    BY <1>1, <1>3 DEF ReadInv, MixAgrees
  <2>2. voice'.mix[3] = voice.mix[3] /\ voice'.mix[4] = voice.mix[4]
    BY <1>1, <1>2, <2>1, MixForType DEF Kept, AgreesWith
  <2>3. Lies(sound, voice', goal)
    BY <1>1, <2>1, <2>2, LiesSame DEF Kept
  <2>4. AgreesWith(voice')
    BY <1>1, <2>1, <2>2 DEF Kept, AgreesWith
  <2>5. QED BY <2>3, <2>4
<1>4. QED BY <1>1, <1>3 DEF ReadInv, MixAgrees

LEMMA PageReads ==
    ASSUME TypeInv, ReadInv, BeginPage \/ BeginMix \/ LeavePage \/ EndPage
    PROVE  ReadInv'
<1>1. CASE BeginPage
  <2>1. /\ ipc = "idle" /\ ipc' \in {"get", "begin"}
        /\ UNCHANGED <<sound, voice, goal, reach>>
    BY <1>1 DEF BeginPage, InHandler, ghosts
  <2>2. QED BY <2>1 DEF ReadInv, MixAgrees
<1>2. CASE BeginMix
  <2>1. /\ ipc = "begin" /\ ipc' = "mix" /\ UNCHANGED <<sound, voice, goal, reach>>
    BY <1>2 DEF BeginMix, InHandler, ghosts
  <2>2. QED BY <2>1 DEF ReadInv, MixAgrees
<1>3. CASE LeavePage
  <2>1. /\ ipc = "mix" /\ ipc' = "get" /\ UNCHANGED <<sound, voice, goal, reach>>
    BY <1>3 DEF LeavePage, InHandler, ghosts
  <2>2. QED BY <2>1 DEF ReadInv, MixAgrees
<1>4. CASE EndPage
  <2>1. /\ ipc \in {"mix", "end"} /\ ipc' = "idle" /\ UNCHANGED <<voice, goal, reach>>
        /\ sound' = IF voice.playing THEN sound ELSE None
    BY <1>4 DEF EndPage, InHandler, ghosts
  <2>2. QED BY <2>1 DEF ReadInv, MixAgrees
<1>5. QED BY <1>1, <1>2, <1>3, <1>4

LEMMA ReadInit == Init => ReadInv
BY UnreadReads DEF Init, ReadInv, MixAgrees

LEMMA ReadStep ==
    ASSUME RepeatsInBytes
    PROVE  TypeInv /\ PageInv /\ ReadInv /\ [Next]_vars => ReadInv'
<1> SUFFICES ASSUME TypeInv, PageInv, ReadInv, [Next]_vars PROVE ReadInv'
  OBVIOUS
<1>1. CASE UNCHANGED vars
  BY <1>1 DEF vars, ghosts, ReadInv, MixAgrees
<1>2. CASE Next
  BY <1>2, PlayReads, MainReads, PageReads, PartReads, GetReads, VocReads
     DEF Next, HandlerStep, MainChange
<1>3. QED BY <1>1, <1>2

\* What is heard lies in front of the end of what plays, and what the mixers fetch and throw
\* away no further than two steps of the rate behind it: for any block size, page, pitch and
\* sound, so long as the VOC files of which a part is played again hold one byte a frame.
THEOREM PlaysInsideCorrect ==
    ASSUME RepeatsInBytes
    PROVE  Spec => []PlaysInside
<1>1. ReadInv => PlaysInside
  BY DEF ReadInv, ReadsTo, PlaysInside
<1>2. Init => TypeInv /\ PageInv /\ ReadInv
  BY TypeInit, PageInit, ReadInit
<1>3. (TypeInv /\ PageInv /\ ReadInv) /\ [Next]_vars => (TypeInv /\ PageInv /\ ReadInv)'
  BY TypeStep, PageStep, ReadStep
<1>4. QED BY <1>1, <1>2, <1>3, PTL DEF Spec

-----------------------------------------------------------------------------
(* Where a sound goes on.                                                  *)

HereOf(v) == v.sound * One + v.position * FrameOf(v)

\* Between two of its pages, or inside one, and not while a VOC file is searched for data.
Settled == sound # None /\ ipc # "voc" /\ (ipc = "end" => voice.playing)

\* What is left of a sound lies behind the part that plays.
Follows(s, v, g) ==
    /\ s.type \in {"raw", "wav"} /\ v.channels = 2 =>
           v.block <= Block /\ v.size <= Block /\ (g # 0 => v.block <= 0)
    /\ s.type = "voc" => (v.channels = 2 => Stereo(s)) /\ (v.block > 0 => v.channels = 1)
    /\ s.type \in {"raw", "wav"} /\ g # 0 /\ v.block > 0 =>
           v.length > 0 /\ v.next = v.sound + FramesOf(v) * FrameOf(v)

FollowInv == sound # None => Follows(sound, voice, goal)

\* The position is that of what has been mixed, but for a feed that has run dry.
HereInv ==
    Settled /\ (ipc \in {"begin", "mix"} \/ voice.length # 0) /\ gone # Unmixed /\ ~astray
        => gone \in Int \X Int /\ gone[1] <= HereOf(voice) /\ HereOf(voice) <= gone[2]

GoesInv == FollowInv /\ HereInv

LEMMA HereIs == Here = HereOf(voice)
BY DEF Here, HereOf, Frame, FrameOf

LEMMA FollowsSame ==
    ASSUME NEW s, NEW v, NEW w, NEW g, Follows(s, v, g),
           w.sound = v.sound, w.next = v.next, w.block = v.block, w.size = v.size,
           w.length = v.length, w.width = v.width, w.channels = v.channels
    PROVE  Follows(s, w, g)
<1>1. FramesOf(w) = FramesOf(v) /\ FrameOf(w) = FrameOf(v)
  BY DEF FramesOf, FrameOf
<1>2. QED BY <1>1 DEF Follows

\* The frames of a part, of the b that are left.
LEMMA PartIs ==
    ASSUME NEW w \in Voices, NEW b \in Int, w.length = LeastOf(b, Block) * One
    PROVE  /\ FramesOf(w) = LeastOf(b, Block) /\ LeastOf(b, Block) \in Int
           /\ (w.length > 0 <=> b > 0) /\ (b <= Block => LeastOf(b, Block) = b)
<1> DEFINE n == LeastOf(b, Block)
<1>1. n \in Int /\ (b > 0 <=> n > 0) /\ (b <= Block => n = b)
  BY ConstantsAssumption DEF LeastOf
<1>2. One \in Nat \ {0}
  BY OneAssumption
<1> HIDE DEF n
<1>3. FramesOf(w) = n
  BY <1>1, <1>2, QuotientOfMultiple DEF FramesOf, n
<1>4. w.length > 0 <=> n > 0
  <2>1. w.length = n * One /\ n * One \in Int /\ 0 * One = 0
    BY <1>1, <1>2, IntProducts DEF n
  <2>2. n > 0 => n * One > 0
    <3>1. SUFFICES ASSUME n > 0 PROVE n * One > 0
      OBVIOUS
    <3>2. n \in Nat \ {0}
      BY <1>1, <3>1
    <3>3. n * One \in Nat \ {0}
      BY <1>2, <3>2, Products
    <3>4. QED BY <3>3
  <2>3. n <= 0 => n * One <= 0 * One
    BY <1>1, <1>2, ProductsGrow
  <2>4. QED BY <1>1, <2>1, <2>2, <2>3
<1>5. QED BY <1>1, <1>3, <1>4 DEF n

\* One more part that begins where the last one ended.
LEMMA SamePlace ==
    ASSUME NEW s \in Int, NEW p \in Int, NEW f \in Int, NEW k \in Int, NEW one \in Int
    PROVE  (s + f * k) * one + (p - f * one) * k = s * one + p * k
<1>1. (s + f * k) * one = s * one + (f * k) * one
  OBVIOUS
<1>2. (p - f * one) * k = p * k - (f * one) * k
  OBVIOUS
<1>3. (f * k) * one = (f * one) * k
  OBVIOUS
<1>4. s * one \in Int /\ (f * k) * one \in Int /\ p * k \in Int /\ (f * one) * k \in Int
  OBVIOUS
<1>5. QED BY <1>1, <1>2, <1>3, <1>4

LEMMA InBetween ==
    ASSUME NEW h \in Int, NEW a \in Int, NEW d \in Int, NEW c \in Int, NEW r \in Nat,
           a <= d, d <= a + c
    PROVE  h + a * r <= h + d * r /\ h + d * r <= h + a * r + c * r
<1>1. a * r <= d * r
  BY ProductsGrow
<1>2. d * r <= (a + c) * r
  BY ProductsGrow
<1>3. (a + c) * r = a * r + c * r /\ a * r \in Int /\ d * r \in Int /\ c * r \in Int
  OBVIOUS
<1>4. QED BY <1>1, <1>2, <1>3

\* The mixers hand on a position that is no further ahead than that.
LEMMA PartGoes ==
    ASSUME TypeInv, GoesInv, MixPart
    PROVE  GoesInv'
<1> USE DEF TypeInv, VoiceInv, SoundInv, HandlerInv
<1> DEFINE n == VocLength
           r == voice.rate
           p == voice.position
           k == FrameOf(voice)
           h == HereOf(voice)
<1>1. /\ voice \in Voices /\ todo \in Nat \ {0} /\ ipc = "mix"
      /\ p < voice.length
      /\ UNCHANGED <<sound, goal>>
  BY MixPartIs
<1>2. PICK w \in Written(voice.mix, n) :
          /\ Left(n, w) \in Nat
          /\ ipc' = (IF Left(n, w) >= voice.length THEN "get" ELSE "mix")
          /\ voice' = [voice EXCEPT !.position = Left(n, w)]
          /\ LET least == Here + w[1] * voice.rate * Frame
             IN  gone' = <<least, least + Ahead * voice.rate * Frame>>
          /\ astray' = (astray \/ (~(w[1] > 0) /\ mixpos # voice.position))
  BY MixPartIs
<1>3. n \in Nat \ {0}
  BY <1>1, VocLengthIs
<1>4. /\ r \in Nat \ {0} /\ p \in Nat /\ voice.sound \in Int /\ k \in {1, 2, 4}
      /\ mixpos \in Nat
  BY <1>1, FrameType DEF Voices
<1> HIDE DEF n
<1> DEFINE x == n % 2
           d == IF w[1] > 0 THEN w[2] + x ELSE 1
           c == Ahead
<1>5. /\ w[1] \in Nat /\ w[2] \in Nat /\ x \in {0, 1} /\ c \in {1, 3}
      /\ w[1] <= d /\ d <= w[1] + c
      /\ w[1] = 0 => x = 1
  <2>1. c \in {1, 3} /\ (voice.mix[2] # "both" => c = 3)
    BY DEF Ahead
  <2>2. /\ w[1] \in Nat /\ w[2] \in Nat /\ x \in {0, 1} /\ n - 1 <= w[1] /\ w[1] <= n
        /\ voice.mix[2] = "both" => w[1] = n /\ w[2] = n
        /\ w[2] <= w[1] + 2 /\ w[1] <= w[2]
        /\ w[1] < n => n % 2 = 1
        /\ w[1] = n /\ n % 2 = 1 => w[2] <= w[1] + 1
    BY <1>3, WrittenCount
  <2> HIDE DEF c
  <2>3. w[1] = 0 => x = 1 /\ c = 3
    BY <1>3, <2>1, <2>2
  <2>4. w[1] <= d /\ d <= w[1] + c
    BY <1>3, <2>1, <2>2, <2>3
  <2>5. QED BY <2>1, <2>2, <2>3, <2>4
<1>6. Stepped(n) = x * r
  <2>1. x \in {0, 1}
    BY <1>5
  <2>2. CASE x = 0
    BY <1>4, <2>2 DEF Stepped
  <2>3. CASE x = 1
    BY <1>4, <2>3 DEF Stepped
  <2>4. QED BY <2>1, <2>2, <2>3
<1>7. ~astray' => Left(n, w) = p + d * r
  <2>1. CASE w[1] > 0
    <3>1. Left(n, w) = p + w[2] * r + x * r
      BY <1>6, <2>1 DEF Left
    <3>2. w[2] * r + x * r = (w[2] + x) * r /\ w[2] * r \in Int /\ x * r \in Int
      <4>1. r \in Int /\ w[2] \in Int /\ x \in Int
        BY <1>4, <1>5
      <4> HIDE DEF r, x
      <4>2. QED BY <4>1, Distributes, IntProducts
    <3>3. d = w[2] + x
      BY <2>1
    <3> HIDE DEF d, x, r
    <3>4. QED BY <1>4, <3>1, <3>2, <3>3
  <2>2. CASE ~(w[1] > 0)
    <3>1. ~astray' => mixpos = p
      BY <1>2, <2>2
    <3>2. d = 1 /\ x = 1
      BY <1>5, <2>2
    <3>3. Left(n, w) = mixpos + x * r
      BY <1>6, <2>2 DEF Left
    <3> HIDE DEF d, x, r
    <3>4. QED BY <1>4, <3>1, <3>2, <3>3
  <2>3. QED BY <2>1, <2>2
<1>8. h \in Int
  <2>1. One \in Int
    BY OneAssumption
  <2>2. voice.sound * One \in Int /\ p * k \in Int
    BY <1>4, <2>1, IntProducts
  <2>3. QED BY <2>2 DEF HereOf
<1>9. /\ voice'.sound = voice.sound /\ voice'.next = voice.next
      /\ voice'.block = voice.block /\ voice'.size = voice.size
      /\ voice'.length = voice.length
      /\ voice'.width = voice.width /\ voice'.channels = voice.channels
      /\ voice'.position = Left(n, w)
  BY <1>1, <1>2 DEF Voices
<1>10. FollowInv'
  BY <1>1, <1>9, FollowsSame DEF GoesInv, FollowInv
<1>11. gone' = <<h + w[1] * r * k, h + w[1] * r * k + c * r * k>>
  BY <1>2, HereIs DEF Frame, FrameOf
<1> DEFINE q == r * k
<1>12. q \in Nat
  BY <1>4
<1>13. w[1] * r * k = w[1] * q /\ c * r * k = c * q /\ w[1] * q \in Int /\ c * q \in Int
  <2>1. r \in Int /\ k \in Int /\ w[1] \in Int /\ c \in Int
    BY <1>4, <1>5
  <2> HIDE DEF r, k, c
  <2>2. QED BY <2>1, ThreeProducts, IntProducts
<1>14. ASSUME ~astray' PROVE HereOf(voice') = h + d * q
  <2>1. FrameOf(voice') = k
    BY <1>9 DEF FrameOf
  <2>2. HereOf(voice') = voice.sound * One + (p + d * r) * k
    BY <1>7, <1>9, <1>14, <2>1 DEF HereOf
  <2>3. (p + d * r) * k = p * k + d * q /\ p * k \in Int /\ d * q \in Int
    <3>1. p \in Int /\ d \in Int /\ r \in Int /\ k \in Int
      BY <1>4, <1>5
    <3> HIDE DEF p, d, r, k
    <3>2. (p + d * r) * k = p * k + (d * r) * k
      BY <3>1, IntProducts, Distributes
    <3>3. (d * r) * k = d * q
      BY <3>1, ThreeProducts
    <3>4. QED BY <3>1, <3>2, <3>3, IntProducts
  <2>4. voice.sound * One \in Int
    BY <1>4, OneAssumption, IntProducts
  <2>5. h = voice.sound * One + p * k
    BY DEF HereOf
  <2> HIDE DEF d, q, k, p, h
  <2>6. QED BY <2>2, <2>3, <2>4, <2>5
<1>15. ASSUME ~astray'
       PROVE  gone' \in Int \X Int /\ gone'[1] <= HereOf(voice') /\ HereOf(voice') <= gone'[2]
  <2>1. d \in Int /\ c \in Int /\ w[1] \in Int /\ w[1] <= d /\ d <= w[1] + c
    BY <1>5
  <2> HIDE DEF q, d, c, h, r, k
  <2>2. h + w[1] * q <= h + d * q /\ h + d * q <= h + w[1] * q + c * q
    BY <1>8, <1>12, <2>1, InBetween
  <2>3. gone' = <<h + w[1] * q, h + w[1] * q + c * q>>
    BY <1>11, <1>13
  <2>4. h + w[1] * q \in Int /\ h + w[1] * q + c * q \in Int
    BY <1>8, <1>13
  <2>5. QED BY <1>14, <1>15, <2>2, <2>3, <2>4
<1>16. HereInv'
  BY <1>15 DEF HereInv
<1>17. QED BY <1>10, <1>16 DEF GoesInv

\* What the handler goes on with, in the same pass or in a new one.
LEMMA KeepGoes ==
    ASSUME TypeInv, GoesInv, NEW from \in {"get", "voc"}, NEW v \in Voices,
           KeepPlaying(from, v), Follows(sound, v, goal'),
           \/ gone' = Unmixed
           \/ /\ gone' = gone /\ astray' = astray /\ from = "get" /\ voice.length # 0
              /\ HereOf(v) = HereOf(voice)
    PROVE  GoesInv'
<1>1. /\ voice' = v /\ ipc = from /\ ipc' \in {"begin", "mix", "end"} /\ sound' = sound
  BY KeepType
<1>2. FollowInv'
  BY <1>1 DEF FollowInv
<1>3. sound # None
  BY <1>1 DEF TypeInv, SoundInv
<1>4. HereInv'
  BY <1>1, <1>3 DEF GoesInv, HereInv, Settled
<1>5. QED BY <1>2, <1>4 DEF GoesInv

LEMMA NoMoreGoes ==
    ASSUME TypeInv, GoesInv, NEW from \in {"get", "voc"}, NEW v \in Voices,
           NoMoreData(from, v), Follows(sound, v, goal), ~v.playing \/ v.length = 0
    PROVE  GoesInv'
<1>1. /\ voice' = v /\ ipc' = "end" /\ sound' = sound /\ goal' = goal
  BY NoMoreType DEF ghosts
<1>2. QED BY <1>1 DEF GoesInv, FollowInv, HereInv, Settled

LEMMA RawFollows ==
    ASSUME NEW s, s.type \in {"raw", "wav"}, NEW v \in Voices, v.position >= v.length, NEW g,
           v.channels = 2 => v.block <= Block /\ v.size <= Block
    PROVE  Follows(s, RawPart(v), g)
<1> DEFINE w == RawPart(v)
           b == v.block
           n == LeastOf(b, Block)
           z == v.width \div 8
<1>1. /\ w \in Voices
      /\ w.length = n * One /\ w.block = b - n /\ w.next = v.next + n * z
      /\ w.sound = v.next /\ w.size = v.size
      /\ w.width = v.width /\ w.channels = v.channels
  BY RawPartType
<1>2. b \in Int /\ v.channels \in {1, 2}
  BY DEF Voices
<1> HIDE DEF w
<1>3. FramesOf(w) = n /\ n \in Int /\ (w.length > 0 <=> b > 0) /\ (b <= Block => n = b)
  BY <1>1, <1>2, PartIs
<1>4. w.channels = 1 => FrameOf(w) = z
  BY <1>1, FrameType DEF FrameOf
<1>5. Block \in Nat \ {0} /\ (b <= 0 => n = b)
  BY <1>2, <1>3, ConstantsAssumption
<1> HIDE DEF b, n, z
<1>6. w.channels = 2 => w.block = 0 /\ w.size <= Block
  BY <1>1, <1>2, <1>3 DEF b
<1>7. w.block > 0 => w.channels = 1 /\ w.length > 0
  BY <1>1, <1>2, <1>3, <1>5, <1>6
<1>8. w.block > 0 => w.next = w.sound + FramesOf(w) * FrameOf(w)
  BY <1>1, <1>3, <1>4, <1>7
<1>9. w.block >= 0 /\ w.channels = 2 => w.block <= Block /\ w.size <= Block
  BY <1>1, <1>5, <1>6 DEF Voices
<1>10. QED BY <1>5, <1>6, <1>7, <1>8, <1>9 DEF Follows, w

LEMMA FreshFollows ==
    ASSUME StereoInOne, NEW s \in Sounds, NEW w \in Voices, Like(Fresh(s), w)
    PROVE  Follows(s, w, 0)
<1>0. Sound(s)
  BY ConstantsAssumption
<1> DEFINE f == Fresh(s)
<1>1. w.block = f.block /\ w.size = f.size /\ w.channels = f.channels
  BY DEF Like
<1>2. Block \in Nat \ {0}
  BY ConstantsAssumption
<1> HIDE DEF f
<1>3. CASE s.type = "feed"
  BY <1>3 DEF Follows
<1>4. CASE s.type = "voc"
  <2>1. f.block = 0 /\ f.channels = 1
    BY <1>4 DEF f, Fresh, PlayVOC, Idle
  <2>2. QED BY <1>1, <1>4, <2>1 DEF Follows
<1>5. CASE s.type = "raw"
  <2>1. f.channels = 1
    BY <1>5 DEF f, Fresh, Filled, PlayRaw, Idle
  <2>2. QED BY <1>1, <1>5, <2>1 DEF Follows
<1>6. CASE s.type = "wav"
  <2>1. /\ s.frames \in Nat /\ s.loop[1] \in Int /\ s.loop[2] \in Int
        /\ s.channels = 2 => s.frames <= Block
    BY <1>0, <1>6 DEF Sound, StereoInOne
  <2>2. /\ f.channels = s.channels
        /\ ~LoopInside(s) => f.block = s.frames /\ f.size = 0
        /\ LoopInside(s) => /\ f.block = LeastOf(s.loop[2], s.frames)
                            /\ f.size = LeastOf(s.loop[2], s.frames) - s.loop[1]
    <3>1. CASE LoopInside(s)
      BY <1>6, <3>1 DEF f, Fresh, Filled, PlayWAV, Idle
    <3>2. CASE ~LoopInside(s)
      BY <1>6, <3>2 DEF f, Fresh, Filled, PlayWAV, Idle
    <3>3. QED BY <3>1, <3>2
  <2>3. LeastOf(s.loop[2], s.frames) \in Int /\ LeastOf(s.loop[2], s.frames) <= s.frames
    BY <2>1 DEF LeastOf
  <2>4. LoopInside(s) => s.loop[1] >= 0
    BY DEF LoopInside
  <2> DEFINE e == LeastOf(s.loop[2], s.frames)
  <2> HIDE DEF e
  <2>5. f.channels = 2 => f.block <= Block /\ f.size <= Block
    BY <1>2, <2>1, <2>2, <2>3, <2>4 DEF e
  <2>6. QED BY <1>1, <1>6, <2>5 DEF Follows
<1>7. QED BY <1>0, <1>3, <1>4, <1>5, <1>6 DEF Sound

LEMMA PlayGoes ==
    ASSUME TypeInv, StereoInOne,
           NEW s \in Sounds, NEW pan \in Pans, NEW pitch \in Pitches, Play(s, pan, pitch)
    PROVE  GoesInv'
<1>1. /\ voice' \in Voices /\ Like(Fresh(s), voice')
      /\ sound' = s /\ goal' = 0 /\ gone' = Unmixed
  BY PlayMakes
<1>2. Follows(s, voice', 0)
  BY <1>1, FreshFollows
<1>3. QED BY <1>1, <1>2 DEF GoesInv, FollowInv, HereInv

LEMMA MainGoes ==
    ASSUME TypeInv, GoesInv, MainChange
    PROVE  GoesInv'
<1>1. /\ Kept(voice, voice') /\ ipc = "idle" /\ ipc' = "idle"
      /\ sound' = sound /\ goal' = goal /\ gone' = gone /\ astray' = astray
  BY MainKeeps DEF ghosts
<1>2. FollowInv'
  BY <1>1, FollowsSame DEF GoesInv, FollowInv, Kept
<1>3. HereOf(voice') = HereOf(voice) /\ voice'.length = voice.length
  BY <1>1 DEF Kept, HereOf, FrameOf
<1>4. HereInv'
  BY <1>1, <1>3 DEF GoesInv, HereInv, Settled
<1>5. QED BY <1>2, <1>4 DEF GoesInv

LEMMA PageGoes ==
    ASSUME TypeInv, GoesInv, BeginPage \/ BeginMix \/ LeavePage \/ EndPage
    PROVE  GoesInv'
<1> USE DEF GoesInv, FollowInv, HereInv, Settled
<1>1. CASE BeginPage
  <2>1. /\ sound # None /\ ipc = "idle"
        /\ ipc' = (IF voice.length = 0 THEN "get" ELSE "begin")
        /\ UNCHANGED <<sound, voice, goal, gone, astray>>
    BY <1>1 DEF BeginPage, InHandler, ghosts
  <2>2. QED BY <2>1
<1>2. CASE BeginMix
  <2>1. /\ ipc = "begin" /\ ipc' = "mix" /\ UNCHANGED <<sound, voice, goal, gone, astray>>
    BY <1>2 DEF BeginMix, InHandler, ghosts
  <2>2. QED BY <2>1
<1>3. CASE LeavePage
  <2>1. /\ ipc = "mix" /\ ipc' = "get" /\ UNCHANGED <<sound, voice, goal, gone, astray>>
    BY <1>3 DEF LeavePage, InHandler, ghosts
  <2>2. QED BY <2>1
<1>4. CASE EndPage
  <2>1. /\ ipc \in {"mix", "end"} /\ ipc' = "idle"
        /\ UNCHANGED <<voice, goal, gone, astray>>
        /\ sound' = IF voice.playing THEN sound ELSE None
    BY <1>4 DEF EndPage, InHandler, ghosts
  <2>2. QED BY <2>1
<1>5. QED BY <1>1, <1>2, <1>3, <1>4

\* The next part of a feed or of a VOC block begins where the last one ended.
LEMMA NextPartGoes ==
    ASSUME voice \in Voices, voice.position >= voice.length, BlockLies(voice, goal),
           NEW bytes \in {1, 2}, bytes = FrameOf(voice)
    PROVE  /\ NextPart(bytes) \in Voices
           /\ HereOf(NextPart(bytes)) = HereOf(voice)
           /\ NextPart(bytes).channels = voice.channels
<1> DEFINE w == NextPart(bytes)
           f == FramesOf(voice)
           s == voice.sound
           p == voice.position
           k == FrameOf(voice)
           one == One
<1>1. /\ w \in Voices /\ w.sound = s + f * k /\ w.position = p - voice.length
      /\ w.width = voice.width /\ w.channels = voice.channels
  BY NextPartType DEF FramesOf
<1>2. voice.length = f * one
  BY DEF BlockLies
<1>3. s \in Int /\ p \in Int /\ k \in Int /\ one \in Int /\ f \in Int
  BY OneAssumption, IntQuotients DEF Voices, FramesOf
<1>4. FrameOf(w) = k
  BY <1>1 DEF FrameOf
<1>5. HereOf(w) = (s + f * k) * one + (p - f * one) * k /\ HereOf(voice) = s * one + p * k
  BY <1>1, <1>2, <1>4 DEF HereOf
<1> HIDE DEF w, f, s, p, k, one
<1>6. HereOf(w) = HereOf(voice)
  BY <1>3, <1>5, SamePlace
<1>7. QED BY <1>1, <1>6 DEF w

LEMMA GetGoes ==
    ASSUME TypeInv, ReadInv, GoesInv, GetSound
    PROVE  GoesInv'
<1> USE DEF TypeInv, VoiceInv, SoundInv, HandlerInv
<1>1. ipc = "get"
  BY DEF GetSound, GetNextRawBlock, RawLoop, RawEnd, GetNextDemandFeedBlock, DemandFeed,
         GetNextVOCBlock, VocLoop, VocParse, KeepPlaying, NoMoreData, InHandler
<1>2. /\ voice \in Voices /\ voice.position >= voice.length /\ sound # None
      /\ Lies(sound, voice, goal) /\ AgreesWith(voice) /\ Follows(sound, voice, goal)
      /\ BlockLies(voice, goal)
  BY <1>1 DEF ReadInv, MixAgrees, GoesInv, FollowInv, Lies
<1>3. CASE GetNextRawBlock
  <2> DEFINE w == RawPart(voice)
             f == FramesOf(voice)
             s == voice.sound
             p == voice.position
             k == FrameOf(voice)
             one == One
  <2>1. /\ KeepPlaying("get", w) /\ sound.type \in {"raw", "wav"} /\ voice.block > 0
        /\ goal = 0 => gone' = Unmixed
        /\ goal # 0 => goal' = goal /\ gone' = gone /\ astray' = astray
    BY <1>3 DEF GetNextRawBlock, IsRaw, NewPass, SamePass, ghosts
  <2>2. /\ w \in Voices /\ w.sound = voice.next /\ w.position = p - voice.length
        /\ w.width = voice.width /\ w.channels = voice.channels
    BY <1>2, RawPartType
  <2>3. voice.channels = 2 => voice.block <= Block /\ voice.size <= Block
    BY <1>2, <2>1 DEF Follows
  <2>4. Follows(sound, w, goal')
    BY <1>2, <2>1, <2>3, RawFollows
  <2>5. ASSUME goal # 0 PROVE voice.length # 0 /\ HereOf(w) = HereOf(voice)
    <3>1. voice.length > 0 /\ voice.next = s + f * k
      BY <1>2, <2>1, <2>5 DEF Follows
    <3>2. voice.length = f * one
      BY <1>2 DEF BlockLies
    <3>3. s \in Int /\ p \in Int /\ k \in Int /\ one \in Int /\ f \in Int
      <4>1. k \in Int
        BY <1>2, FrameType
      <4>2. QED BY <1>2, <4>1, OneAssumption, IntQuotients DEF Voices, FramesOf
    <3>4. FrameOf(w) = k
      BY <2>2 DEF FrameOf
    <3>5. /\ HereOf(w) = (s + f * k) * one + (p - f * one) * k
          /\ HereOf(voice) = s * one + p * k
      BY <2>2, <3>1, <3>2, <3>4 DEF HereOf
    <3> HIDE DEF w, f, s, p, k, one
    <3>6. HereOf(w) = HereOf(voice)
      BY <3>3, <3>5, SamePlace
    <3>7. QED BY <3>1, <3>6
  <2> HIDE DEF w
  <2>6. QED BY <2>1, <2>2, <2>4, <2>5, KeepGoes
<1>4. CASE RawLoop
  <2> DEFINE v == LoopedRaw
  <2>1. /\ KeepPlaying("get", RawPart(v)) /\ sound.type \in {"raw", "wav"}
        /\ gone' = Unmixed
    BY <1>4 DEF RawLoop, IsRaw, LoopedRaw, NewPass
  <2>2. /\ v \in Voices /\ v.position = 0 /\ v.length = 0
        /\ v.block = voice.size /\ v.size = voice.size /\ v.channels = voice.channels
    BY <1>2, LoopTypes
  <2> HIDE DEF v
  <2>3. v.channels = 2 => v.block <= Block /\ v.size <= Block
    BY <1>2, <2>1, <2>2 DEF Follows
  <2>4. Follows(sound, RawPart(v), goal')
    BY <2>1, <2>2, <2>3, RawFollows
  <2>5. RawPart(v) \in Voices
    BY <2>2, RawPartType
  <2>6. QED BY <2>1, <2>4, <2>5, KeepGoes
<1>5. CASE RawEnd
  <2> DEFINE v == [voice EXCEPT !.playing = FALSE]
  <2>1. NoMoreData("get", v)
    BY <1>5 DEF RawEnd
  <2>2. v \in Voices /\ ~v.playing
    BY <1>2 DEF Voices
  <2>3. /\ v.sound = voice.sound /\ v.next = voice.next /\ v.block = voice.block
        /\ v.size = voice.size /\ v.length = voice.length
        /\ v.width = voice.width /\ v.channels = voice.channels
    BY <1>2 DEF Voices
  <2> HIDE DEF v
  <2>4. Follows(sound, v, goal)
    BY <1>2, <2>3, FollowsSame
  <2>5. QED BY <2>1, <2>2, <2>4, NoMoreGoes
<1>6. CASE GetNextDemandFeedBlock
  <2>1. /\ KeepPlaying("get", NextPart(1)) /\ sound.type = "feed" /\ voice.block > 0
        /\ goal' = goal /\ gone' = gone /\ astray' = astray
    BY <1>6 DEF GetNextDemandFeedBlock, SamePass, ghosts
  <2>2. FrameOf(voice) = 1 /\ voice.length > 0 /\ 1 \in {1, 2}
    BY <1>2, <2>1, SizeType DEF Lies, FeedLies, RestLies
  <2>3. NextPart(1) \in Voices /\ HereOf(NextPart(1)) = HereOf(voice)
    BY <1>2, <2>2, NextPartGoes
  <2>4. Follows(sound, NextPart(1), goal')
    BY <2>1 DEF Follows
  <2>5. QED BY <2>1, <2>2, <2>3, <2>4, KeepGoes
<1>7. ASSUME NEW n \in Chunks, DemandFeed(n) PROVE GoesInv'
  <2> DEFINE w == Cut(Fed(n))
  <2>1. /\ sound.type = "feed"
        /\ IF n > 0 THEN KeepPlaying("get", w) /\ NewPass(Base + n) ELSE NoMoreData("get", w)
    BY <1>7 DEF DemandFeed, Fed
  <2>2. n \in Nat
    BY ConstantsAssumption
  <2>3. Fed(n) \in Voices /\ Fed(n).block = n
    BY <1>2, <2>2, LoopTypes
  <2>4. w \in Voices /\ w.length = LeastOf(n, Block) * One
    BY <2>3, CutType
  <2> HIDE DEF w
  <2>5. \A g : Follows(sound, w, g)
    BY <2>1 DEF Follows
  <2>6. CASE n > 0
    <3>1. gone' = Unmixed /\ KeepPlaying("get", w)
      BY <2>1, <2>6 DEF NewPass
    <3>2. QED BY <2>4, <2>5, <3>1, KeepGoes
  <2>7. CASE ~(n > 0)
    <3>1. n = 0
      BY <2>2, <2>7
    <3>2. LeastOf(n, Block) = 0
      BY <3>1, ConstantsAssumption DEF LeastOf
    <3>3. w.length = 0
      BY <2>4, <3>2, OneAssumption
    <3>4. QED BY <2>1, <2>4, <2>5, <2>7, <3>3, NoMoreGoes
  <2>8. QED BY <2>6, <2>7
<1>8. CASE GetNextVOCBlock
  <2> DEFINE k == voice.width \div 8
  <2>1. /\ KeepPlaying("get", NextPart(k)) /\ sound.type = "voc" /\ voice.block > 0
        /\ goal' = goal /\ gone' = gone /\ astray' = astray
    BY <1>8 DEF GetNextVOCBlock, SamePass, ghosts
  <2>2. voice.channels = 1
    BY <1>2, <2>1 DEF Follows
  <2>3. FrameOf(voice) = k /\ k \in {1, 2}
    BY <1>2, <2>2, FrameType
  <2>4. voice.length > 0
    BY <1>2, <2>1 DEF Lies, RestLies
  <2> HIDE DEF k
  <2>5. /\ NextPart(k) \in Voices /\ HereOf(NextPart(k)) = HereOf(voice)
        /\ NextPart(k).channels = 1
    BY <1>2, <2>2, <2>3, NextPartGoes
  <2>6. Follows(sound, NextPart(k), goal')
    BY <2>1, <2>5 DEF Follows
  <2>7. QED BY <2>1, <2>4, <2>5, <2>6, KeepGoes
<1>9. CASE VocLoop
  <2>1. /\ KeepPlaying("get", Cut(LoopedVoc)) /\ sound.type = "voc"
        /\ voice.start # Null /\ gone' = Unmixed
    BY <1>9 DEF VocLoop, LoopedVoc, NewPass
  <2>2. voice.channels = 1
    BY <1>2, <2>1 DEF Lies, VocLies
  <2>3. Cut(LoopedVoc) \in Voices /\ Cut(LoopedVoc).channels = voice.channels
    BY <1>2, LoopTypes, CutType
  <2>4. Follows(sound, Cut(LoopedVoc), goal')
    BY <2>1, <2>2, <2>3 DEF Follows
  <2>5. QED BY <2>1, <2>3, <2>4, KeepGoes
<1>10. CASE VocParse
  <2>1. /\ ipc' = "voc" /\ voice' = [voice EXCEPT !.playing = TRUE]
        /\ sound' = sound /\ goal' = goal
    BY <1>10 DEF VocParse, InHandler, ghosts
  <2>2. /\ voice'.sound = voice.sound /\ voice'.next = voice.next
        /\ voice'.block = voice.block /\ voice'.size = voice.size
        /\ voice'.length = voice.length
        /\ voice'.width = voice.width /\ voice'.channels = voice.channels
    BY <1>2, <2>1 DEF Voices
  <2>3. Follows(sound, voice', goal)
    BY <1>2, <2>2, FollowsSame
  <2>4. QED BY <2>1, <2>3 DEF GoesInv, FollowInv, HereInv, Settled
<1>11. QED
  BY <1>3, <1>4, <1>5, <1>6, <1>7, <1>8, <1>9, <1>10 DEF GetSound

LEMMA VocGoes ==
    ASSUME TypeInv, ReadInv, GoesInv, StereoInOne, VocStep
    PROVE  GoesInv'
<1> USE DEF TypeInv, VoiceInv, SoundInv, HandlerInv
<1>1. ipc = "voc" /\ sound \in Sounds /\ sound.type = "voc" /\ sound # None
  BY DEF VocStep, VocText, VocExtended, VocRepeat, VocUntil, VocEnd, VocData, AtVoc
<1>2. /\ voice \in Voices /\ Lies(sound, voice, goal) /\ voice.block = 0
      /\ Follows(sound, voice, goal)
  BY <1>1 DEF ReadInv, GoesInv, FollowInv
<1>3. ASSUME NEW ptr, NEW v, NEW speed, ToBlock(ptr, v, speed),
             v.block = 0, v.channels = 2 => Stereo(sound)
      PROVE  GoesInv'
  <2>1. ipc' = "voc" /\ voice' = v /\ sound' = sound /\ goal' = goal
    BY <1>3 DEF ToBlock, InHandler, ghosts
  <2>2. Follows(sound, v, goal)
    BY <1>1, <1>3 DEF Follows
  <2>3. QED BY <2>1, <2>2 DEF GoesInv, FollowInv, HereInv, Settled
<1>4. voice.channels = 2 => Stereo(sound)
  BY <1>1, <1>2 DEF Follows
<1>5. CASE VocText
  BY <1>2, <1>3, <1>4, <1>5 DEF VocText
<1>6. CASE VocExtended
  <2> DEFINE c == VocHere.channels
             v == [voice EXCEPT !.width = 8, !.channels = c]
  <2>1. ToBlock(Behind(VocHere), v, VocHere.speed)
    BY <1>6 DEF VocExtended
  <2>2. VocHere.kind = "extended" /\ VocHere \in sound.blocks
    BY <1>6, AtVocHere DEF VocExtended
  <2>3. c = 2 => Stereo(sound)
    BY <2>2 DEF Stereo
  <2> HIDE DEF c
  <2>4. v.block = 0 /\ v.channels = c
    BY <1>2 DEF Voices
  <2> HIDE DEF v
  <2>5. QED BY <1>3, <2>1, <2>3, <2>4
<1>7. CASE VocRepeat
  <2> DEFINE v == IF voice.end # Null THEN voice
                  ELSE [voice EXCEPT !.count = VocHere.count, !.start = Behind(VocHere)]
  <2>1. ToBlock(Behind(VocHere), v, loc.speed)
    BY <1>7 DEF VocRepeat
  <2>2. v.block = 0 /\ v.channels = voice.channels
    BY <1>2 DEF Voices
  <2> HIDE DEF v
  <2>3. QED BY <1>3, <1>4, <2>1, <2>2
<1>8. CASE VocUntil
  <2> DEFINE again == loc.last # "repeat" /\ voice.count > 0 /\ voice.start # Null
             left  == IF voice.count < Forever THEN voice.count - 1 ELSE voice.count
             v == IF loc.last = "repeat" THEN [voice EXCEPT !.count = 0]
                  ELSE IF ~again THEN voice
                  ELSE [voice EXCEPT !.count = left,
                                     !.start = IF left = 0 THEN Null ELSE @]
             ptr == IF again THEN voice.start ELSE Behind(VocHere)
  <2>1. ToBlock(ptr, v, loc.speed)
    BY <1>8 DEF VocUntil
  <2> HIDE DEF left, again
  <2>2. v.block = 0 /\ v.channels = voice.channels
    BY <1>2 DEF Voices
  <2> HIDE DEF v
  <2>3. QED BY <1>3, <1>4, <2>1, <2>2
<1>9. CASE VocEnd
  <2> DEFINE at == VocHere.at
             x  == [voice EXCEPT !.playing = FALSE]
             v  == Ended(at)
  <2>1. at \in Nat
    BY <1>9, AtVocHere DEF VocEnd, VocBlock
  <2>2. \/ NoMoreData("voc", x)
        \/ voice.start # Null /\ KeepPlaying("voc", Cut(v)) /\ NewPass(at)
    BY <1>9 DEF VocEnd, Ended
  <2>3. CASE NoMoreData("voc", x)
    <3>1. /\ x.block = 0 /\ x.channels = voice.channels /\ ~x.playing /\ x \in Voices
      BY <1>2 DEF Voices
    <3> HIDE DEF x
    <3>2. Follows(sound, x, goal)
      BY <1>1, <1>4, <3>1 DEF Follows
    <3>3. QED BY <2>3, <3>1, <3>2, NoMoreGoes
  <2>4. CASE voice.start # Null /\ KeepPlaying("voc", Cut(v)) /\ NewPass(at)
    <3>1. voice.channels = 1
      BY <1>1, <1>2, <2>4 DEF Lies, VocLies
    <3>2. Cut(v) \in Voices /\ Cut(v).channels = voice.channels
      BY <1>2, <2>1, LoopTypes, CutType
    <3>3. Follows(sound, Cut(v), goal')
      BY <1>1, <3>1, <3>2 DEF Follows
    <3>4. gone' = Unmixed
      BY <2>4 DEF NewPass
    <3> HIDE DEF v
    <3>5. QED BY <2>4, <3>2, <3>3, <3>4, KeepGoes
  <2>5. QED BY <2>2, <2>3, <2>4
<1>10. CASE VocData
  <2> DEFINE b     == VocHere
             v     == Described(b)
             w     == Found(b, v)
             bytes == Bytes(b, v)
             size  == FrameOf(v)
             block == bytes \div size
  <2>1. AtVoc({"data", "more", "new"})
    BY <1>10 DEF VocData
  <2>2. KeepPlaying("voc", w) /\ gone' = Unmixed
    BY <1>10 DEF VocData, Described, NewPass
  <2>3. VocBlock(b) /\ b \in sound.blocks /\ b.kind \in {"data", "more", "new"}
    BY <2>1, AtVocHere
  <2>4. /\ v \in Voices
        /\ b.kind = "data" => v.channels = 1 \/ v.channels = voice.channels
        /\ b.kind = "new" => v.channels = b.channels
        /\ b.kind = "more" => v = voice
    BY <2>1, DescribedType
  <2> HIDE DEF b, v
  <2>5. /\ w \in Voices /\ bytes \in Nat /\ block \in Nat /\ w.channels = v.channels
        /\ w.length = LeastOf(block, Block) * One /\ w.block = block - LeastOf(block, Block)
    BY <2>3, <2>4, FoundType
  <2>6. w.channels = 2 => Stereo(sound)
    <3>1. v.channels = 2 => voice.channels = 2 \/ (b.kind = "new" /\ b.channels = 2)
      BY <2>3, <2>4
    <3> HIDE DEF w
    <3>2. QED BY <1>4, <2>3, <2>5, <3>1 DEF Stereo
  <2>7. bytes <= b.bytes /\ b.bytes \in Nat
    BY <2>3, <2>4 DEF Bytes, LeastOf, VocBlock, Voices
  <2>8. v.channels = 2 => size \in {2, 4}
    BY <2>4 DEF FrameOf, Voices
  <2>9. ASSUME w.channels = 2 PROVE w.block = 0
    <3>1. b.bytes \div 2 <= Block
      BY <1>1, <2>3, <2>6, <2>9 DEF StereoInOne
    <3>2. size \in {2, 4}
      BY <2>5, <2>8, <2>9
    <3> HIDE DEF bytes, size
    <3>3. bytes \div size <= b.bytes \div 2
      BY <2>5, <2>7, <3>2
    <3>4. block <= Block /\ block \in Int
      BY <2>5, <2>7, <3>1, <3>3, ConstantsAssumption
    <3> HIDE DEF block, w
    <3>5. LeastOf(block, Block) = block
      BY <2>5, <3>4, PartIs
    <3>6. QED BY <2>5, <3>4, <3>5
  <2>10. w.channels \in {1, 2}
    BY <2>5 DEF Voices
  <2> HIDE DEF w
  <2>11. Follows(sound, w, goal')
    BY <1>1, <2>6, <2>9, <2>10 DEF Follows
  <2>12. QED BY <2>2, <2>5, <2>11, KeepGoes
<1>11. QED BY <1>5, <1>6, <1>7, <1>8, <1>9, <1>10 DEF VocStep

LEMMA GoesInit == Init => GoesInv
BY DEF Init, GoesInv, FollowInv, HereInv, Settled

LEMMA GoesStep ==
    ASSUME StereoInOne
    PROVE  TypeInv /\ ReadInv /\ GoesInv /\ [Next]_vars => GoesInv'
<1> SUFFICES ASSUME TypeInv, ReadInv, GoesInv, [Next]_vars PROVE GoesInv'
  OBVIOUS
<1>1. CASE UNCHANGED vars
  BY <1>1 DEF vars, ghosts, GoesInv, FollowInv, HereInv, Settled
<1>2. CASE Next
  BY <1>2, PlayGoes, MainGoes, PageGoes, PartGoes, GetGoes, VocGoes
     DEF Next, HandlerStep, MainChange
<1>3. QED BY <1>1, <1>2

\* A sound goes on where it was left, from mix to mix and from block to block: for any
\* sound that comes in one part if it is stereo.
THEOREM GoesOnCorrect ==
    ASSUME RepeatsInBytes, StereoInOne
    PROVE  Spec => []GoesOn
<1>1. TypeInv /\ GoesInv => GoesOn
  <2> SUFFICES ASSUME TypeInv, GoesInv, ipc = "mix", gone # Unmixed, ~astray
               PROVE  Here \in gone[1] .. gone[2]
    BY DEF GoesOn
  <2>1. Settled
    BY DEF TypeInv, SoundInv, Settled
  <2>2. gone \in Int \X Int /\ gone[1] <= HereOf(voice) /\ HereOf(voice) <= gone[2]
    BY <2>1 DEF GoesInv, HereInv
  <2>3. HereOf(voice) \in Int
    <3>1. /\ voice.sound \in Int /\ voice.position \in Int /\ FrameOf(voice) \in Int
          /\ One \in Int
      BY OneAssumption, FrameType DEF TypeInv, VoiceInv, Voices
    <3>2. voice.sound * One \in Int /\ voice.position * FrameOf(voice) \in Int
      BY <3>1, IntProducts
    <3>3. QED BY <3>2 DEF HereOf
  <2>4. QED BY <2>2, <2>3, HereIs
<1>2. Init => TypeInv /\ PageInv /\ ReadInv /\ GoesInv
  BY TypeInit, PageInit, ReadInit, GoesInit
<1>3. (TypeInv /\ PageInv /\ ReadInv /\ GoesInv) /\ [Next]_vars
          => (TypeInv /\ PageInv /\ ReadInv /\ GoesInv)'
  BY TypeStep, PageStep, ReadStep, GoesStep
<1>4. QED BY <1>1, <1>2, <1>3, PTL DEF Spec

-----------------------------------------------------------------------------
(* Where a sound ends.                                                     *)

\* The part that plays, and what is left behind it, end at g.
PartsEnd(v, g) == v.length > 0 => v.sound + (FramesOf(v) + v.block) * MixSizeOf(v) = g

\* The loop that was asked for ends there too; until then nothing of the file has played.
VocEnds(s, v, g) ==
    s.type = "voc" =>
        /\ v.end # Null => s.loop[1] >= 0 /\ v.count = 0
        /\ v.start # Null /\ v.end # Null /\ g # 0 =>
               v.size <= 0 \/ (v.length > 0 /\ v.start + v.size = g)
        /\ g = 0 => v.next = Base /\ v.length = 0
        /\ FrameOf(v) \in FramesIn(s)

\* What MV_GetNextVOCBlock has found so far.
Searched ==
    ipc = "voc" => /\ goal = 0 /\ voice.end # Null => Leads(sound, loc.ptr)
                   /\ loc.last = "extended" => voice.width = 8

EndInv ==
    /\ sound # None => PartsEnd(voice, goal) /\ VocEnds(sound, voice, goal)
    /\ Searched

LEMMA EndsSame ==
    ASSUME NEW s, NEW v, NEW w, NEW g, PartsEnd(v, g), VocEnds(s, v, g),
           w.sound = v.sound, w.next = v.next, w.block = v.block, w.size = v.size,
           w.length = v.length, w.width = v.width, w.channels = v.channels,
           w.start \in {v.start, Null}, w.end \in {v.end, Null}, w.count \in {v.count, 0},
           w.mix[3] = v.mix[3], w.mix[4] = v.mix[4]
    PROVE  PartsEnd(w, g) /\ VocEnds(s, w, g)
<1>1. FramesOf(w) = FramesOf(v) /\ MixSizeOf(w) = MixSizeOf(v) /\ FrameOf(w) = FrameOf(v)
  BY DEF FramesOf, MixSizeOf, FrameOf
<1>2. PartsEnd(w, g)
  BY <1>1 DEF PartsEnd
<1>3. VocEnds(s, w, g)
  BY <1>1 DEF VocEnds
<1>4. QED BY <1>2, <1>3

\* The blocks of at most Block frames come to what they are cut from.
LEMMA PartEnds ==
    ASSUME NEW w \in Voices, NEW b \in Int, NEW g \in Int,
           w.length = LeastOf(b, Block) * One, w.block = b - LeastOf(b, Block),
           b > 0 => w.sound + b * MixSizeOf(w) = g
    PROVE  PartsEnd(w, g) /\ (w.length > 0 <=> b > 0)
<1> DEFINE n == LeastOf(b, Block)
<1>1. FramesOf(w) = n /\ n \in Int /\ (w.length > 0 <=> b > 0)
  BY PartIs
<1> HIDE DEF n
<1>2. FramesOf(w) + w.block = b
  BY <1>1 DEF n
<1>3. QED BY <1>1, <1>2 DEF PartsEnd

LEMMA KeepEnds ==
    ASSUME TypeInv, NEW from \in {"get", "voc"}, NEW v \in Voices, KeepPlaying(from, v),
           PartsEnd(v, goal'), VocEnds(sound, v, goal')
    PROVE  EndInv'
<1>1. voice' = v /\ ipc' # "voc" /\ sound' = sound
  BY KeepType
<1>2. QED BY <1>1 DEF EndInv, Searched

LEMMA NoMoreEnds ==
    ASSUME TypeInv, NEW from \in {"get", "voc"}, NEW v \in Voices, NoMoreData(from, v),
           PartsEnd(v, goal), VocEnds(sound, v, goal)
    PROVE  EndInv'
<1>1. voice' = v /\ ipc' = "end" /\ sound' = sound /\ goal' = goal
  BY NoMoreType DEF ghosts
<1>2. QED BY <1>1 DEF EndInv, Searched

LEMMA PlayEnds ==
    ASSUME TypeInv, NEW s \in Sounds, NEW pan \in Pans, NEW pitch \in Pitches,
           Play(s, pan, pitch)
    PROVE  EndInv'
<1>1. /\ voice' \in Voices /\ Like(Fresh(s), voice')
      /\ sound' = s /\ goal' = 0 /\ ipc' = "idle"
  BY PlayMakes
<1>2. voice'.length = 0
  BY <1>1, FreshType DEF Like
<1>3. PartsEnd(voice', 0)
  BY <1>2 DEF PartsEnd
<1>4. ASSUME s.type = "voc" PROVE VocEnds(s, voice', 0)
  <2> DEFINE f == Fresh(s)
  <2>1. /\ f.next = Base /\ f.width = 8 /\ f.channels = 1 /\ f.count = 0
        /\ f.end # Null => ~(s.loop[1] < 0)
    BY <1>4 DEF Fresh, PlayVOC, Idle
  <2>2. /\ voice'.next = f.next /\ voice'.width = f.width /\ voice'.channels = f.channels
        /\ voice'.count = f.count /\ voice'.end = f.end
    BY <1>1 DEF Like
  <2> HIDE DEF f
  <2>3. FrameOf(voice') = 1
    BY <2>1, <2>2 DEF FrameOf
  <2>4. s.loop[1] \in Int
    BY <1>4, ConstantsAssumption DEF Sound
  <2>5. voice'.end # Null => s.loop[1] >= 0
    BY <2>1, <2>2, <2>4
  <2>6. FrameOf(voice') \in FramesIn(s)
    BY <2>3 DEF FramesIn
  <2>7. QED BY <1>2, <2>1, <2>2, <2>5, <2>6 DEF VocEnds
<1>5. VocEnds(s, voice', 0)
  BY <1>4 DEF VocEnds
<1>6. QED BY <1>1, <1>3, <1>5 DEF EndInv, Searched

LEMMA MainEnds ==
    ASSUME TypeInv, ReadInv, EndInv, MainChange
    PROVE  EndInv'
<1>1. /\ voice' \in Voices /\ Kept(voice, voice') /\ ipc = "idle" /\ ipc' = "idle"
      /\ sound' = sound /\ goal' = goal
  BY MainKeeps DEF ghosts
<1>2. ASSUME sound # None PROVE voice'.mix[3] = voice.mix[3] /\ voice'.mix[4] = voice.mix[4]
  <2>1. AgreesWith(voice)
    BY <1>1, <1>2 DEF ReadInv, MixAgrees
  <2>2. MixFor(voice)[3] = voice.width /\ MixFor(voice)[4] = voice.channels
    BY MixForType DEF TypeInv, VoiceInv
  <2>3. voice'.mix = voice.mix \/ voice'.mix = MixFor(voice)
    BY <1>1 DEF Kept
  <2>4. QED BY <2>1, <2>2, <2>3 DEF AgreesWith
<1>3. ASSUME sound # None PROVE PartsEnd(voice', goal) /\ VocEnds(sound, voice', goal)
  <2>1. PartsEnd(voice, goal) /\ VocEnds(sound, voice, goal)
    BY <1>3 DEF EndInv
  <2>2. QED BY <1>1, <1>2, <1>3, <2>1, EndsSame DEF Kept
<1>4. QED BY <1>1, <1>3 DEF EndInv, Searched

LEMMA PageEnds ==
    ASSUME TypeInv, EndInv, BeginPage \/ BeginMix \/ LeavePage \/ EndPage
    PROVE  EndInv'
<1>1. voice' = voice /\ goal' = goal /\ sound' \in {sound, None} /\ ipc' # "voc"
  BY DEF BeginPage, BeginMix, LeavePage, EndPage, InHandler, ghosts
<1>2. QED BY <1>1 DEF EndInv, Searched

LEMMA MixPartEnds ==
    ASSUME TypeInv, EndInv, MixPart
    PROVE  EndInv'
<1>1. PICK w \in Written(voice.mix, VocLength) :
          /\ voice' = [voice EXCEPT !.position = Left(VocLength, w)]
          /\ ipc' = IF Left(VocLength, w) >= voice.length THEN "get" ELSE "mix"
  BY MixPartIs
<1>2. voice \in Voices /\ UNCHANGED <<sound, goal>> /\ ipc' # "voc"
  BY <1>1, MixPartIs
<1> DEFINE p == Left(VocLength, w)
<1>3. voice' = [voice EXCEPT !.position = p]
  BY <1>1
<1> HIDE DEF p
<1>4. /\ voice'.sound = voice.sound /\ voice'.next = voice.next
      /\ voice'.block = voice.block /\ voice'.size = voice.size
      /\ voice'.length = voice.length /\ voice'.mix = voice.mix
      /\ voice'.width = voice.width /\ voice'.channels = voice.channels
      /\ voice'.start = voice.start /\ voice'.end = voice.end /\ voice'.count = voice.count
  BY <1>2, <1>3 DEF Voices
<1>5. sound # None => PartsEnd(voice', goal) /\ VocEnds(sound, voice', goal)
  BY <1>4, EndsSame DEF EndInv
<1>6. QED BY <1>2, <1>5 DEF EndInv, Searched

LEMMA RawPartEnds ==
    ASSUME NEW s, s.type \in {"raw", "wav"}, NEW v \in Voices, v.position >= v.length,
           NEW g \in Int, AgreesWith(v), v.block > 0 => v.next + v.block * FrameOf(v) = g
    PROVE  PartsEnd(RawPart(v), g) /\ VocEnds(s, RawPart(v), g) /\ RawPart(v) \in Voices
<1> DEFINE w == RawPart(v)
           b == v.block
<1>1. /\ w \in Voices /\ w.length = LeastOf(b, Block) * One
      /\ w.block = b - LeastOf(b, Block) /\ w.sound = v.next
      /\ w.width = v.width /\ w.channels = v.channels /\ w.mix = v.mix
  BY RawPartType
<1>2. b \in Int /\ MixSizeOf(v) = FrameOf(v)
  BY SizeType DEF Voices
<1>3. MixSizeOf(w) = FrameOf(v)
  BY <1>1, <1>2 DEF MixSizeOf
<1>4. b > 0 => w.sound + b * MixSizeOf(w) = g
  BY <1>1, <1>3
<1> HIDE DEF w, b
<1>5. PartsEnd(w, g)
  BY <1>1, <1>2, <1>4, PartEnds
<1>6. QED BY <1>1, <1>5 DEF w, VocEnds

LEMMA NextPartEnds ==
    ASSUME voice \in Voices, voice.position >= voice.length, voice.block > 0,
           voice.length > 0, AgreesWith(voice), goal \in Int,
           PartsEnd(voice, goal), VocEnds(sound, voice, goal),
           NEW bytes \in {1, 2}, bytes = FrameOf(voice)
    PROVE  LET w == NextPart(bytes)
           IN  PartsEnd(w, goal) /\ VocEnds(sound, w, goal) /\ w \in Voices
<1> DEFINE w == NextPart(bytes)
           f == FramesOf(voice)
           b == voice.block
           k == FrameOf(voice)
<1>1. /\ w \in Voices /\ w.length = LeastOf(b, Block) * One
      /\ w.block = b - LeastOf(b, Block) /\ w.sound = voice.sound + f * k
      /\ w.start = voice.start /\ w.end = voice.end /\ w.size = voice.size
      /\ w.count = voice.count /\ w.mix = voice.mix
      /\ w.width = voice.width /\ w.channels = voice.channels
  BY NextPartType DEF FramesOf
<1>2. MixSizeOf(voice) = k /\ MixSizeOf(w) = k /\ FrameOf(w) = k
  BY <1>1, SizeType DEF MixSizeOf, FrameOf
<1>3. b \in Int /\ f \in Int /\ k \in Int /\ voice.sound \in Int
  BY OneAssumption, IntQuotients DEF Voices, FramesOf
<1>4. voice.sound + (f + b) * k = goal
  BY <1>2 DEF PartsEnd
<1> HIDE DEF w, f, k
<1>5. b > 0 => w.sound + b * MixSizeOf(w) = goal
  <2>1. (f + b) * k = f * k + b * k /\ f * k \in Int /\ b * k \in Int
    BY <1>3, Distributes, IntProducts
  <2>2. QED BY <1>1, <1>2, <1>3, <1>4, <2>1
<1>6. PartsEnd(w, goal) /\ (w.length > 0 <=> b > 0)
  BY <1>1, <1>3, <1>5, PartEnds
<1>7. VocEnds(sound, w, goal)
  <2>1. sound.type = "voc" => goal # 0
    BY DEF VocEnds
  <2>2. FrameOf(w) = FrameOf(voice)
    BY <1>2 DEF k
  <2>3. w.length > 0
    BY <1>6 DEF b
  <2> HIDE DEF b
  <2>4. QED BY <1>1, <2>1, <2>2, <2>3 DEF VocEnds
<1>8. QED BY <1>1, <1>6, <1>7 DEF w

\* A part of a VOC file that is played again.
LEMMA LoopEnds ==
    ASSUME NEW v \in Voices, NEW g \in Int, g > 0, sound.type = "voc", voice \in Voices,
           Lies(sound, voice, goal), VocEnds(sound, voice, goal), voice.start # Null,
           v.start = voice.start, v.end = voice.end,
           v.size = voice.size, v.count = voice.count,
           v.width = voice.width, v.channels = voice.channels, v.mix = voice.mix,
           v.block > 0 => v.sound + v.block = g,
           v.end # Null => v.size <= 0 \/ (v.block > 0 /\ v.start + v.size = g)
    PROVE  PartsEnd(Cut(v), g) /\ VocEnds(sound, Cut(v), g) /\ Cut(v) \in Voices
<1> DEFINE w == Cut(v)
           b == v.block
<1>1. /\ w \in Voices /\ w.length = LeastOf(b, Block) * One
      /\ w.block = b - LeastOf(b, Block) /\ w.sound = v.sound
      /\ w.start = v.start /\ w.end = v.end /\ w.size = v.size /\ w.count = v.count
      /\ w.width = v.width /\ w.channels = v.channels /\ w.mix = v.mix
  BY CutType
<1>2. voice.mix[3] = 8 /\ voice.mix[4] = 1
  BY DEF Lies, VocLies, AgreesWith
<1>3. MixSizeOf(w) = 1 /\ FrameOf(w) = FrameOf(voice) /\ b \in Int
  <2>1. w.mix = voice.mix
    BY <1>1
  <2> HIDE DEF w
  <2>2. MixSizeOf(w) = 1
    BY <1>1, <1>2, <2>1, SizeType
  <2>3. QED BY <1>1, <2>2 DEF FrameOf, Voices
<1> HIDE DEF w
<1>4. b > 0 => w.sound + b * MixSizeOf(w) = g
  BY <1>1, <1>3
<1> HIDE DEF b
<1>5. PartsEnd(w, g) /\ (w.length > 0 <=> b > 0)
  BY <1>1, <1>3, <1>4, PartEnds
<1>6. VocEnds(sound, w, g)
  <2>1. w.end # Null => w.size <= 0 \/ (w.length > 0 /\ w.start + w.size = g)
    BY <1>1, <1>5 DEF b
  <2>2. QED BY <1>1, <1>3, <2>1 DEF VocEnds
<1>7. QED BY <1>1, <1>5, <1>6 DEF w

LEMMA GetEnds ==
    ASSUME TypeInv, ReadInv, GoesInv, EndInv, DataFirst, GetSound
    PROVE  EndInv'
<1> USE DEF TypeInv, VoiceInv, SoundInv, HandlerInv
<1>1. ipc = "get"
  BY DEF GetSound, GetNextRawBlock, RawLoop, RawEnd, GetNextDemandFeedBlock, DemandFeed,
         GetNextVOCBlock, VocLoop, VocParse, KeepPlaying, NoMoreData, InHandler
<1>2. /\ voice \in Voices /\ voice.position >= voice.length /\ sound # None
      /\ Lies(sound, voice, goal) /\ AgreesWith(voice) /\ Follows(sound, voice, goal)
      /\ PartsEnd(voice, goal) /\ VocEnds(sound, voice, goal)
      /\ goal \in Nat
  BY <1>1 DEF ReadInv, MixAgrees, GoesInv, FollowInv, EndInv
<1>3. CASE GetNextRawBlock
  <2> DEFINE f == FramesOf(voice)
             k == FrameOf(voice)
             b == voice.block
             g == FirstEnd(sound, voice)
  <2>1. KeepPlaying("get", RawPart(voice)) /\ sound.type \in {"raw", "wav"} /\ b > 0
    BY <1>3 DEF GetNextRawBlock, IsRaw
  <2>2. goal = 0 => goal' = g /\ voice.next + b * k = g
    <3>1. goal = 0 => goal' = FirstGoal
      BY <1>3 DEF GetNextRawBlock, NewPass
    <3>2. FirstGoal = g
      BY DEF FirstGoal, FirstEnd, LoopGoal, LoopEnd, Frame, FrameOf
    <3>3. goal = 0 => voice.next + b * k = g
      BY <1>2, <2>1 DEF Lies, RawLies
    <3>4. QED BY <3>1, <3>2, <3>3
  <2>3. goal # 0 => goal' = goal /\ voice.next + b * k = goal
    <3>1. goal # 0 => goal' = goal
      BY <1>3 DEF GetNextRawBlock, SamePass, ghosts
    <3>2. ASSUME goal # 0 PROVE voice.next + b * k = goal
      <4>1. voice.length > 0 /\ voice.next = voice.sound + f * k
        BY <1>2, <2>1, <3>2 DEF Follows
      <4>2. MixSizeOf(voice) = k
        BY <1>2, SizeType
      <4>3. voice.sound + (f + b) * k = goal
        BY <1>2, <4>1, <4>2 DEF PartsEnd
      <4>4. b \in Int /\ f \in Int /\ k \in Int /\ voice.sound \in Int
        <5>1. k \in Int
          BY <1>2, FrameType
        <5>2. QED BY <1>2, <5>1, OneAssumption, IntQuotients DEF Voices, FramesOf
      <4> HIDE DEF f, k, b
      <4>5. (f + b) * k = f * k + b * k /\ f * k \in Int /\ b * k \in Int
        BY <4>4, Distributes, IntProducts
      <4>6. QED BY <4>1, <4>3, <4>4, <4>5
    <3>3. QED BY <3>1, <3>2
  <2>4. goal' = voice.next + b * k /\ goal' \in Int
    <3>1. goal' = voice.next + b * k
      BY <2>2, <2>3
    <3>2. k \in Int
      BY <1>2, FrameType
    <3>3. b \in Int /\ voice.next \in Int
      BY <1>2 DEF Voices
    <3> HIDE DEF k, b
    <3>4. b * k \in Int
      BY <3>2, <3>3, IntProducts
    <3>5. QED BY <3>1, <3>3, <3>4
  <2>5. /\ PartsEnd(RawPart(voice), goal') /\ VocEnds(sound, RawPart(voice), goal')
        /\ RawPart(voice) \in Voices
    BY <1>2, <2>1, <2>4, RawPartEnds
  <2>6. QED BY <2>1, <2>5, KeepEnds
<1>4. CASE RawLoop
  <2> DEFINE v == LoopedRaw
  <2>1. /\ KeepPlaying("get", RawPart(v)) /\ sound.type \in {"raw", "wav"}
        /\ voice.start # Null /\ goal' = LoopGoal
    BY <1>4 DEF RawLoop, IsRaw, LoopedRaw, NewPass
  <2>2. /\ v \in Voices /\ v.position = 0 /\ v.length = 0
        /\ v.block = voice.size /\ v.next = voice.start
        /\ v.width = voice.width /\ v.channels = voice.channels /\ v.mix = voice.mix
    BY <1>2, LoopTypes
  <2>3. voice.start + voice.size * FrameOf(voice) = LoopEnd(sound, voice)
    BY <1>2, <2>1 DEF Lies, RawLies
  <2>4. goal' = voice.start + voice.size * FrameOf(voice)
    BY <2>1, <2>3 DEF LoopGoal, LoopEnd, Frame, FrameOf
  <2> HIDE DEF v
  <2>5. AgreesWith(v) /\ FrameOf(v) = FrameOf(voice)
    BY <1>2, <2>2 DEF AgreesWith, FrameOf
  <2>6. goal' \in Int
    <3> DEFINE k == FrameOf(voice)
    <3>1. k \in Int /\ voice.start \in Int /\ voice.size \in Int
      BY <1>2, FrameType DEF Voices
    <3> HIDE DEF k
    <3>2. voice.size * k \in Int
      BY <3>1, IntProducts
    <3>3. QED BY <2>4, <3>1, <3>2 DEF k
  <2>7. v.next + v.block * FrameOf(v) = goal'
    BY <2>2, <2>4, <2>5
  <2>8. /\ PartsEnd(RawPart(v), goal') /\ VocEnds(sound, RawPart(v), goal')
        /\ RawPart(v) \in Voices
    BY <2>1, <2>2, <2>5, <2>6, <2>7, RawPartEnds
  <2>9. QED BY <2>1, <2>8, KeepEnds
<1>5. CASE RawEnd
  <2> DEFINE v == [voice EXCEPT !.playing = FALSE]
  <2>1. NoMoreData("get", v)
    BY <1>5 DEF RawEnd
  <2>2. /\ v \in Voices /\ v.sound = voice.sound /\ v.next = voice.next
        /\ v.block = voice.block /\ v.size = voice.size /\ v.length = voice.length
        /\ v.width = voice.width /\ v.channels = voice.channels /\ v.mix = voice.mix
        /\ v.start = voice.start /\ v.end = voice.end /\ v.count = voice.count
    BY <1>2 DEF Voices
  <2> HIDE DEF v
  <2>3. PartsEnd(v, goal) /\ VocEnds(sound, v, goal)
    BY <1>2, <2>2, EndsSame
  <2>4. QED BY <2>1, <2>2, <2>3, NoMoreEnds
<1>6. CASE GetNextDemandFeedBlock
  <2>1. /\ KeepPlaying("get", NextPart(1)) /\ sound.type = "feed" /\ voice.block > 0
        /\ goal' = goal
    BY <1>6 DEF GetNextDemandFeedBlock, SamePass, ghosts
  <2>2. FrameOf(voice) = 1 /\ voice.length > 0 /\ 1 \in {1, 2}
    BY <1>2, <2>1, SizeType DEF Lies, FeedLies, RestLies
  <2>3. /\ PartsEnd(NextPart(1), goal) /\ VocEnds(sound, NextPart(1), goal)
        /\ NextPart(1) \in Voices
    BY <1>2, <2>1, <2>2, NextPartEnds
  <2>4. QED BY <2>1, <2>3, KeepEnds
<1>7. ASSUME NEW n \in Chunks, DemandFeed(n) PROVE EndInv'
  <2> DEFINE w == Cut(Fed(n))
  <2>1. /\ sound.type = "feed"
        /\ IF n > 0 THEN KeepPlaying("get", w) /\ NewPass(Base + n) ELSE NoMoreData("get", w)
    BY <1>7 DEF DemandFeed, Fed
  <2>2. n \in Nat /\ n \in Int
    BY ConstantsAssumption
  <2>3. /\ Fed(n) \in Voices /\ Fed(n).block = n /\ Fed(n).sound = Base
        /\ Fed(n).mix = voice.mix
    BY <1>2, <2>2, LoopTypes
  <2>4. /\ w \in Voices /\ w.length = LeastOf(n, Block) * One
        /\ w.block = n - LeastOf(n, Block) /\ w.sound = Base /\ w.mix = voice.mix
    BY <2>3, CutType
  <2>5. MixSizeOf(w) = 1
    <3>1. voice.mix[3] = 8 /\ voice.mix[4] = 1
      BY <1>2, <2>1 DEF Lies, FeedLies, AgreesWith
    <3> HIDE DEF w
    <3>2. QED BY <2>4, <3>1, SizeType
  <2> HIDE DEF w
  <2>6. \A g : VocEnds(sound, w, g)
    BY <2>1 DEF VocEnds
  <2>7. CASE n > 0
    <3>1. goal' = Base + n /\ KeepPlaying("get", w)
      BY <2>1, <2>7 DEF NewPass
    <3>2. n > 0 => w.sound + n * MixSizeOf(w) = goal'
      BY <2>2, <2>4, <2>5, <3>1
    <3>3. goal' \in Int
      BY <2>2, <3>1 DEF Base
    <3>4. PartsEnd(w, goal')
      BY <2>2, <2>4, <3>2, <3>3, PartEnds
    <3>5. QED BY <2>4, <2>6, <3>1, <3>4, KeepEnds
  <2>8. CASE ~(n > 0)
    <3>1. PartsEnd(w, goal)
      BY <1>2, <2>2, <2>4, <2>8, PartEnds
    <3>2. QED BY <2>1, <2>4, <2>6, <2>8, <3>1, NoMoreEnds
  <2>9. QED BY <2>7, <2>8
<1>8. CASE GetNextVOCBlock
  <2> DEFINE k == voice.width \div 8
  <2>1. /\ KeepPlaying("get", NextPart(k)) /\ sound.type = "voc" /\ voice.block > 0
        /\ goal' = goal
    BY <1>8 DEF GetNextVOCBlock, SamePass, ghosts
  <2>2. voice.channels = 1
    BY <1>2, <2>1 DEF Follows
  <2>3. FrameOf(voice) = k /\ k \in {1, 2}
    BY <1>2, <2>2, FrameType
  <2>4. voice.length > 0
    BY <1>2, <2>1 DEF Lies, RestLies
  <2> HIDE DEF k
  <2>5. /\ PartsEnd(NextPart(k), goal) /\ VocEnds(sound, NextPart(k), goal)
        /\ NextPart(k) \in Voices
    BY <1>2, <2>1, <2>3, <2>4, NextPartEnds
  <2>6. QED BY <2>1, <2>5, KeepEnds
<1>9. CASE VocLoop
  <2> DEFINE v == LoopedVoc
  <2>1. /\ KeepPlaying("get", Cut(v)) /\ sound.type = "voc"
        /\ voice.length > 0 /\ voice.start # Null /\ voice.end # Null /\ goal' = goal
    BY <1>9 DEF VocLoop, LoopedVoc, NewPass
  <2>2. /\ v \in Voices /\ v.block = voice.size /\ v.sound = voice.start
        /\ v.start = voice.start /\ v.end = voice.end /\ v.size = voice.size
        /\ v.count = voice.count /\ v.mix = voice.mix
        /\ v.width = voice.width /\ v.channels = voice.channels
    BY <1>2, LoopTypes
  <2>3. goal > 0 /\ (voice.size <= 0 \/ voice.start + voice.size = goal)
    BY <1>2, <2>1 DEF VocEnds
  <2>4. voice.size \in Int
    BY <1>2 DEF Voices
  <2> HIDE DEF v
  <2>5. /\ v.block > 0 => v.sound + v.block = goal
        /\ v.end # Null => v.size <= 0 \/ (v.block > 0 /\ v.start + v.size = goal)
    BY <2>2, <2>3, <2>4
  <2>6. PartsEnd(Cut(v), goal) /\ VocEnds(sound, Cut(v), goal) /\ Cut(v) \in Voices
    BY <1>2, <2>1, <2>2, <2>3, <2>5, LoopEnds
  <2>7. QED BY <2>1, <2>6, KeepEnds
<1>10. CASE VocParse
  <2>1. /\ sound.type = "voc" /\ ipc' = "voc" /\ voice' = [voice EXCEPT !.playing = TRUE]
        /\ sound' = sound /\ goal' = goal
        /\ loc' = [ptr |-> voice.next, last |-> "none", speed |-> 0]
    BY <1>10 DEF VocParse, InHandler, ghosts
  <2>2. /\ voice'.sound = voice.sound /\ voice'.next = voice.next
        /\ voice'.block = voice.block /\ voice'.size = voice.size
        /\ voice'.length = voice.length /\ voice'.mix = voice.mix
        /\ voice'.width = voice.width /\ voice'.channels = voice.channels
        /\ voice'.start = voice.start /\ voice'.end = voice.end
        /\ voice'.count = voice.count
    BY <1>2, <2>1 DEF Voices
  <2>3. PartsEnd(voice', goal) /\ VocEnds(sound, voice', goal)
    BY <1>2, <2>2, EndsSame
  <2>4. goal = 0 /\ voice'.end # Null => Leads(sound, voice.next)
    <3>1. goal = 0 => voice.next = Base
      BY <1>2, <2>1 DEF VocEnds
    <3>2. voice'.end # Null => sound.loop[1] >= 0
      BY <1>2, <2>1, <2>2 DEF VocEnds
    <3>3. QED BY <1>2, <2>1, <3>1, <3>2 DEF DataFirst
  <2>5. loc'.ptr = voice.next /\ loc'.last = "none"
    BY <2>1
  <2>6. QED BY <2>1, <2>3, <2>4, <2>5 DEF EndInv, Searched
<1>11. QED
  BY <1>3, <1>4, <1>5, <1>6, <1>7, <1>8, <1>9, <1>10 DEF GetSound

LEMMA WholeQuotient ==
    ASSUME NEW a \in Nat, NEW k \in {1, 2, 4}, a % k = 0
    PROVE  (a \div k) * k = a
OBVIOUS

LEMMA DifferenceTimes ==
    ASSUME NEW a \in Int, NEW b \in Int, NEW c \in Int
    PROVE  (a - b) * c = a * c - b * c
OBVIOUS

\* The samples of a block of a VOC file.
LEMMA FoundEnds ==
    ASSUME TypeInv, ReadInv, EndInv, RepeatsInBytes, WholeFrames,
           AtVoc({"data", "more", "new"})
    PROVE  LET b == VocHere
               w == Found(b, Described(b))
               g == First(b) + Bytes(b, voice)
           IN  PartsEnd(w, g) /\ VocEnds(sound, w, g) /\ w \in Voices
<1> DEFINE b     == VocHere
           v     == Described(b)
           w     == Found(b, v)
           bytes == Bytes(b, v)
           size  == FrameOf(v)
           block == bytes \div size
           n     == LeastOf(block, Block)
           g     == First(b) + bytes
<1>1. /\ sound \in Sounds /\ sound.type = "voc" /\ VocBlock(b) /\ b \in sound.blocks
      /\ b.kind \in {"data", "more", "new"} /\ ipc = "voc" /\ voice \in Voices /\ sound # None
  BY AtVocHere DEF TypeInv, VoiceInv, SoundInv
<1>2. /\ v \in Voices /\ v.start = voice.start /\ v.end = voice.end /\ v.count = voice.count
      /\ b.kind = "data" => v.width = 8 /\ (v.channels = 1 \/ v.channels = voice.channels)
      /\ b.kind = "new" => v.width = b.width /\ v.channels = b.channels
      /\ b.kind = "more" => v = voice
  BY DescribedType
<1>3. VoiceInv
  BY DEF TypeInv
<1>4. VocEnds(sound, voice, goal) /\ VocLies(sound, voice, goal)
  BY <1>1 DEF EndInv, ReadInv, Lies
<1>5. b.kind = "data" => v.channels = 1 \/ (v.channels = voice.channels /\ voice.width = 8)
  <2>1. CASE loc.last = "extended"
    BY <1>1, <1>2, <2>1 DEF EndInv, Searched
  <2>2. CASE loc.last # "extended"
    <3>1. b.kind = "data" => v = [voice EXCEPT !.width = 8, !.channels = 1, !.speed = b.speed]
      BY <2>2 DEF Described, AsData
    <3> HIDE DEF b, v
    <3>2. QED BY <1>1, <3>1 DEF Voices
  <2>3. QED BY <2>1, <2>2
<1> HIDE DEF b, v
<1>6. /\ w \in Voices /\ bytes \in Nat /\ block \in Nat
      /\ w.length = n * One /\ w.block = block - n
      /\ w.sound = First(b) /\ w.width = v.width /\ w.channels = v.channels
      /\ w.mix[3] = v.width /\ w.mix[4] = v.channels /\ w.count = v.count
      /\ v.end = Null => w.start = v.start /\ w.end = v.end
      /\ v.end # Null => /\ w.start = First(b) + v.start
                         /\ w.size = bytes - v.start
  BY <1>1, <1>2, <1>3, FoundType
<1>7. size \in {1, 2, 4} /\ (v.width = 8 => size = v.channels)
  <2>1. size \in {1, 2, 4}
    BY <1>2, FrameType
  <2>2. v.width = 8 => size = v.channels
    BY <1>2 DEF FrameOf, Voices
  <2>3. QED BY <2>1, <2>2
<1>8. First(b) \in Nat /\ g \in Nat /\ First(b) > 0 /\ g > 0
  BY <1>1, <1>6 DEF First, VocBlock, Base
<1>9. size \in FramesIn(sound)
  <2>1. CASE b.kind = "data"
    <3>1. CASE v.channels = 1
      <4>1. size = 1
        BY <1>2, <1>7, <2>1, <3>1
      <4>2. QED BY <4>1 DEF FramesIn
    <3>2. CASE v.channels = voice.channels /\ voice.width = 8
      <4>1. size = FrameOf(voice)
        BY <1>2, <2>1, <3>2 DEF FrameOf
      <4>2. QED BY <1>1, <1>4, <4>1 DEF VocEnds
    <3>3. QED BY <1>5, <2>1, <3>1, <3>2
  <2>2. CASE b.kind = "new"
    <3>1. size = (b.width \div 8) * b.channels
      BY <1>2, <2>2 DEF FrameOf
    <3>2. b \in {c \in sound.blocks : c.kind = "new"}
      BY <1>1, <2>2
    <3> HIDE DEF size
    <3>3. QED BY <3>1, <3>2 DEF FramesIn
  <2>3. CASE b.kind = "more"
    <3>1. size = FrameOf(voice)
      BY <1>2, <2>3
    <3>2. QED BY <1>1, <1>4, <3>1 DEF VocEnds
  <2>4. QED BY <1>1, <2>1, <2>2, <2>3
<1>10. ASSUME v.end # Null PROVE size = 1
  <2>1. Repeats(sound)
    BY <1>1, <1>2, <1>4, <1>10 DEF VocLies
  <2>2. OneByte(sound)
    BY <1>1, <2>1 DEF RepeatsInBytes
  <2>3. voice.width = 8 /\ voice.channels = 1
    BY <1>1, <1>4, <2>1 DEF VocLies
  <2>4. v.width = 8 /\ v.channels = 1
    BY <1>1, <1>2, <2>2, <2>3 DEF OneByte
  <2>5. QED BY <1>2, <2>4, SizeType
<1>11. block * size = bytes
  <2>1. CASE v.end = Null
    <3>1. bytes = b.bytes /\ b.bytes \in Nat
      BY <1>1, <2>1 DEF Bytes, VocBlock
    <3>2. b.bytes % size = 0
      BY <1>1, <1>9 DEF WholeFrames
    <3> HIDE DEF bytes, size
    <3>3. QED BY <1>7, <3>1, <3>2, WholeQuotient DEF block
  <2>2. CASE v.end # Null
    <3>1. size = 1
      BY <1>10, <2>2
    <3> HIDE DEF bytes, size
    <3>2. QED BY <1>6, <3>1 DEF block
  <2>3. QED BY <2>1, <2>2
<1> HIDE DEF w, bytes, block
<1>12. MixSizeOf(w) = size /\ FrameOf(w) = size
  BY <1>6 DEF MixSizeOf, FrameOf, size
<1> HIDE DEF size
<1>13. block > 0 => w.sound + block * MixSizeOf(w) = g
  BY <1>6, <1>11, <1>12
<1>14. PartsEnd(w, g) /\ (w.length > 0 <=> block > 0)
  <2>1. block \in Int /\ g \in Int
    BY <1>6, <1>8
  <2> HIDE DEF g
  <2>2. QED BY <1>6, <1>13, <2>1, PartEnds
<1>15. ASSUME w.start # Null, w.end # Null
       PROVE  w.size <= 0 \/ (w.length > 0 /\ w.start + w.size = g)
  <2>1. v.end # Null /\ size = 1
    BY <1>6, <1>10, <1>15
  <2>2. v.start \in Nat
    BY <1>2 DEF Voices
  <2>3. block = bytes
    BY <1>6, <1>11, <2>1
  <2>4. w.start + w.size = g /\ w.size = bytes - v.start
    BY <1>6, <1>8, <2>1, <2>2
  <2>5. w.size <= 0 \/ w.length > 0
    BY <1>6, <1>14, <2>2, <2>3, <2>4
  <2>6. QED BY <2>4, <2>5
<1>16. w.end # Null => sound.loop[1] >= 0 /\ w.count = 0
  <2>1. w.end # Null => voice.end # Null
    BY <1>2, <1>6
  <2>2. QED BY <1>1, <1>2, <1>4, <1>6, <2>1 DEF VocEnds
<1>17. VocEnds(sound, w, g)
  <2>1. g # 0
    BY <1>8
  <2> HIDE DEF g
  <2>2. QED BY <1>9, <1>12, <1>15, <1>16, <2>1 DEF VocEnds
<1>18. Bytes(b, voice) = bytes
  BY <1>2 DEF Bytes, bytes
<1>19. QED BY <1>6, <1>14, <1>17, <1>18 DEF b, v, w, g

LEMMA VocStepEnds ==
    ASSUME TypeInv, ReadInv, EndInv, RepeatsInBytes, WholeFrames, VocStep
    PROVE  EndInv'
<1> USE DEF TypeInv, VoiceInv, SoundInv, HandlerInv
<1>1. ipc = "voc" /\ sound \in Sounds /\ sound.type = "voc" /\ sound # None
  BY DEF VocStep, VocText, VocExtended, VocRepeat, VocUntil, VocEnd, VocData, AtVoc
<1>2. /\ voice \in Voices /\ Lies(sound, voice, goal) /\ voice.block = 0
      /\ PartsEnd(voice, goal) /\ VocEnds(sound, voice, goal)
      /\ goal = 0 /\ voice.end # Null => Leads(sound, loc.ptr)
      /\ voice.length = 0 \/ voice.end = Null \/ voice.start = Null
      /\ goal \in Nat
  BY <1>1 DEF ReadInv, EndInv, Searched
<1>3. ASSUME NEW K, AtVoc(K), K \subseteq {"text", "extended", "repeat", "until"},
             goal = 0, voice.end # Null
      PROVE  Leads(sound, Behind(VocHere))
  <2>1. VocHere \in sound.blocks /\ VocHere.at = loc.ptr /\ VocHere.kind \in K
    BY <1>3, AtVocHere
  <2>2. PICK d \in sound.blocks :
            /\ d.kind \in {"data", "more", "new"} /\ loc.ptr <= d.at
            /\ \A b \in sound.blocks :
                   b.at <= d.at =>
                       b = d \/ (b.at < d.at /\ Behind(b) <= d.at /\ b.kind # "end")
    BY <1>2, <1>3 DEF Leads
  <2>3. VocHere # d
    BY <1>3, <2>1, <2>2
  <2>4. Behind(VocHere) <= d.at
    BY <2>1, <2>2, <2>3
  <2>5. QED BY <2>2, <2>4 DEF Leads
<1>4. ASSUME NEW ptr, NEW v, NEW speed, ToBlock(ptr, v, speed),
             PartsEnd(v, goal), VocEnds(sound, v, goal),
             goal = 0 /\ v.end # Null => Leads(sound, ptr),
             VocHere.kind = "extended" => v.width = 8
      PROVE  EndInv'
  <2>1. /\ voice' = v /\ sound' = sound /\ goal' = goal
        /\ loc' = [ptr |-> ptr, last |-> VocHere.kind, speed |-> speed]
    BY <1>4 DEF ToBlock, InHandler, ghosts
  <2>2. loc'.ptr = ptr /\ loc'.last = VocHere.kind
    BY <2>1
  <2>3. QED BY <1>4, <2>1, <2>2 DEF EndInv, Searched
<1>5. CASE VocText
  <2>1. AtVoc({"text"}) /\ ToBlock(Behind(VocHere), voice, loc.speed)
    BY <1>5 DEF VocText
  <2>2. VocHere.kind = "text"
    BY <2>1, AtVocHere
  <2>3. goal = 0 /\ voice.end # Null => Leads(sound, Behind(VocHere))
    BY <1>3, <2>1
  <2>4. QED BY <1>2, <1>4, <2>1, <2>2, <2>3
<1>6. CASE VocExtended
  <2> DEFINE c == VocHere.channels
             v == [voice EXCEPT !.width = 8, !.channels = c]
  <2>1. AtVoc({"extended"}) /\ ToBlock(Behind(VocHere), v, VocHere.speed)
    BY <1>6 DEF VocExtended
  <2>2. VocHere.kind = "extended" /\ VocHere \in sound.blocks /\ c \in {1, 2}
    BY <2>1, AtVocHere DEF VocBlock
  <2>3. c \in FramesIn(sound)
    BY <2>2 DEF FramesIn
  <2>4. goal = 0 /\ voice.end # Null => Leads(sound, Behind(VocHere))
    BY <1>3, <2>1
  <2> HIDE DEF c
  <2>5. /\ v.width = 8 /\ v.channels = c /\ v.sound = voice.sound /\ v.next = voice.next
        /\ v.block = voice.block /\ v.size = voice.size /\ v.length = voice.length
        /\ v.mix = voice.mix /\ v.start = voice.start /\ v.end = voice.end
        /\ v.count = voice.count
    BY <1>2 DEF Voices
  <2> HIDE DEF v
  <2>6. PartsEnd(v, goal)
    BY <1>2, <2>5 DEF PartsEnd, FramesOf, MixSizeOf
  <2>7. FrameOf(v) = c
    BY <2>2, <2>5 DEF FrameOf
  <2>8. VocEnds(sound, v, goal)
    BY <1>2, <2>3, <2>5, <2>7 DEF VocEnds
  <2>9. QED BY <1>4, <2>1, <2>4, <2>5, <2>6, <2>8
<1>7. CASE VocRepeat
  <2> DEFINE count == VocHere.count
             start == Behind(VocHere)
             v == [voice EXCEPT !.count = count, !.start = start]
  <2>1. /\ AtVoc({"repeat"})
        /\ ToBlock(Behind(VocHere), IF voice.end # Null THEN voice ELSE v, loc.speed)
    BY <1>7 DEF VocRepeat
  <2>2. VocHere.kind = "repeat"
    BY <2>1, AtVocHere
  <2>3. goal = 0 /\ voice.end # Null => Leads(sound, Behind(VocHere))
    BY <1>3, <2>1
  <2>4. CASE voice.end # Null
    BY <1>2, <1>4, <2>1, <2>2, <2>3, <2>4
  <2>5. CASE voice.end = Null
    <3>1. ToBlock(Behind(VocHere), v, loc.speed)
      BY <2>1, <2>5
    <3> HIDE DEF count, start
    <3>2. /\ v.width = voice.width /\ v.channels = voice.channels /\ v.sound = voice.sound
          /\ v.next = voice.next /\ v.block = voice.block /\ v.size = voice.size
          /\ v.length = voice.length /\ v.mix = voice.mix /\ v.end = Null
      BY <1>2, <2>5 DEF Voices
    <3> HIDE DEF v
    <3>3. PartsEnd(v, goal)
      BY <1>2, <3>2 DEF PartsEnd, FramesOf, MixSizeOf
    <3>4. FrameOf(v) = FrameOf(voice)
      BY <3>2 DEF FrameOf
    <3>5. VocEnds(sound, v, goal)
      BY <1>2, <3>2, <3>4 DEF VocEnds
    <3>6. QED BY <1>4, <2>2, <3>1, <3>2, <3>3, <3>5
  <2>6. QED BY <2>4, <2>5
<1>8. CASE VocUntil
  <2> DEFINE again == loc.last # "repeat" /\ voice.count > 0 /\ voice.start # Null
             left  == IF voice.count < Forever THEN voice.count - 1 ELSE voice.count
             start == IF left = 0 THEN Null ELSE voice.start
             x == [voice EXCEPT !.count = 0]
             y == [voice EXCEPT !.count = left, !.start = start]
             v == IF loc.last = "repeat" THEN x ELSE IF ~again THEN voice ELSE y
             ptr == IF again THEN voice.start ELSE Behind(VocHere)
  <2>1. AtVoc({"until"}) /\ ToBlock(ptr, v, loc.speed)
    BY <1>2, <1>8 DEF VocUntil, Voices
  <2>2. VocHere.kind = "until"
    BY <2>1, AtVocHere
  <2>3. goal = 0 /\ voice.end # Null => Leads(sound, Behind(VocHere))
    BY <1>3, <2>1
  <2>4. voice.end # Null => ~again
    BY <1>1, <1>2 DEF VocEnds
  <2>5. again => loc.last # "repeat"
    OBVIOUS
  <2> HIDE DEF left, again, start
  <2>6. /\ x.width = voice.width /\ x.channels = voice.channels /\ x.sound = voice.sound
        /\ x.next = voice.next /\ x.block = voice.block /\ x.size = voice.size
        /\ x.length = voice.length /\ x.mix = voice.mix /\ x.end = voice.end
        /\ x.start = voice.start /\ x.count = 0
    BY <1>2 DEF Voices
  <2>7. /\ y.width = voice.width /\ y.channels = voice.channels /\ y.sound = voice.sound
        /\ y.next = voice.next /\ y.block = voice.block /\ y.size = voice.size
        /\ y.length = voice.length /\ y.mix = voice.mix /\ y.end = voice.end
    BY <1>2 DEF Voices
  <2> HIDE DEF x, y
  <2>8. PartsEnd(x, goal) /\ VocEnds(sound, x, goal)
    BY <1>2, <2>6, EndsSame
  <2>9. ASSUME again PROVE PartsEnd(y, goal) /\ VocEnds(sound, y, goal)
    <3>1. PartsEnd(y, goal)
      BY <1>2, <2>7 DEF PartsEnd, FramesOf, MixSizeOf
    <3>2. FrameOf(y) = FrameOf(voice) /\ y.end = Null
      BY <2>4, <2>7, <2>9 DEF FrameOf
    <3>3. VocEnds(sound, y, goal)
      BY <1>2, <2>7, <3>2 DEF VocEnds
    <3>4. QED BY <3>1, <3>3
  <2>10. /\ PartsEnd(v, goal) /\ VocEnds(sound, v, goal)
         /\ v.end # Null => voice.end # Null
    BY <1>2, <2>6, <2>7, <2>8, <2>9
  <2>11. v.end # Null => ptr = Behind(VocHere)
    BY <2>4, <2>10
  <2> HIDE DEF v, ptr
  <2>12. goal = 0 /\ v.end # Null => Leads(sound, ptr)
    BY <2>3, <2>10, <2>11
  <2>13. QED BY <1>4, <2>1, <2>2, <2>10, <2>12
<1>9. CASE VocEnd
  <2> DEFINE at == VocHere.at
             x  == [voice EXCEPT !.playing = FALSE]
             v  == Ended(at)
  <2>1. /\ at \in Nat /\ at > 0 /\ at = loc.ptr
        /\ VocHere \in sound.blocks /\ VocHere.kind = "end"
    BY <1>9, AtVocHere DEF VocEnd, VocBlock, Base
  <2>2. \/ NoMoreData("voc", x)
        \/ voice.start # Null /\ KeepPlaying("voc", Cut(v)) /\ goal' = at
    BY <1>9 DEF VocEnd, Ended, NewPass
  <2>3. CASE NoMoreData("voc", x)
    <3>1. /\ x \in Voices /\ x.sound = voice.sound /\ x.next = voice.next
          /\ x.block = voice.block /\ x.size = voice.size /\ x.length = voice.length
          /\ x.width = voice.width /\ x.channels = voice.channels /\ x.mix = voice.mix
          /\ x.start = voice.start /\ x.end = voice.end /\ x.count = voice.count
      BY <1>2 DEF Voices
    <3> HIDE DEF x
    <3>2. PartsEnd(x, goal) /\ VocEnds(sound, x, goal)
      BY <1>2, <3>1, EndsSame
    <3>3. QED BY <2>3, <3>1, <3>2, NoMoreEnds
  <2>4. CASE voice.start # Null /\ KeepPlaying("voc", Cut(v)) /\ goal' = at
    <3>1. ASSUME voice.end # Null PROVE voice.size <= 0
      <4>1. goal # 0
        <5>1. SUFFICES ASSUME goal = 0 PROVE FALSE
          OBVIOUS
        <5>2. PICK d \in sound.blocks :
                  /\ d.kind \in {"data", "more", "new"} /\ loc.ptr <= d.at
                  /\ \A b \in sound.blocks :
                         b.at <= d.at =>
                             b = d \/ (b.at < d.at /\ Behind(b) <= d.at /\ b.kind # "end")
          BY <1>2, <3>1, <5>1 DEF Leads
        <5>3. VocHere = d \/ VocHere.kind # "end"
          BY <2>1, <5>2
        <5>4. QED BY <2>1, <5>2, <5>3
      <4>2. voice.length = 0
        BY <1>2, <2>4, <3>1
      <4>3. QED BY <1>1, <1>2, <2>4, <3>1, <4>1, <4>2 DEF VocEnds
    <3>2. /\ v \in Voices /\ v.block = at - voice.start /\ v.sound = voice.start
          /\ v.start = voice.start /\ v.end = voice.end /\ v.size = voice.size
          /\ v.count = voice.count /\ v.mix = voice.mix
          /\ v.width = voice.width /\ v.channels = voice.channels
      BY <1>2, <2>1, LoopTypes
    <3>3. voice.start \in Int
      BY <1>2 DEF Voices
    <3> HIDE DEF v, at
    <3>4. /\ v.block > 0 => v.sound + v.block = at
          /\ v.end # Null => v.size <= 0 \/ (v.block > 0 /\ v.start + v.size = at)
      BY <2>1, <3>1, <3>2, <3>3
    <3>5. PartsEnd(Cut(v), at) /\ VocEnds(sound, Cut(v), at) /\ Cut(v) \in Voices
      BY <1>1, <1>2, <2>1, <2>4, <3>2, <3>4, LoopEnds
    <3>6. QED BY <2>4, <3>5, KeepEnds
  <2>5. QED BY <2>2, <2>3, <2>4
<1>10. CASE VocData
  <2> DEFINE b == VocHere
             w == Found(b, Described(b))
             g == First(b) + Bytes(b, voice)
  <2>1. AtVoc({"data", "more", "new"}) /\ KeepPlaying("voc", w) /\ goal' = g
    BY <1>10 DEF VocData, Described, NewPass, Bytes
  <2>2. PartsEnd(w, g) /\ VocEnds(sound, w, g) /\ w \in Voices
    BY <2>1, FoundEnds
  <2> HIDE DEF w, g
  <2>3. QED BY <2>1, <2>2, KeepEnds
<1>11. QED BY <1>5, <1>6, <1>7, <1>8, <1>9, <1>10 DEF VocStep

LEMMA EndInit == Init => EndInv
BY DEF Init, EndInv, Searched

LEMMA EndStep ==
    ASSUME RepeatsInBytes, WholeFrames, DataFirst
    PROVE  TypeInv /\ ReadInv /\ GoesInv /\ EndInv /\ [Next]_vars => EndInv'
<1> SUFFICES ASSUME TypeInv, ReadInv, GoesInv, EndInv, [Next]_vars PROVE EndInv'
  OBVIOUS
<1>1. CASE UNCHANGED vars
  BY <1>1 DEF vars, ghosts, EndInv, Searched
<1>2. CASE Next
  BY <1>2, PlayEnds, MainEnds, PageEnds, MixPartEnds, GetEnds, VocStepEnds
     DEF Next, HandlerStep, MainChange
<1>3. QED BY <1>1, <1>2

\* A block, or a loop, is played to its end before the next one begins: for any sound that
\* holds whole frames, and whose loop lies in its first data.  The end of a loop is the one
\* that the code sets, which for a WAV or VOC file lies in front of the sample at loopend.
THEOREM PlaysThroughCorrect ==
    ASSUME RepeatsInBytes, StereoInOne, WholeFrames, DataFirst
    PROVE  Spec => []PlaysThrough
<1>1. TypeInv /\ ReadInv /\ EndInv => PlaysThrough
  <2> SUFFICES ASSUME TypeInv, ReadInv, EndInv,
                      ipc = "get", voice.block = 0, voice.length > 0
               PROVE  Here >= goal * One
    BY DEF PlaysThrough
  <2> DEFINE f == FramesOf(voice)
             k == FrameOf(voice)
             s == voice.sound
             p == voice.position
             one == One
  <2>1. sound # None /\ voice \in Voices /\ p >= voice.length
    BY DEF TypeInv, VoiceInv, SoundInv, HandlerInv
  <2>2. AgreesWith(voice) /\ BlockLies(voice, goal) /\ PartsEnd(voice, goal)
    BY <2>1 DEF ReadInv, MixAgrees, Lies, EndInv
  <2>3. f \in Int /\ k \in Nat /\ s \in Int /\ p \in Int /\ one \in Int
    <3>1. k \in Nat
      BY <2>1, FrameType
    <3>2. QED BY <2>1, <3>1, OneAssumption, IntQuotients DEF Voices, FramesOf
  <2>4. voice.length = f * one /\ MixSizeOf(voice) = k
    BY <2>1, <2>2, SizeType DEF BlockLies
  <2>5. s + f * k = goal
    <3>1. s + (f + 0) * k = goal
      BY <2>2, <2>4 DEF PartsEnd
    <3> HIDE DEF f, k
    <3>2. f + 0 = f
      BY <2>3
    <3>3. QED BY <3>1, <3>2
  <2>6. Here = s * one + p * k
    BY HereIs DEF HereOf
  <2> HIDE DEF f, k, s, p, one
  <2>7. (f * one) * k <= p * k
    <3>1. f * one \in Int
      BY <2>3, IntProducts
    <3>2. QED BY <2>1, <2>3, <2>4, <3>1, ProductsGrow
  <2>8. /\ (s + f * k) * one + (p - f * one) * k = s * one + p * k
        /\ (p - f * one) * k = p * k - (f * one) * k
        /\ (f * one) * k \in Int /\ p * k \in Int /\ goal * one \in Int
    <3>1. f * one \in Int /\ f * k \in Int /\ goal \in Int
      BY <2>3, <2>5, IntProducts
    <3>2. (s + f * k) * one + (p - f * one) * k = s * one + p * k
      BY <2>3, SamePlace
    <3>3. (p - f * one) * k = p * k - (f * one) * k
      BY <2>3, <3>1, DifferenceTimes
    <3>4. QED BY <2>3, <3>1, <3>2, <3>3, IntProducts
  <2>9. s * one + p * k = goal * one + (p * k - (f * one) * k)
    BY <2>5, <2>8
  <2>10. Here >= goal * one
    BY <2>6, <2>7, <2>8, <2>9
  <2>11. QED BY <2>10 DEF one
<1>2. Init => TypeInv /\ PageInv /\ ReadInv /\ GoesInv /\ EndInv
  BY TypeInit, PageInit, ReadInit, GoesInit, EndInit
<1>3. (TypeInv /\ PageInv /\ ReadInv /\ GoesInv /\ EndInv) /\ [Next]_vars
          => (TypeInv /\ PageInv /\ ReadInv /\ GoesInv /\ EndInv)'
  BY TypeStep, PageStep, ReadStep, GoesStep, EndStep
<1>4. QED BY <1>1, <1>2, <1>3, PTL DEF Spec
=============================================================================
