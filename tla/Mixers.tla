-------------------------------- MODULE Mixers --------------------------------
(***************************************************************************)
(* The mixing procedures of mv_mix.asm, mv_mix16.asm and mv_mix2c.c: what  *)
(* they read, how many samples they write and which position they hand on  *)
(* in MV_MixPosition.  Volumes and clipping are left out.                  *)
(*                                                                         *)
(* A position is a fixed-point number of frames, One being the first of    *)
(* them (0x10000 in the code).  `size` is the number of bytes of a frame.  *)
(* No procedure looks at the length of the sound.                          *)
(***************************************************************************)
EXTENDS Integers

CONSTANT
    One         \* 1.0 as a fixed-point number

ASSUME OneAssumption == One \in Nat \ {0}

(***************************************************************************)
(* A mixer writes `count` samples, the last of which it takes from the     *)
(* bytes below `end`.  Before it leaves its loop it has fetched the next   *)
(* `ahead` as well, which it throws away: it has read the bytes below      *)
(* `read`.  If it has written any sample it stores `position`; if not, it  *)
(* returns before it reads, and MV_MixPosition is what it was.             *)
(***************************************************************************)
\* The end of the frame at a position.
FrameEnd(position, size) == size * (position \div One) + size

Mixed(position, rate, size, count, ahead, steps) ==
    [count    |-> count,
     stored   |-> count > 0,
     end      |-> FrameEnd(position + (count - 1) * rate, size),
     read     |-> FrameEnd(position + (count - 1) * rate + ahead * rate, size),
     position |-> position + steps * rate]

\* (Mutant: the procedures do not halve the count, but still do two in a round.)
EachTwice(position, rate, size, n) == Mixed(position, rate, size, 2 * n, 2, 2 * n + 2)

\* Two samples in a round, which ends with the fetch of the next two.  The steps of the
\* fetch are counted in, so that the position is two samples ahead.
Pairs(position, rate, size, n) ==
    LET count == 2 * (n \div 2)
    IN  Mixed(position, rate, size, count, 2, count + 2)

\* One sample in a round, which ends with the fetch of the next one; the step behind that is
\* counted in.
Singles(position, rate, size, n) == Mixed(position, rate, size, n, 1, n + 1)

\* (Mutant: the position before the last step is stored.)
StepBehind(position, rate, size, n) == Mixed(position, rate, size, n, 1, n - 1)

\* One sample in a round, which ends with the fetch of the next one: the position is where
\* that lies.
Exact(position, rate, size, n) == Mixed(position, rate, size, n, 1, n)

Mix8BitMono(p, r, n)         == Pairs(p, r, 1, n)
Mix8BitStereo(p, r, n)       == Exact(p, r, 1, n)
Mix16BitMono(p, r, n)        == Pairs(p, r, 1, n)
Mix16BitStereo(p, r, n)      == Exact(p, r, 1, n)

Mix8BitMono16(p, r, n)       == Pairs(p, r, 2, n)
Mix8BitStereo16(p, r, n)     == Exact(p, r, 2, n)
Mix16BitMono16(p, r, n)      == Singles(p, r, 2, n)
Mix16BitStereo16(p, r, n)    == Exact(p, r, 2, n)

Mix8BitMono2C(p, r, n)       == Pairs(p, r, 2, n)
Mix8BitStereo2C(p, r, n)     == Exact(p, r, 2, n)
Mix16BitMono2C(p, r, n)      == Pairs(p, r, 2, n)
Mix16BitStereo2C(p, r, n)    == Exact(p, r, 2, n)

Mix8BitMono162C(p, r, n)     == Pairs(p, r, 4, n)
Mix8BitStereo162C(p, r, n)   == Exact(p, r, 4, n)
Mix16BitMono162C(p, r, n)    == Singles(p, r, 4, n)
Mix16BitStereo162C(p, r, n)  == Exact(p, r, 4, n)

(***************************************************************************)
(* voice->mix: which of them a voice uses, by the bits of the mixing       *)
(* buffer, whether one or both of its channels are written, and the bits   *)
(* and channels of the sound.                                              *)
(***************************************************************************)
Mix(mix, p, r, n) ==
    CASE mix = <<8, "mono", 8, 1>>     -> Mix8BitMono(p, r, n)
      [] mix = <<8, "both", 8, 1>>     -> Mix8BitStereo(p, r, n)
      [] mix = <<16, "mono", 8, 1>>    -> Mix16BitMono(p, r, n)
      [] mix = <<16, "both", 8, 1>>    -> Mix16BitStereo(p, r, n)
      [] mix = <<8, "mono", 16, 1>>    -> Mix8BitMono16(p, r, n)
      [] mix = <<8, "both", 16, 1>>    -> Mix8BitStereo16(p, r, n)
      [] mix = <<16, "mono", 16, 1>>   -> Mix16BitMono16(p, r, n)
      [] mix = <<16, "both", 16, 1>>   -> Mix16BitStereo16(p, r, n)
      [] mix = <<8, "mono", 8, 2>>     -> Mix8BitMono2C(p, r, n)
      [] mix = <<8, "both", 8, 2>>     -> Mix8BitStereo2C(p, r, n)
      [] mix = <<16, "mono", 8, 2>>    -> Mix16BitMono2C(p, r, n)
      [] mix = <<16, "both", 8, 2>>    -> Mix16BitStereo2C(p, r, n)
      [] mix = <<8, "mono", 16, 2>>    -> Mix8BitMono162C(p, r, n)
      [] mix = <<8, "both", 16, 2>>    -> Mix8BitStereo162C(p, r, n)
      [] mix = <<16, "mono", 16, 2>>   -> Mix16BitMono162C(p, r, n)
      [] OTHER                         -> Mix16BitStereo162C(p, r, n)
===============================================================================
