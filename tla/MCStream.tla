-------------------------------- MODULE MCStream --------------------------------
(***************************************************************************)
(* The constants of Stream: a page of four samples, a block of six frames. *)
(***************************************************************************)
EXTENDS Stream

Raw(frames, loop) ==
    [type |-> "raw", frames |-> frames, speed |-> 2, loop |-> loop]

Wav(frames, width, channels, loop) ==
    [type |-> "wav", frames |-> frames, width |-> width, channels |-> channels,
     speed |-> 2, loop |-> loop]

Feed == [type |-> "feed", speed |-> 2]

\* A VOC file: its blocks lie one behind the other, each with a header of one unit; `at` is
\* where a block lies in the file.
Voc(blocks, loop) == [type |-> "voc", blocks |-> blocks, loop |-> loop]

Data(at, bytes, speed) == [at |-> Base + at, kind |-> "data", bytes |-> bytes, speed |-> speed]
More(at, bytes)        == [at |-> Base + at, kind |-> "more", bytes |-> bytes]
New(at, bytes, width, channels) ==
    [at |-> Base + at, kind |-> "new", bytes |-> bytes, width |-> width, channels |-> channels,
     speed |-> 2]
Extended(at, channels) ==
    [at |-> Base + at, kind |-> "extended", bytes |-> 0, channels |-> channels, speed |-> 2]
Repeat(at, count) == [at |-> Base + at, kind |-> "repeat", bytes |-> 0, count |-> count]
Simple(at, kind)  == [at |-> Base + at, kind |-> kind, bytes |-> 0]

NoLoop == <<-1, -1>>

\* The addresses of the loop of a raw sound; a raw sound without one has them Null.
MCSounds ==
    { Raw(9, <<Base + 2, Base + 8>>),
      Wav(14, 8, 1, NoLoop), Wav(9, 16, 1, <<2, 20>>), Wav(6, 16, 2, <<1, 5>>),
      Feed,
      Voc({Data(0, 13, 2), Simple(14, "text"), More(15, 7), Simple(23, "end")}, NoLoop),
      Voc({Repeat(0, 1), Data(1, 9, 2), Simple(11, "until"), Extended(12, 1),
           Data(13, 8, 2), Simple(22, "end")}, NoLoop),
      Voc({Repeat(0, Forever), Data(1, 13, 1), Simple(15, "end")}, NoLoop),
      Voc({New(0, 12, 16, 1), Extended(13, 2), Data(14, 8, 2), Simple(23, "end")}, NoLoop),
      Voc({Data(0, 13, 2), Simple(14, "end")}, <<2, 9>>) }

MCModes   == {<<8, 2>>, <<16, 2>>}
MCPans    == {<<FALSE, FALSE>>, <<TRUE, FALSE>>}

\* The sounds are such as the theorems about Stream speak of.
ASSUME SoundsPlayable == SoundsAssumption
===============================================================================
