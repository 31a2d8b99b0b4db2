------------------------------ MODULE MCMidi -------------------------------
(* Songs for Midi. *)
EXTENDS Midi, TLC

Ev(d, k, v) == [delta |-> d, kind |-> k, value |-> v]
Note(d) == Ev(d, "note", 0)
Eot(d) == Ev(d, "eot", 0)

\* The tempo stands on tick 0, a new meter on the first beat of bar 2.
Conductor == <<Ev(0, "tempo", 2), Ev(0, "include", 127), Note(1), Ev(3, "meter", <<1, 2>>),
               Note(0), Ev(1, "tempo", 1), Eot(2)>>
Melody(d) == <<Note(d), Note(0), Note(1), Note(2), Eot(1)>>
OtherCard == <<Ev(0, "include", 2), Note(1), Eot(9)>>
NotThisCard == <<Ev(0, "include", 127), Ev(0, "exclude", 1), Note(1), Eot(9)>>

\* A loop of the whole song, in track t: c times from tick 1 to tick e.
SongLoop(c, e) == <<Ev(0, "tempo", 2), Ev(1, "songBegin", c), Note(1), Ev(e, "songEnd", 127),
                    Eot(1)>>
Late == <<Note(1), Note(1), Eot(3)>>

\* Loops of the same ticks in all tracks, the second one infinite.
TrackLoop(n) == <<Ev(0, "tempo", 1), Ev(1, "begin", 2)>> \o n \o
                <<Ev(1, "end", 127), Ev(1, "begin", 0), Ev(2, "end", 127), Eot(1)>>

LongLoop == TrackLoop(<<Note(1)>>)
ShortLoop == TrackLoop(<<Note(0), Note(1)>>)

PlainSongs == {<<Conductor, Melody(0), OtherCard>>, <<Conductor, NotThisCard, Melody(2)>>}
LoopSongs == {<<SongLoop(c, 2), Late, Melody(0)>> : c \in {0, 1}}
        \cup {<<Late, SongLoop(c, 3), Melody(1)>> : c \in {0, 2}}
        \cup {<<Melody(1), Late, SongLoop(1, 1)>>}
\* A part that repeats until the program sets context 1, and what follows then.
ContextSongs ==
    {<< <<Ev(0, "tempo", 2), Ev(1, "begin", 0), Ev(1, "contextEnd", 0), Note(1),
          Ev(1, "end", 127), Ev(0, "contextBegin", 1), Note(0),
          Ev(1, "meter", <<2, 1>>), Note(1), Eot(1)>>,
        <<Ev(1, "begin", 0), Note(0), Ev(1, "contextEnd", 0), Ev(2, "end", 127),
          Ev(0, "contextBegin", 1), Note(2), Eot(0)>> >>}
MCSongs == PlainSongs \cup LoopSongs \cup {<<LongLoop, ShortLoop>>} \cup ContextSongs

MCPositions == {<<2, 1, 0>>}
=============================================================================
