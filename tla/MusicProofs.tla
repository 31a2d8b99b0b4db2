---------------------------- MODULE MusicProofs -----------------------------
(***************************************************************************)
(* Theorems on the music: how many tracks of a song are playing, in which  *)
(* tick of it they are and at which time (Midi), for any songs; and the    *)
(* voices of the FM chip (AlMidi), for any number of voices and any songs: *)
(* the lists they are kept in, what the chip was told of them, and which   *)
(* notes end.                                                              *)
(***************************************************************************)
EXTENDS Midi, AlMidi, LinkListProofs

-----------------------------------------------------------------------------
(* The tracks of a song.                                                   *)

\* What a loop goes back to is a record, and says whether the track was on.
Remembers(r) ==
    /\ r.on \in BOOLEAN
    /\ r = [count |-> r.count, pos |-> r.pos, delay |-> r.delay, on |-> r.on,
            clock |-> r.clock]

\* The tracks that play.
TracksOn == {t \in 1..Tracks : on[t]}

\* The tracks are those of one song, and each has been on or off since it began.
TracksInv ==
    /\ song \in Songs \cup {<<>>} /\ (loaded => song \in Songs)
    /\ at # "idle" => song \in Songs
    /\ on \in [1..Tracks -> BOOLEAN]
    /\ saved = [t \in 1..Tracks |-> saved[t]] /\ \A t \in 1..Tracks : Remembers(saved[t])

\* The invariant.
CountInv == TracksInv /\ ActiveTracksCounted

\* The tracks of a song are finitely many.
LEMMA TracksFinite ==
    ASSUME song \in Songs \cup {<<>>}
    PROVE  Tracks \in Nat /\ IsFiniteSet(1..Tracks)
<1>1. Tracks \in Nat
  <2>1. ASSUME song \in Songs PROVE Len(song) \in Nat
    BY <2>1, ConstantsAssumption DEF Song
  <2>2. Len(<<>>) = 0
    OBVIOUS
  <2>3. QED BY <2>1, <2>2 DEF Tracks
<1>2. QED BY <1>1, FS_Interval

\* A part of the tracks is finite, and has no more than there are.
LEMMA PartFinite ==
    ASSUME song \in Songs \cup {<<>>}, NEW S \in SUBSET (1..Tracks)
    PROVE  IsFiniteSet(S) /\ Cardinality(S) \in Nat
BY TracksFinite, FS_Subset, FS_CardinalityType

\* A song that is begun again.
LEMMA CountReset ==
    ASSUME NEW s \in Songs \cup {<<>>}, NEW tempo, ResetTracks(s, tempo), song' = s
    PROVE  /\ on' \in [1..Tracks' -> BOOLEAN]
           /\ saved' = [t \in 1..Tracks' |-> saved'[t]]
           /\ \A t \in 1..Tracks' : Remembers(saved'[t])
           /\ ActiveTracksCounted'
<1>1. /\ on' = [t \in 1..Len(s) |-> Included(s[t])]
      /\ saved' = [t \in 1..Len(s) |-> NoLoop]
      /\ activeTracks' = Cardinality({t \in 1..Len(s) : Included(s[t])})
      /\ Tracks' = Len(s)
  BY DEF ResetTracks, Tracks
<1>2. \A t : Included(s[t]) \in BOOLEAN
  BY DEF Included
<1>3. Remembers(NoLoop)
  BY DEF Remembers, NoLoop
<1>4. {t \in 1..Len(s) : Included(s[t])} = {t \in 1..Len(s) : on'[t]}
  BY <1>1
<1>5. QED BY <1>1, <1>2, <1>3, <1>4 DEF ActiveTracksCounted

\* MIDI has no song yet.
LEMMA CountInit == Init => CountInv
<1> SUFFICES ASSUME Init PROVE CountInv
  OBVIOUS
<1>1. song = <<>> /\ on = <<>> /\ saved = <<>> /\ activeTracks = 0 /\ loaded = FALSE
      /\ at = "idle"
  BY DEF Init
<1>2. Tracks = 0 /\ 1..Tracks = {}
  BY <1>1 DEF Tracks
<1>3. TracksInv
  BY <1>1, <1>2 DEF TracksInv
<1>4. {t \in 1..Tracks : on[t]} = {}
  BY <1>2
<1>5. QED BY <1>1, <1>3, <1>4, FS_EmptySet DEF CountInv, ActiveTracksCounted

\* One track less, or none: the sets that the cases of LoopEnd count.
LEMMA CountEnd ==
    ASSUME CountInv, NEW t, EndOfTrack(t)
    PROVE  CountInv'
<1>1. /\ t \in 1..Tracks /\ on[t] /\ on' = [on EXCEPT ![t] = FALSE]
      /\ activeTracks' = activeTracks - 1
      /\ UNCHANGED <<song, loaded, saved, at>>
  BY DEF EndOfTrack, EventDue, flags, run
<1>2. Tracks' = Tracks
  BY <1>1 DEF Tracks
<1>3. TracksInv'
  BY <1>1, <1>2 DEF CountInv, TracksInv
<1>4. on \in [1..Tracks -> BOOLEAN]
  BY DEF CountInv, TracksInv
<1>5. {u \in 1..Tracks : on'[u]} = {u \in 1..Tracks : on[u]} \ {t}
  BY <1>1, <1>4
<1>6. /\ IsFiniteSet({u \in 1..Tracks : on[u]})
      /\ t \in {u \in 1..Tracks : on[u]}
  BY <1>1, PartFinite DEF CountInv, TracksInv
<1>7. Cardinality({u \in 1..Tracks : on'[u]}) = Cardinality({u \in 1..Tracks : on[u]}) - 1
  BY <1>5, <1>6, FS_RemoveElement
<1>8. QED BY <1>1, <1>2, <1>3, <1>7 DEF CountInv, ActiveTracksCounted

\* A track loop counts its own track out and in, a song loop counts all anew.
LEMMA CountLoop ==
    ASSUME CountInv, NEW t, LoopEnd(t)
    PROVE  CountInv'
<1>1. t \in 1..Tracks /\ on[t] /\ UNCHANGED <<song, loaded, at>>
  BY DEF LoopEnd, EventDue, flags
<1>2. Tracks' = Tracks
  BY <1>1 DEF Tracks
<1>3. /\ on \in [1..Tracks -> BOOLEAN] /\ song \in Songs \cup {<<>>}
      /\ saved = [u \in 1..Tracks |-> saved[u]] /\ \A u \in 1..Tracks : Remembers(saved[u])
      /\ activeTracks = Cardinality({u \in 1..Tracks : on[u]})
  BY DEF CountInv, TracksInv, ActiveTracksCounted
<1>4. CASE saved[t].count = 0
  BY <1>1, <1>2, <1>4 DEF LoopEnd, CountInv, TracksInv, ActiveTracksCounted
<1>5. CASE saved[t].count # 0
  <2> DEFINE S == Looped(t, "songEnd")
             back == {u \in S : saved[u].on}
  <2>1. /\ saved' = [u \in 1..Tracks |->
             IF u \in S THEN [saved[u] EXCEPT !.count = Left(@)] ELSE saved[u]]
        /\ on' = [u \in 1..Tracks |-> IF u \in S THEN saved[u].on ELSE on[u]]
        /\ activeTracks' = NotRewound(t, S) + Cardinality(back)
    BY <1>5 DEF LoopEnd
  <2>2. S \subseteq 1..Tracks /\ t \in S /\ (S = {t} \/ S = 1..Tracks)
    BY <1>1 DEF Looped
  <2> HIDE DEF S
  <2>3. /\ saved' = [u \in 1..Tracks |-> saved'[u]]
        /\ \A u \in 1..Tracks : Remembers(saved'[u])
    <3>1. ASSUME NEW u \in 1..Tracks PROVE Remembers(saved'[u])
      <4>1. Remembers(saved[u])
        BY <1>3
      <4>2. Remembers([saved[u] EXCEPT !.count = Left(@)])
        BY <4>1 DEF Remembers
      <4>3. saved'[u] = [saved[u] EXCEPT !.count = Left(@)] \/ saved'[u] = saved[u]
        BY <2>1
      <4>4. QED BY <4>1, <4>2, <4>3
    <3>2. QED BY <2>1, <3>1
  <2>4. on' \in [1..Tracks -> BOOLEAN]
    BY <1>3, <2>1 DEF Remembers
  <2>5. TracksInv'
    BY <1>1, <1>2, <2>3, <2>4 DEF CountInv, TracksInv
  <2>6. activeTracks' = Cardinality({u \in 1..Tracks : on'[u]})
    <3> DEFINE was == {u \in 1..Tracks : on[u]}
               now == {u \in 1..Tracks : on'[u]}
    <3> SUFFICES activeTracks' = Cardinality(now)
      OBVIOUS
    <3>6. /\ activeTracks = Cardinality(was)
          /\ activeTracks' = NotRewound(t, S) + Cardinality(back)
      BY <1>3, <2>1
    <3>1. IsFiniteSet(was) /\ t \in was /\ Cardinality(was) \in Nat
      BY <1>1, <1>3, PartFinite
    <3>0. /\ \A u \in 1..Tracks : on'[u] = IF u \in S THEN saved[u].on ELSE on[u]
          /\ \A u \in 1..Tracks : saved[u].on \in BOOLEAN /\ on[u] \in BOOLEAN
      BY <1>3, <2>1 DEF Remembers
    <3>2. CASE S = {t} /\ saved[t].on
      <4>0. back = {t}
        BY <3>2
      <4>1. now = was /\ back = {t}
        BY <1>1, <2>2, <3>0, <3>2, <4>0
      <4>2. Cardinality(back) = 1
        BY <4>1, FS_Singleton
      <4>3. NotRewound(t, S) = activeTracks - 1
        BY <3>2 DEF NotRewound
      <4> HIDE DEF was, now, back
      <4>4. QED BY <3>1, <3>6, <4>1, <4>2, <4>3
    <3>3. CASE S = {t} /\ ~saved[t].on
      <4>0. back = {}
        BY <3>3
      <4>1. now = was \ {t} /\ back = {}
        BY <1>1, <2>2, <3>0, <3>3, <4>0
      <4> HIDE DEF was, now, back
      <4>2. Cardinality(back) = 0 /\ Cardinality(now) = Cardinality(was) - 1
        BY <3>1, <4>1, FS_EmptySet, FS_RemoveElement
      <4>3. NotRewound(t, S) = activeTracks - 1
        BY <3>3 DEF NotRewound
      <4>4. QED BY <3>1, <3>6, <4>2, <4>3
    <3>4. CASE S = 1..Tracks /\ S # {t}
      <4>1. now = back
        BY <2>2, <3>0, <3>4
      <4>2. NotRewound(t, S) = 0
        BY <3>4 DEF NotRewound
      <4>3. Cardinality(back) \in Nat
        BY <1>3, <2>2, PartFinite
      <4> HIDE DEF was, now, back
      <4>4. QED BY <3>6, <4>1, <4>2, <4>3
    <3>5. QED BY <1>3, <2>2, <3>2, <3>3, <3>4
  <2>7. QED BY <1>2, <2>5, <2>6 DEF CountInv, ActiveTracksCounted
<1>6. QED BY <1>4, <1>5

\* The other events leave alone which tracks are on.
LEMMA CountKept ==
    ASSUME CountInv, UNCHANGED <<song, on, activeTracks>>,
           loaded' => loaded, at' # "idle" => at # "idle" \/ loaded,
           saved' = [t \in 1..Tracks |-> saved'[t]],
           \A t \in 1..Tracks : Remembers(saved'[t])
    PROVE  CountInv'
<1>1. Tracks' = Tracks
  BY DEF Tracks
<1>2. TracksInv'
  BY <1>1 DEF CountInv, TracksInv
<1>3. QED BY <1>1, <1>2 DEF CountInv, ActiveTracksCounted

\* MIDI_PlaySong.
LEMMA CountStart ==
    ASSUME CountInv, NEW t, LoopStart(t)
    PROVE  CountInv'
<1>1. \A u \in 1..Tracks : Remembers(saved[u]) /\ on[u] \in BOOLEAN
  BY DEF CountInv, TracksInv
<1> DEFINE count == IF Event(t).value = 0 THEN Infinite ELSE Event(t).value
           here(u) == [count |-> count, pos |-> IF u = t THEN pos[u] + 1 ELSE pos[u],
                       delay |-> delay[u], on |-> on[u], clock |-> clock]
<1>2. saved' = [u \in 1..Tracks |->
                   IF u \in Looped(t, "songBegin") THEN here(u) ELSE saved[u]]
  BY DEF LoopStart
<1>3. \A u \in 1..Tracks : Remembers(here(u))
  BY <1>1 DEF Remembers
<1> HIDE DEF here
<1>4. /\ saved' = [u \in 1..Tracks |-> saved'[u]]
      /\ \A u \in 1..Tracks : Remembers(saved'[u])
  BY <1>1, <1>2, <1>3
<1>5. UNCHANGED <<song, on, activeTracks, loaded, at>>
  BY DEF LoopStart, flags, run
<1>6. QED BY <1>4, <1>5, CountKept

\* MIDI_SetContext, track by track.
LEMMA CountContext ==
    ASSUME CountInv, NEW t, ContextEnd(t)
    PROVE  CountInv'
<1>1. \A u \in 1..Tracks : Remembers(saved[u])
  BY DEF CountInv, TracksInv
<1>2. saved = [u \in 1..Tracks |-> saved[u]]
  BY DEF CountInv, TracksInv
<1>3. UNCHANGED <<song, on, activeTracks, loaded, at>>
  BY DEF ContextEnd, flags
<1>4. \/ saved' = saved
      \/ \E c : saved' = [saved EXCEPT ![t].count = c.count, ![t].pos = c.start]
  BY DEF ContextEnd
<1>5. CASE saved' = saved
  BY <1>1, <1>2, <1>3, <1>5, CountKept
<1>6. ASSUME NEW c, saved' = [saved EXCEPT ![t].count = c.count, ![t].pos = c.start]
      PROVE  CountInv'
  <2>1. saved' = [u \in 1..Tracks |-> saved'[u]]
    BY <1>2, <1>6
  <2>2. ASSUME NEW u \in 1..Tracks PROVE Remembers(saved'[u])
    <3>1. CASE u # t
      BY <1>1, <1>2, <1>6, <3>1
    <3>2. CASE u = t
      <4>1. saved'[u] = [[saved[u] EXCEPT !.count = c.count] EXCEPT !.pos = c.start]
        BY <1>2, <1>6, <3>2
      <4>2. Remembers(saved[u])
        BY <1>1
      <4>3. QED BY <4>1, <4>2 DEF Remembers
    <3>3. QED BY <3>1, <3>2
  <2>3. QED BY <1>3, <2>1, <2>2, CountKept
<1>7. QED BY <1>4, <1>5, <1>6

\* With the last track the song ends, or begins again.
LEMMA CountTrackDone ==
    ASSUME CountInv, TrackDone
    PROVE  CountInv'
<1>1. UNCHANGED <<song, loaded, at>> /\ at \in {"service", "seek"}
  BY DEF TrackDone
<1>2. CASE UNCHANGED <<on, saved, activeTracks>>
  BY <1>1, <1>2, CountKept DEF CountInv, TracksInv
<1>3. CASE ResetTracks(song, clock.perTick)
  <2>1. song \in Songs \cup {<<>>} /\ song' = song
    BY <1>1 DEF CountInv, TracksInv
  <2>2. /\ on' \in [1..Tracks' -> BOOLEAN]
        /\ saved' = [t \in 1..Tracks' |-> saved'[t]]
        /\ \A t \in 1..Tracks' : Remembers(saved'[t])
        /\ ActiveTracksCounted'
    BY <1>3, <2>1, CountReset
  <2>3. QED BY <1>1, <2>2 DEF CountInv, TracksInv
<1>4. QED BY <1>2, <1>3 DEF TrackDone

\* A song that is begun again by a call or at the end of a seek.
LEMMA CountAnew ==
    ASSUME CountInv, ResetTracks(song, clock.perTick), song' = song, loaded' => loaded,
           at' # "idle" => at # "idle" \/ loaded
    PROVE  CountInv'
<1>1. song \in Songs \cup {<<>>}
  BY DEF CountInv, TracksInv
<1>2. /\ on' \in [1..Tracks' -> BOOLEAN]
      /\ saved' = [t \in 1..Tracks' |-> saved'[t]]
      /\ \A t \in 1..Tracks' : Remembers(saved'[t])
      /\ ActiveTracksCounted'
  BY <1>1, CountReset
<1>3. QED BY <1>2 DEF CountInv, TracksInv

\* Every step keeps the count.
LEMMA CountStep == CountInv /\ [Next]_vars => CountInv'
<1> SUFFICES ASSUME CountInv, [Next]_vars PROVE CountInv'
  OBVIOUS
<1>0. saved = [t \in 1..Tracks |-> saved[t]] /\ \A t \in 1..Tracks : Remembers(saved[t])
  BY DEF CountInv, TracksInv
<1>1. ASSUME NEW t \in 1..Tracks, PlayEvent(t) \/ SkipEvent(t) PROVE CountInv'
  <2>1. UNCHANGED <<song, on, saved, activeTracks, loaded, at>>
    BY <1>1 DEF PlayEvent, SkipEvent, Pass, flags, run
  <2>2. QED BY <1>0, <2>1, CountKept
<1>2. CASE ServiceDone
  <2>1. UNCHANGED <<song, on, saved, activeTracks, loaded>> /\ at = "service" /\ at' = "idle"
    BY <1>2 DEF ServiceDone, flags, tracks
  <2>2. QED BY <1>0, <2>1, CountKept
<1>3. CASE SeekDone
  <2>1. UNCHANGED <<song, loaded>> /\ at = "seek"
    BY <1>3 DEF SeekDone
  <2>2. CASE ResetTracks(song, clock.perTick)
    BY <2>1, <2>2, CountAnew
  <2>3. CASE UNCHANGED tracks
    BY <1>0, <2>1, <2>3, CountKept DEF tracks
  <2>4. QED BY <1>3, <2>2, <2>3 DEF SeekDone
<1>4. CASE SeekTest
  <2>1. UNCHANGED <<song, on, saved, activeTracks, loaded>> /\ at = "seek"
    BY <1>4 DEF SeekTest, tracks
  <2>2. QED BY <1>0, <2>1, CountKept
<1>5. CASE Tick
  <2>1. UNCHANGED <<song, on, saved, activeTracks, loaded>> /\ loaded
    BY <1>5 DEF Tick, tracks, flags
  <2>2. QED BY <1>0, <2>1, CountKept
<1>6. ASSUME NEW s \in Songs, NEW flag \in BOOLEAN, PlaySong(s, flag) PROVE CountInv'
  <2>1. song' = s /\ ResetTracks(s, 1)
    BY <1>6 DEF PlaySong
  <2>2. QED BY <2>1, CountReset DEF CountInv, TracksInv
<1>7. CASE StopSong
  <2>1. UNCHANGED song /\ ~loaded' /\ ResetTracks(song, clock.perTick) /\ at' = "idle"
    BY <1>7 DEF StopSong, run
  <2>2. QED BY <2>1, CountAnew
<1>8. CASE PauseSong \/ ContinueSong \/ \E flag \in BOOLEAN : SetLoopFlag(flag)
  <2>1. UNCHANGED <<song, on, saved, activeTracks, loaded, at>>
    BY <1>8 DEF PauseSong, ContinueSong, SetLoopFlag, tracks, run
  <2>2. QED BY <1>0, <2>1, CountKept
<1>9. ASSUME NEW k, SetContext(k) PROVE CountInv'
  <2>1. UNCHANGED <<song, on, saved, activeTracks, loaded, at>>
    BY <1>9 DEF SetContext, flags, run
  <2>2. QED BY <1>0, <2>1, CountKept
<1>10. ASSUME NEW g, SetSong(g) PROVE CountInv'
  <2>1. UNCHANGED <<song, loaded>> /\ loaded
    BY <1>10 DEF SetSong
  <2>2. CASE ResetTracks(song, clock.perTick)
    BY <2>1, <2>2, CountAnew
  <2>3. CASE UNCHANGED tracks
    BY <1>0, <2>1, <2>3, CountKept DEF tracks
  <2>4. QED BY <1>10, <2>2, <2>3 DEF SetSong
<1>11. CASE UNCHANGED vars
  BY <1>11, <1>0, CountKept DEF vars, flags, tracks, run
<1>12. ASSUME TrackStep PROVE CountInv'
  BY <1>12, <1>1, <1>2, <1>3, <1>4, CountEnd, CountStart, CountLoop, CountContext,
     CountTrackDone DEF TrackStep
<1>13. ASSUME Call PROVE CountInv'
  <2>1. ASSUME NEW g, SetSong(g) PROVE CountInv'
    BY <1>10, <2>1
  <2>2. QED
    BY <1>13, <1>6, <1>7, <1>8, <1>9, <2>1
       DEF Call, MIDI_SetSongTick, MIDI_SetSongTime, MIDI_SetSongPosition
<1>14. QED BY <1>5, <1>11, <1>12, <1>13 DEF Next

\* _MIDI_ActiveTracks counts the tracks that have not ended, for any songs, tracks and
\* loops, through restarts, contexts and seeks.
THEOREM TracksCounted == Spec => []ActiveTracksCounted
<1>1. CountInv => ActiveTracksCounted
  BY DEF CountInv
<1>2. QED BY <1>1, CountInit, CountStep, PTL DEF Spec

-----------------------------------------------------------------------------
(* When the events of a track are due.                                     *)

\* f[i] is the tick of event i, of the first n events.
IsDue(f, events, n) ==
    f = [j \in 0..n |-> IF j = 0 THEN 0 ELSE f[j - 1] + events[j].delta]

\* There are such ticks, for any number of events.
LEMMA DueExists ==
    ASSUME NEW events
    PROVE  \A n \in Nat : \E f : IsDue(f, events, n)
<1> DEFINE S == {n \in Nat : \E f : IsDue(f, events, n)}
<1>1. 0 \in S
  <2> DEFINE f == [j \in 0..0 |-> 0]
  <2>1. f = [j \in 0..0 |-> IF j = 0 THEN 0 ELSE f[j - 1] + events[j].delta]
    OBVIOUS
  <2>2. QED BY <2>1 DEF IsDue
<1>2. ASSUME NEW n \in Nat, n \in S PROVE n + 1 \in S
  <2>1. PICK f : IsDue(f, events, n)
    BY <1>2
  <2> DEFINE g == [j \in 0..(n + 1) |->
                       IF j = n + 1 THEN f[n] + events[n + 1].delta ELSE f[j]]
  <2>2. ASSUME NEW j \in 0..n
        PROVE  f[j] = IF j = 0 THEN 0 ELSE f[j - 1] + events[j].delta
    BY <2>1 DEF IsDue
  <2>3. ASSUME NEW j \in 0..(n + 1)
        PROVE  g[j] = IF j = 0 THEN 0 ELSE g[j - 1] + events[j].delta
    <3>1. CASE j = n + 1
      <4>1. j - 1 = n /\ n \in 0..(n + 1) /\ n # n + 1 /\ j # 0
        BY <3>1
      <4>2. g[j] = f[n] + events[n + 1].delta /\ g[n] = f[n]
        BY <3>1, <4>1
      <4>3. QED BY <3>1, <4>1, <4>2
    <3>2. CASE j = 0
      <4>1. 0 \in 0..n /\ 0 # n + 1 /\ g[0] = f[0]
        OBVIOUS
      <4>2. QED BY <2>2, <3>2, <4>1
    <3>3. CASE j # 0 /\ j # n + 1
      <4>1. j \in 0..n /\ j - 1 \in 0..n /\ j - 1 # n + 1
        BY <3>3
      <4>2. g[j] = f[j] /\ g[j - 1] = f[j - 1]
        BY <3>3, <4>1
      <4>3. QED BY <2>2, <3>3, <4>1, <4>2
    <3>4. QED BY <3>1, <3>2, <3>3
  <2>4. IsDue(g, events, n + 1)
    <3>1. g = [j \in 0..(n + 1) |-> g[j]]
      OBVIOUS
    <3> HIDE DEF g
    <3>2. g = [j \in 0..(n + 1) |-> IF j = 0 THEN 0 ELSE g[j - 1] + events[j].delta]
      BY <2>3, <3>1
    <3>3. QED BY <3>2 DEF IsDue
  <2>5. QED BY <2>4
<1>3. \A n \in Nat : n \in S
  <2> HIDE DEF S
  <2>1. QED BY <1>1, <1>2, AllNumbers
<1>4. QED BY <1>3

\* An event is due its delta after the one before it.
LEMMA DueNext ==
    ASSUME NEW events, Len(events) \in Nat
    PROVE  /\ DueAt(events, 0) = 0
           /\ \A i \in 1..Len(events) :
                 DueAt(events, i) = DueAt(events, i - 1) + events[i].delta
<1> DEFINE f == CHOOSE g : IsDue(g, events, Len(events))
<1>1. IsDue(f, events, Len(events))
  BY DueExists
<1>2. \A i : DueAt(events, i) = f[i]
  BY DEF DueAt, IsDue
<1> HIDE DEF f
<1>3. f[0] = 0
  BY <1>1 DEF IsDue
<1>4. \A i \in 1..Len(events) : f[i] = f[i - 1] + events[i].delta
  <2>1. \A i \in 1..Len(events) : i \in 0..Len(events) /\ i # 0
    OBVIOUS
  <2>2. QED BY <1>1, <2>1 DEF IsDue
<1>5. QED BY <1>2, <1>3, <1>4

\* What the proofs need of a track: it has an end, which is its last event.
IsTrack(events) ==
    /\ Len(events) \in Nat \ {0}
    /\ \A i \in 1..Len(events) : events[i].delta \in Nat
    /\ \A i \in 1..Len(events) : events[i].kind = "eot" <=> i = Len(events)

\* Events are due at ticks, ...
LEMMA DueNat ==
    ASSUME NEW events, IsTrack(events)
    PROVE  \A i \in 0..Len(events) : DueAt(events, i) \in Nat
<1> DEFINE n == Len(events)
           S == {i \in Nat : i \in 0..n => DueAt(events, i) \in Nat}
<1>0. n \in Nat /\ \A i \in 1..n : events[i].delta \in Nat
  BY DEF IsTrack
<1>1. 0 \in S
  BY <1>0, DueNext
<1>2. ASSUME NEW i \in Nat, i \in S PROVE i + 1 \in S
  <2>1. CASE i + 1 \in 0..n
    <3>1. i \in 0..n /\ i + 1 \in 1..n /\ (i + 1) - 1 = i
      BY <2>1
    <3>2. DueAt(events, i + 1) = DueAt(events, i) + events[i + 1].delta
      BY <1>0, <3>1, DueNext
    <3>3. DueAt(events, i) \in Nat /\ events[i + 1].delta \in Nat
      BY <1>0, <1>2, <3>1
    <3> HIDE DEF n
    <3>4. QED BY <3>2, <3>3
  <2>2. CASE i + 1 \notin 0..n
    BY <2>2
  <2>3. QED BY <2>1, <2>2
<1>3. \A i \in Nat : i \in S
  <2> HIDE DEF S
  <2>1. QED BY <1>1, <1>2, AllNumbers
<1>4. QED BY <1>0, <1>3

\* ... one not before the other.
LEMMA DueGrows ==
    ASSUME NEW events, IsTrack(events), NEW i \in 0..Len(events), NEW j \in i..Len(events)
    PROVE  DueAt(events, i) <= DueAt(events, j)
<1> DEFINE n == Len(events)
           S == {k \in Nat : k \in i..n => DueAt(events, i) <= DueAt(events, k)}
<1>0. /\ n \in Nat /\ \A k \in 1..n : events[k].delta \in Nat
      /\ \A k \in 0..n : DueAt(events, k) \in Nat
  BY DueNat DEF IsTrack
<1> HIDE DEF n
<1>00. i \in 0..n /\ j \in i..n
  BY DEF n
<1>1. 0 \in S
  <2>1. 0 \in i..n => i = 0
    BY <1>00
  <2>2. QED BY <1>0, <1>00, <2>1
<1>2. ASSUME NEW k \in Nat, k \in S PROVE k + 1 \in S
  <2>1. CASE k + 1 \in (i + 1)..n
    <3>1. k \in i..n /\ k + 1 \in 1..n /\ (k + 1) - 1 = k /\ k \in 0..n
      BY <1>0, <1>00, <2>1
    <3>2. DueAt(events, k + 1) = DueAt(events, k) + events[k + 1].delta
      BY <1>0, <3>1, DueNext DEF n
    <3>3. DueAt(events, i) <= DueAt(events, k)
      BY <1>2, <3>1
    <3>4. DueAt(events, i) \in Nat /\ DueAt(events, k) \in Nat /\ events[k + 1].delta \in Nat
      BY <1>0, <1>00, <3>1
    <3>5. QED BY <3>2, <3>3, <3>4
  <2>2. CASE k + 1 = i
    BY <1>0, <1>00, <2>2
  <2>3. CASE k + 1 \notin i..n
    BY <2>3
  <2>4. QED BY <1>00, <2>1, <2>2, <2>3
<1>3. \A k \in Nat : k \in S
  <2> HIDE DEF S
  <2>1. QED BY <1>1, <1>2, AllNumbers
<1>4. QED BY <1>0, <1>00, <1>3

-----------------------------------------------------------------------------
(* The events of a tick, and the clock.                                    *)

\* g[j] is the clock after the first j events, of n.
IsPassed(g, c, events, m, n) ==
    g = [j \in 0..n |->
            IF j = 0 THEN c
            ELSE IF DueAt(events, j) = m THEN Timed(g[j - 1], events[j])
            ELSE g[j - 1]]

\* There are such clocks, up to any event.
LEMMA PassedExists ==
    ASSUME NEW c, NEW events, NEW m
    PROVE  \A n \in Nat : \E g : IsPassed(g, c, events, m, n)
<1> DEFINE Next1(x, j) == IF DueAt(events, j) = m THEN Timed(x, events[j]) ELSE x
           Is(g, n) == g = [j \in 0..n |-> IF j = 0 THEN c ELSE Next1(g[j - 1], j)]
           S == {n \in Nat : \E g : Is(g, n)}
<1> HIDE DEF Next1
<1>1. 0 \in S
  <2> DEFINE g == [j \in 0..0 |-> c]
  <2>1. g = [j \in 0..0 |-> IF j = 0 THEN c ELSE Next1(g[j - 1], j)]
    OBVIOUS
  <2>2. QED BY <2>1
<1>2. ASSUME NEW n \in Nat, n \in S PROVE n + 1 \in S
  <2>1. PICK f : Is(f, n)
    BY <1>2
  <2> DEFINE g == [j \in 0..(n + 1) |-> IF j = n + 1 THEN Next1(f[n], n + 1) ELSE f[j]]
  <2>2. ASSUME NEW j \in 0..n
        PROVE  f[j] = IF j = 0 THEN c ELSE Next1(f[j - 1], j)
    BY <2>1
  <2>3. ASSUME NEW j \in 0..(n + 1)
        PROVE  g[j] = IF j = 0 THEN c ELSE Next1(g[j - 1], j)
    <3>1. CASE j = n + 1
      <4>1. j - 1 = n /\ n \in 0..(n + 1) /\ n # n + 1 /\ j # 0
        BY <3>1
      <4>2. g[j] = Next1(f[n], n + 1) /\ g[n] = f[n]
        BY <3>1, <4>1
      <4>3. QED BY <3>1, <4>1, <4>2
    <3>2. CASE j = 0
      <4>1. 0 \in 0..n /\ 0 # n + 1 /\ g[0] = f[0]
        OBVIOUS
      <4>2. QED BY <2>2, <3>2, <4>1
    <3>3. CASE j # 0 /\ j # n + 1
      <4>1. j \in 0..n /\ j - 1 \in 0..n /\ j - 1 # n + 1
        BY <3>3
      <4>2. g[j] = f[j] /\ g[j - 1] = f[j - 1]
        BY <3>3, <4>1
      <4>3. QED BY <2>2, <3>3, <4>1, <4>2
    <3>4. QED BY <3>1, <3>2, <3>3
  <2>4. Is(g, n + 1)
    <3>1. g = [j \in 0..(n + 1) |-> g[j]]
      OBVIOUS
    <3> HIDE DEF g
    <3>2. QED BY <2>3, <3>1
  <2> HIDE DEF g, Is
  <2>5. \E h : Is(h, n + 1)
    BY <2>4
  <2>6. QED BY <2>5
<1>3. \A n \in Nat : n \in S
  <2> HIDE DEF S
  <2>1. QED BY <1>1, <1>2, AllNumbers
<1>4. \A n \in Nat : \E g : Is(g, n)
  BY <1>3
<1>5. QED BY <1>4 DEF Next1, IsPassed

\* The events of a track pass one after the other.
LEMMA PassedNext ==
    ASSUME NEW c, NEW events, Len(events) \in Nat, NEW m
    PROVE  /\ EventsPassed(c, events, m, 0) = c
           /\ \A i \in 1..Len(events) :
                 EventsPassed(c, events, m, i) =
                     IF DueAt(events, i) = m
                     THEN Timed(EventsPassed(c, events, m, i - 1), events[i])
                     ELSE EventsPassed(c, events, m, i - 1)
<1> DEFINE f == CHOOSE g : IsPassed(g, c, events, m, Len(events))
<1>1. IsPassed(f, c, events, m, Len(events))
  <2>1. \E g : IsPassed(g, c, events, m, Len(events))
    BY PassedExists
  <2>2. QED BY <2>1
<1>2. \A i : EventsPassed(c, events, m, i) = f[i]
  BY DEF EventsPassed, IsPassed
<1> HIDE DEF f
<1>3. f[0] = c
  BY <1>1 DEF IsPassed
<1>4. \A i \in 1..Len(events) :
         f[i] = IF DueAt(events, i) = m THEN Timed(f[i - 1], events[i]) ELSE f[i - 1]
  <2>1. \A i \in 1..Len(events) : i \in 0..Len(events) /\ i # 0
    OBVIOUS
  <2>2. QED BY <1>1, <2>1 DEF IsPassed
<1>5. QED BY <1>2, <1>3, <1>4

\* An event that is not due, or is none of the clock's, leaves the clock alone.
LEMMA PassedSame ==
    ASSUME NEW c, NEW events, NEW m, Len(events) \in Nat,
           NEW a \in 0..Len(events), NEW b \in a..Len(events),
           \A i \in (a + 1)..b :
               DueAt(events, i) # m \/ events[i].kind \notin {"tempo", "meter"}
    PROVE  EventsPassed(c, events, m, b) = EventsPassed(c, events, m, a)
<1> DEFINE P(i) == EventsPassed(c, events, m, i)
           S == {k \in Nat : k \in a..b => P(k) = P(a)}
<1>0. Len(events) \in Nat /\ a \in Nat /\ b \in Nat
  OBVIOUS
<1>00. ASSUME NEW i \in (a + 1)..b PROVE P(i) = P(i - 1)
  <2>1. i \in 1..Len(events)
    BY <1>0
  <2>2. P(i) = IF DueAt(events, i) = m THEN Timed(P(i - 1), events[i]) ELSE P(i - 1)
    BY <1>0, <2>1, PassedNext
  <2>3. DueAt(events, i) # m \/ events[i].kind \notin {"tempo", "meter"}
    OBVIOUS
  <2> HIDE DEF P
  <2>4. events[i].kind \notin {"tempo", "meter"} => Timed(P(i - 1), events[i]) = P(i - 1)
    BY DEF Timed
  <2>5. QED BY <2>2, <2>3, <2>4
<1> HIDE DEF P
<1>1. 0 \in S
  <2>1. 0 \in a..b => a = 0
    BY <1>0
  <2>2. QED BY <2>1
<1>2. ASSUME NEW k \in Nat, k \in S PROVE k + 1 \in S
  <2>1. CASE k + 1 \in (a + 1)..b
    <3>1. k \in a..b /\ (k + 1) - 1 = k
      BY <1>0, <2>1
    <3>2. QED BY <1>00, <1>2, <2>1, <3>1
  <2>2. CASE k + 1 = a
    BY <2>2
  <2>3. CASE k + 1 \notin a..b
    BY <2>3
  <2>4. QED BY <1>0, <2>1, <2>2, <2>3
<1>3. \A k \in Nat : k \in S
  <2> HIDE DEF S
  <2>1. QED BY <1>1, <1>2, AllNumbers
<1>4. QED BY <1>0, <1>3 DEF P

\* g[u] is the clock after the events of tick m of the first u tracks, of n.
IsTracksPassed(g, s, c, m, n) ==
    g = [u \in 0..n |->
            IF u = 0 THEN c
            ELSE IF Included(s[u])
            THEN EventsPassed(g[u - 1], s[u], m, Len(s[u]))
            ELSE g[u - 1]]

\* What the tracks of a song make of the clock, up to any track.
LEMMA TracksPassedExists ==
    ASSUME NEW s, NEW c, NEW m
    PROVE  \A n \in Nat : \E g : IsTracksPassed(g, s, c, m, n)
<1> DEFINE Next1(x, u) == IF Included(s[u])
                          THEN EventsPassed(x, s[u], m, Len(s[u])) ELSE x
           Is(g, n) == g = [u \in 0..n |-> IF u = 0 THEN c ELSE Next1(g[u - 1], u)]
           S == {n \in Nat : \E g : Is(g, n)}
<1> HIDE DEF Next1
<1>1. 0 \in S
  <2> DEFINE g == [u \in 0..0 |-> c]
  <2>1. g = [u \in 0..0 |-> IF u = 0 THEN c ELSE Next1(g[u - 1], u)]
    OBVIOUS
  <2>2. QED BY <2>1
<1>2. ASSUME NEW n \in Nat, n \in S PROVE n + 1 \in S
  <2>1. PICK f : Is(f, n)
    BY <1>2
  <2> DEFINE g == [u \in 0..(n + 1) |-> IF u = n + 1 THEN Next1(f[n], n + 1) ELSE f[u]]
  <2>2. ASSUME NEW u \in 0..n
        PROVE  f[u] = IF u = 0 THEN c ELSE Next1(f[u - 1], u)
    BY <2>1
  <2>3. ASSUME NEW u \in 0..(n + 1)
        PROVE  g[u] = IF u = 0 THEN c ELSE Next1(g[u - 1], u)
    <3>1. CASE u = n + 1
      <4>1. u - 1 = n /\ n \in 0..(n + 1) /\ n # n + 1 /\ u # 0
        BY <3>1
      <4>2. g[u] = Next1(f[n], n + 1) /\ g[n] = f[n]
        BY <3>1, <4>1
      <4>3. QED BY <3>1, <4>1, <4>2
    <3>2. CASE u = 0
      <4>1. 0 \in 0..n /\ 0 # n + 1 /\ g[0] = f[0]
        OBVIOUS
      <4>2. QED BY <2>2, <3>2, <4>1
    <3>3. CASE u # 0 /\ u # n + 1
      <4>1. u \in 0..n /\ u - 1 \in 0..n /\ u - 1 # n + 1
        BY <3>3
      <4>2. g[u] = f[u] /\ g[u - 1] = f[u - 1]
        BY <3>3, <4>1
      <4>3. QED BY <2>2, <3>3, <4>1, <4>2
    <3>4. QED BY <3>1, <3>2, <3>3
  <2>4. Is(g, n + 1)
    <3>1. g = [u \in 0..(n + 1) |-> g[u]]
      OBVIOUS
    <3> HIDE DEF g
    <3>2. QED BY <2>3, <3>1
  <2> HIDE DEF g, Is
  <2>5. \E h : Is(h, n + 1)
    BY <2>4
  <2>6. QED BY <2>5
<1>3. \A n \in Nat : n \in S
  <2> HIDE DEF S
  <2>1. QED BY <1>1, <1>2, AllNumbers
<1>4. \A n \in Nat : \E g : Is(g, n)
  BY <1>3
<1>5. QED BY <1>4 DEF Next1, IsTracksPassed

\* The tracks pass one after the other.
LEMMA TracksPassedNext ==
    ASSUME NEW s, NEW c, NEW m, Len(s) \in Nat
    PROVE  /\ TracksPassed(s, c, m, 0) = c
           /\ \A t \in 1..Len(s) :
                 TracksPassed(s, c, m, t) =
                     IF Included(s[t])
                     THEN EventsPassed(TracksPassed(s, c, m, t - 1), s[t], m, Len(s[t]))
                     ELSE TracksPassed(s, c, m, t - 1)
<1> DEFINE f == CHOOSE g : IsTracksPassed(g, s, c, m, Len(s))
<1>1. IsTracksPassed(f, s, c, m, Len(s))
  <2>1. \E g : IsTracksPassed(g, s, c, m, Len(s))
    BY TracksPassedExists
  <2>2. QED BY <2>1
<1>2. \A t : TracksPassed(s, c, m, t) = f[t]
  BY DEF TracksPassed, IsTracksPassed
<1> HIDE DEF f
<1>3. f[0] = c
  BY <1>1 DEF IsTracksPassed
<1>4. \A t \in 1..Len(s) :
         f[t] = IF Included(s[t])
                THEN EventsPassed(f[t - 1], s[t], m, Len(s[t])) ELSE f[t - 1]
  <2>1. \A t \in 1..Len(s) : t \in 0..Len(s) /\ t # 0
    OBVIOUS
  <2>2. QED BY <1>1, <2>1 DEF IsTracksPassed
<1>5. QED BY <1>2, <1>3, <1>4

\* So it is for any clock.
LEMMA EachTrack ==
    ASSUME NEW s, Len(s) \in Nat, NEW m
    PROVE  \A c : \A t \in 1..Len(s) :
               TracksPassed(s, c, m, t) =
                   IF Included(s[t])
                   THEN EventsPassed(TracksPassed(s, c, m, t - 1), s[t], m, Len(s[t]))
                   ELSE TracksPassed(s, c, m, t - 1)
<1> TAKE c
<1> TAKE t \in 1..Len(s)
<1>1. TracksPassed(s, c, m, 0) = c
  BY TracksPassedNext
<1>2. QED BY <1>1, TracksPassedNext

\* f[m] is the clock before tick m, of the first n ticks.
IsStraight(f, s, n, tempo) ==
    f = [m \in 0..n |-> IF m = 0 THEN Start(tempo)
                        ELSE AdvanceTick(TracksPassed(s, f[m - 1], m - 1, Len(s)))]

\* There is such a clock for any number of ticks, ...
LEMMA StraightExists ==
    ASSUME NEW s, NEW tempo
    PROVE  \A n \in Nat : \E f : IsStraight(f, s, n, tempo)
<1> DEFINE Next1(x, m) == AdvanceTick(TracksPassed(s, x, m - 1, Len(s)))
           Is(f, n) == f = [m \in 0..n |-> IF m = 0 THEN Start(tempo) ELSE Next1(f[m - 1], m)]
           S == {n \in Nat : \E f : Is(f, n)}
<1> HIDE DEF Next1
<1>1. 0 \in S
  <2> DEFINE g == [u \in 0..0 |-> Start(tempo)]
  <2>1. g = [u \in 0..0 |-> IF u = 0 THEN Start(tempo) ELSE Next1(g[u - 1], u)]
    OBVIOUS
  <2>2. QED BY <2>1
<1>2. ASSUME NEW n \in Nat, n \in S PROVE n + 1 \in S
  <2>1. PICK f : Is(f, n)
    BY <1>2
  <2> DEFINE g == [u \in 0..(n + 1) |-> IF u = n + 1 THEN Next1(f[n], n + 1) ELSE f[u]]
  <2>2. ASSUME NEW u \in 0..n
        PROVE  f[u] = IF u = 0 THEN Start(tempo) ELSE Next1(f[u - 1], u)
    BY <2>1
  <2>3. ASSUME NEW u \in 0..(n + 1)
        PROVE  g[u] = IF u = 0 THEN Start(tempo) ELSE Next1(g[u - 1], u)
    <3>1. CASE u = n + 1
      <4>1. u - 1 = n /\ n \in 0..(n + 1) /\ n # n + 1 /\ u # 0
        BY <3>1
      <4>2. g[u] = Next1(f[n], n + 1) /\ g[n] = f[n]
        BY <3>1, <4>1
      <4>3. QED BY <3>1, <4>1, <4>2
    <3>2. CASE u = 0
      <4>1. 0 \in 0..n /\ 0 # n + 1 /\ g[0] = f[0]
        OBVIOUS
      <4>2. QED BY <2>2, <3>2, <4>1
    <3>3. CASE u # 0 /\ u # n + 1
      <4>1. u \in 0..n /\ u - 1 \in 0..n /\ u - 1 # n + 1
        BY <3>3
      <4>2. g[u] = f[u] /\ g[u - 1] = f[u - 1]
        BY <3>3, <4>1
      <4>3. QED BY <2>2, <3>3, <4>1, <4>2
    <3>4. QED BY <3>1, <3>2, <3>3
  <2>4. Is(g, n + 1)
    <3>1. g = [u \in 0..(n + 1) |-> g[u]]
      OBVIOUS
    <3> HIDE DEF g
    <3>2. QED BY <2>3, <3>1
  <2> HIDE DEF g, Is
  <2>5. \E h : Is(h, n + 1)
    BY <2>4
  <2>6. QED BY <2>5
<1>3. \A n \in Nat : n \in S
  <2> HIDE DEF S
  <2>1. QED BY <1>1, <1>2, AllNumbers
<1>4. \A n \in Nat : \E f : Is(f, n)
  BY <1>3
<1>5. QED BY <1>4 DEF Next1, IsStraight

\* ... one only, ...
LEMMA StraightUnique ==
    ASSUME NEW s, NEW tempo, NEW n \in Nat, NEW f, IsStraight(f, s, n + 1, tempo),
           NEW g, IsStraight(g, s, n, tempo)
    PROVE  \A m \in 0..n : g[m] = f[m]
<1>1. ASSUME NEW m \in 0..n
      PROVE  /\ f[m] = IF m = 0 THEN Start(tempo)
                       ELSE AdvanceTick(TracksPassed(s, f[m - 1], m - 1, Len(s)))
             /\ g[m] = IF m = 0 THEN Start(tempo)
                       ELSE AdvanceTick(TracksPassed(s, g[m - 1], m - 1, Len(s)))
  <2>1. m \in 0..(n + 1)
    OBVIOUS
  <2>2. QED BY <2>1 DEF IsStraight
<1> DEFINE S == {m \in Nat : m \in 0..n => g[m] = f[m]}
<1>2. 0 \in S
  <2>1. 0 \in 0..n
    OBVIOUS
  <2>2. f[0] = Start(tempo) /\ g[0] = Start(tempo)
    BY <1>1, <2>1
  <2>3. QED BY <2>2
<1>3. ASSUME NEW m \in Nat, m \in S PROVE m + 1 \in S
  <2>1. CASE m + 1 \in 0..n
    <3>1. m \in 0..n /\ (m + 1) - 1 = m /\ m + 1 # 0
      BY <2>1
    <3>2. g[m] = f[m]
      BY <1>3, <3>1
    <3>3. /\ f[m + 1] = AdvanceTick(TracksPassed(s, f[m], m, Len(s)))
          /\ g[m + 1] = AdvanceTick(TracksPassed(s, g[m], m, Len(s)))
      BY <1>1, <2>1, <3>1
    <3>4. QED BY <3>2, <3>3
  <2>2. CASE m + 1 \notin 0..n
    BY <2>2
  <2>3. QED BY <2>1, <2>2
<1>4. \A m \in Nat : m \in S
  <2> HIDE DEF S
  <2>1. QED BY <1>2, <1>3, AllNumbers
<1>5. QED BY <1>4

\* ... so that it goes on tick by tick.
LEMMA StraightNext ==
    ASSUME NEW s, NEW tempo, NEW n \in Nat
    PROVE  /\ Straight(s, 0, tempo) = Start(tempo)
           /\ Straight(s, n + 1, tempo) =
                  AdvanceTick(TracksPassed(s, Straight(s, n, tempo), n, Len(s)))
<1> DEFINE f(m) == CHOOSE g : IsStraight(g, s, m, tempo)
<1>1. \A m \in Nat : IsStraight(f(m), s, m, tempo)
  <2>1. \A m \in Nat : \E g : IsStraight(g, s, m, tempo)
    BY StraightExists
  <2>2. QED BY <2>1
<1>2. \A m : Straight(s, m, tempo) = f(m)[m]
  BY DEF Straight, IsStraight
<1> HIDE DEF f
<1>3. f(0)[0] = Start(tempo)
  <2>1. IsStraight(f(0), s, 0, tempo) /\ 0 \in 0..0
    BY <1>1
  <2>2. QED BY <2>1 DEF IsStraight
<1>4. f(n)[n] = f(n + 1)[n]
  <2>1. IsStraight(f(n + 1), s, n + 1, tempo) /\ IsStraight(f(n), s, n, tempo) /\ n \in 0..n
    BY <1>1
  <2>2. QED BY <2>1, StraightUnique
<1>5. f(n + 1)[n + 1] = AdvanceTick(TracksPassed(s, f(n + 1)[n], n, Len(s)))
  <2>1. IsStraight(f(n + 1), s, n + 1, tempo)
    BY <1>1
  <2>2. n + 1 \in 0..(n + 1) /\ n + 1 # 0 /\ (n + 1) - 1 = n
    OBVIOUS
  <2>3. QED BY <2>1, <2>2 DEF IsStraight
<1>6. QED BY <1>2, <1>3, <1>4, <1>5

-----------------------------------------------------------------------------
(* Where the tracks of a song stand.                                       *)

\* Track u may stand before event p, with d ticks to wait, in tick n of the song when it is
\* the turn of track k: tracks in front of k have been through the tick.  A track that has
\* ended stays at its last event.
Stands(events, u, p, d, o, n, k) ==
    /\ p \in 1..Len(events)
    /\ o => /\ Included(events) /\ d \in Nat
            /\ DueAt(events, p) - d = IF u < k THEN n + 1 ELSE n
            /\ p = 1 \/ DueAt(events, p - 1) < IF u <= k THEN n + 1 ELSE n
    /\ (~o /\ Included(events)) => /\ p = Len(events)
                                   /\ DueAt(events, p) < IF u <= k THEN n + 1 ELSE n

\* What an event that is not the last one leads to, ...
LEMMA StandsGoes ==
    ASSUME NEW events, IsTrack(events), NEW u \in Int, NEW p, NEW n \in Int,
           Stands(events, u, p, 0, TRUE, n, u), events[p].kind # "eot"
    PROVE  /\ p + 1 \in 1..Len(events)
           /\ Stands(events, u, p + 1, events[p + 1].delta, TRUE, n, u)
           /\ DueAt(events, p) = n
<1>1. /\ Len(events) \in Nat /\ p \in 1..Len(events)
      /\ \A i \in 0..Len(events) : DueAt(events, i) \in Nat
  BY DueNat DEF Stands, IsTrack
<1>2. p + 1 \in 1..Len(events)
  BY <1>1 DEF IsTrack
<1>3. /\ DueAt(events, p + 1) = DueAt(events, p) + events[p + 1].delta
      /\ events[p + 1].delta \in Nat
  <2>1. (p + 1) - 1 = p
    BY <1>1
  <2>2. QED BY <1>1, <1>2, <2>1, DueNext DEF IsTrack
<1>4. DueAt(events, p) \in Nat /\ DueAt(events, p) = n
  BY <1>1 DEF Stands
<1>5. (p + 1) - 1 = p
  BY <1>1
<1>6. Included(events)
  BY DEF Stands
<1>7. QED BY <1>2, <1>3, <1>4, <1>5, <1>6 DEF Stands

\* ... what the last one does, ...
LEMMA StandsEnds ==
    ASSUME NEW events, IsTrack(events), NEW u \in Int, NEW p, NEW n \in Int,
           Stands(events, u, p, 0, TRUE, n, u), events[p].kind = "eot"
    PROVE  Stands(events, u, p, 0, FALSE, n, u)
<1>1. p \in 1..Len(events) /\ p = Len(events)
  BY DEF Stands, IsTrack
<1>2. DueAt(events, p) \in Nat
  BY <1>1, DueNat DEF IsTrack
<1>3. QED BY <1>1, <1>2 DEF Stands

\* ... and the end of a track's turn.
LEMMA StandsDone ==
    ASSUME NEW events, IsTrack(events), NEW u \in Int, NEW p, NEW d, NEW o \in BOOLEAN,
           NEW n \in Int, Stands(events, u, p, d, o, n, u), ~(o /\ d = 0)
    PROVE  Stands(events, u, p, IF o THEN d - 1 ELSE d, o, n, u + 1)
<1>1. /\ Len(events) \in Nat /\ p \in 1..Len(events)
      /\ \A i \in 0..Len(events) : DueAt(events, i) \in Nat
  BY DueNat DEF Stands, IsTrack
<1>2. DueAt(events, p) \in Nat /\ DueAt(events, p - 1) \in Nat
  BY <1>1
<1>3. CASE o
  <2>1. d \in Nat \ {0} /\ Included(events) /\ DueAt(events, p) - d = n
        /\ (p = 1 \/ DueAt(events, p - 1) < n + 1)
    BY <1>3 DEF Stands
  <2>2. d - 1 \in Nat /\ DueAt(events, p) - (d - 1) = n + 1 /\ u < u + 1 /\ u <= u + 1
    BY <1>2, <2>1
  <2>3. QED BY <1>1, <1>3, <2>1, <2>2 DEF Stands
<1>4. CASE ~o
  BY <1>1, <1>4 DEF Stands
<1>5. QED BY <1>3, <1>4

\* The others are not concerned.
LEMMA StandsBy ==
    ASSUME NEW events, IsTrack(events), NEW u \in Int, NEW p, NEW d, NEW o \in BOOLEAN,
           NEW n \in Int, NEW k \in Int, u # k, Stands(events, u, p, d, o, n, k)
    PROVE  Stands(events, u, p, d, o, n, k + 1)
<1>1. /\ Len(events) \in Nat /\ p \in 1..Len(events)
      /\ \A i \in 0..Len(events) : DueAt(events, i) \in Nat
  BY DueNat DEF Stands, IsTrack
<1>2. DueAt(events, p) \in Nat /\ DueAt(events, p - 1) \in Nat
  BY <1>1
<1>3. (u < k + 1 <=> u < k) /\ (u <= k => u <= k + 1)
  OBVIOUS
<1>4. CASE o
  BY <1>1, <1>2, <1>3, <1>4 DEF Stands
<1>5. CASE ~o
  BY <1>1, <1>2, <1>3, <1>5 DEF Stands
<1>6. QED BY <1>4, <1>5

\* When all have had their turn the tick is over.
LEMMA StandsNext ==
    ASSUME NEW events, NEW u \in Int, NEW p, NEW d, NEW o \in BOOLEAN,
           NEW n \in Int, NEW k \in Int, 0 < u, u < k, Stands(events, u, p, d, o, n, k)
    PROVE  Stands(events, u, p, d, o, n + 1, 0)
<1>1. u <= k /\ ~(u < 0) /\ ~(u <= 0)
  OBVIOUS
<1>2. QED BY <1>1 DEF Stands

\* A song begins in tick 0.
LEMMA StandsFirst ==
    ASSUME NEW events, IsTrack(events), NEW u \in Int, 0 < u, NEW n \in Int, NEW k \in Int,
           \/ n = 0 /\ k <= 1
           \/ n = -1 /\ u < k
    PROVE  Stands(events, u, 1, events[1].delta, Included(events), n, k)
<1>1. 1 \in 1..Len(events) /\ Len(events) \in Nat /\ events[1].delta \in Nat
  BY DEF IsTrack
<1>2. DueAt(events, 1) = events[1].delta
  BY <1>1, DueNext
<1>3. (IF u < k THEN n + 1 ELSE n) = 0
  OBVIOUS
<1>4. QED BY <1>1, <1>2, <1>3 DEF Stands

-----------------------------------------------------------------------------
(* The clock in the midst of a tick.                                       *)

\* The clock of s in tick n when it is the turn of track k, which stands before event i, if
\* the song was begun with this tempo.
Mid(s, tempo, n, k, i) ==
    LET before == Straight(s, n, tempo)
    IN IF k = 0 THEN before
       ELSE IF k = Len(s) + 1 THEN TracksPassed(s, before, n, Len(s))
       ELSE IF Included(s[k])
       THEN EventsPassed(TracksPassed(s, before, n, k - 1), s[k], n, i - 1)
       ELSE TracksPassed(s, before, n, k - 1)

\* What the proofs need of a song.
IsSong(s) == Len(s) \in Nat /\ \A t \in 1..Len(s) : IsTrack(s[t])

\* The song has a clock after the tracks up to k.
Upto(s, tempo, n, k) == TracksPassed(s, Straight(s, n, tempo), n, k)

\* When the turn of a track comes, nothing of it has passed in this tick.
LEMMA MidEnters ==
    ASSUME NEW s, IsSong(s), NEW tempo, NEW n \in Int, NEW k \in 0..(Len(s) - 1),
           NEW p, NEW d, NEW o \in BOOLEAN, Stands(s[k + 1], k + 1, p, d, o, n, k)
    PROVE  Mid(s, tempo, n, k + 1, p) = Upto(s, tempo, n, k)
<1> DEFINE e == s[k + 1]
           c == Upto(s, tempo, n, k)
<1>1. /\ Len(s) \in Nat /\ k + 1 \in 1..Len(s) /\ k + 1 # 0 /\ k + 1 # Len(s) + 1
      /\ (k + 1) - 1 = k /\ IsTrack(e)
  BY DEF IsSong
<1>2. Mid(s, tempo, n, k + 1, p) = IF Included(e) THEN EventsPassed(c, e, n, p - 1) ELSE c
  BY <1>1 DEF Mid, Upto
<1>3. CASE Included(e)
  <2>1. Len(e) \in Nat /\ p \in 1..Len(e) /\ \A i \in 0..Len(e) : DueAt(e, i) \in Nat
    BY <1>1, DueNat DEF Stands, IsTrack
  <2>2. ASSUME NEW i \in 1..(p - 1) PROVE DueAt(e, i) # n
    <3>1. i \in 0..Len(e) /\ p - 1 \in i..Len(e) /\ p \in i..Len(e) /\ p # 1
      BY <2>1
    <3>2. DueAt(e, i) <= DueAt(e, p - 1) /\ DueAt(e, i) <= DueAt(e, p)
      BY <1>1, <3>1, DueGrows
    <3>3. DueAt(e, p - 1) < n \/ DueAt(e, p) < n
      <4>1. ~(k + 1 <= k)
        OBVIOUS
      <4>2. QED BY <1>3, <3>1, <4>1 DEF Stands
    <3>4. DueAt(e, i) \in Nat /\ DueAt(e, p - 1) \in Nat /\ DueAt(e, p) \in Nat
      BY <2>1, <3>1
    <3> HIDE DEF e
    <3>5. QED BY <3>2, <3>3, <3>4
  <2>3. EventsPassed(c, e, n, p - 1) = EventsPassed(c, e, n, 0)
    <3>1. 0 \in 0..Len(e) /\ p - 1 \in 0..Len(e)
      BY <2>1
    <3> HIDE DEF c, e
    <3>2. \A i \in (0 + 1)..(p - 1) :
             DueAt(e, i) # n \/ e[i].kind \notin {"tempo", "meter"}
      BY <2>2
    <3>3. QED BY <2>1, <3>1, <3>2, PassedSame
  <2>4. EventsPassed(c, e, n, 0) = c
    BY <2>1, PassedNext
  <2>5. QED BY <1>2, <1>3, <2>3, <2>4
<1>4. CASE ~Included(e)
  BY <1>2, <1>4
<1>5. QED BY <1>3, <1>4

\* When it is over, everything has.
LEMMA MidLeaves ==
    ASSUME NEW s, IsSong(s), NEW tempo, NEW n \in Int, NEW k \in 1..Len(s),
           NEW p, NEW d, NEW o \in BOOLEAN, Stands(s[k], k, p, d, o, n, k), ~(o /\ d = 0)
    PROVE  Mid(s, tempo, n, k, p) = Upto(s, tempo, n, k)
<1> DEFINE e == s[k]
           c == Upto(s, tempo, n, k - 1)
<1>1. Len(s) \in Nat /\ k # 0 /\ k # Len(s) + 1 /\ IsTrack(e)
  BY DEF IsSong
<1>2. /\ Mid(s, tempo, n, k, p) = IF Included(e) THEN EventsPassed(c, e, n, p - 1) ELSE c
      /\ Upto(s, tempo, n, k) = IF Included(e) THEN EventsPassed(c, e, n, Len(e)) ELSE c
  <2>1. \A x : TracksPassed(s, x, n, k) =
                   IF Included(s[k])
                   THEN EventsPassed(TracksPassed(s, x, n, k - 1), s[k], n, Len(s[k]))
                   ELSE TracksPassed(s, x, n, k - 1)
    BY <1>1, EachTrack
  <2>2. QED BY <1>1, <2>1 DEF Mid, Upto
<1>3. CASE Included(e)
  <2>1. Len(e) \in Nat /\ p \in 1..Len(e) /\ \A i \in 0..Len(e) : DueAt(e, i) \in Nat
    BY <1>1, DueNat DEF Stands, IsTrack
  <2>2. ASSUME NEW i \in p..Len(e)
        PROVE  DueAt(e, i) # n \/ e[i].kind \notin {"tempo", "meter"}
    <3>1. CASE o
      <4>1. d \in Nat \ {0} /\ DueAt(e, p) - d = n
        BY <3>1 DEF Stands
      <4>2. DueAt(e, p) <= DueAt(e, i)
        BY <1>1, <2>1, DueGrows
      <4>3. DueAt(e, p) \in Nat /\ DueAt(e, i) \in Nat
        BY <2>1
      <4> HIDE DEF e
      <4>4. QED BY <4>1, <4>2, <4>3
    <3>2. CASE ~o
      <4>1. p = Len(e) /\ i = Len(e)
        BY <1>3, <2>1, <3>2 DEF Stands
      <4>2. e[i].kind = "eot"
        BY <1>1, <2>1, <4>1 DEF IsTrack
      <4>3. QED BY <4>2
    <3>3. QED BY <3>1, <3>2
  <2>3. EventsPassed(c, e, n, Len(e)) = EventsPassed(c, e, n, p - 1)
    <3>1. p - 1 \in 0..Len(e) /\ Len(e) \in (p - 1)..Len(e) /\ (p - 1) + 1 = p
      BY <2>1
    <3> HIDE DEF c, e
    <3>2. \A i \in ((p - 1) + 1)..Len(e) :
             DueAt(e, i) # n \/ e[i].kind \notin {"tempo", "meter"}
      BY <2>2, <3>1
    <3>3. QED BY <2>1, <3>1, <3>2, PassedSame
  <2>4. QED BY <1>2, <1>3, <2>3
<1>4. CASE ~Included(e)
  BY <1>2, <1>4
<1>5. QED BY <1>3, <1>4

\* The clock goes on behind event p.
ClockGoes(s, tempo, n, k, p) ==
    Mid(s, tempo, n, k, p + 1) = Timed(Mid(s, tempo, n, k, p), s[k][p])

\* An event that is due passes.
LEMMA MidGoes ==
    ASSUME NEW s, IsSong(s), NEW tempo, NEW n \in Int, NEW k \in 1..Len(s),
           NEW p, Stands(s[k], k, p, 0, TRUE, n, k)
    PROVE  ClockGoes(s, tempo, n, k, p)
<1> DEFINE e == s[k]
           c == Upto(s, tempo, n, k - 1)
<1>1. Len(s) \in Nat /\ k # 0 /\ k # Len(s) + 1 /\ IsTrack(e)
  BY DEF IsSong
<1>2. Included(e) /\ p \in 1..Len(e) /\ Len(e) \in Nat
  BY <1>1 DEF Stands, IsTrack
<1>3. DueAt(e, p) = n
  <2>1. DueAt(e, p) \in Nat
    BY <1>1, <1>2, DueNat
  <2>2. DueAt(e, p) - 0 = n
    BY DEF Stands
  <2> HIDE DEF e
  <2>3. QED BY <2>1, <2>2
<1>4. (p + 1) - 1 = p
  BY <1>2
<1>5. /\ Mid(s, tempo, n, k, p) = EventsPassed(c, e, n, p - 1)
      /\ Mid(s, tempo, n, k, p + 1) = EventsPassed(c, e, n, p)
  BY <1>1, <1>2, <1>4 DEF Mid, Upto
<1>6. EventsPassed(c, e, n, p) = Timed(EventsPassed(c, e, n, p - 1), e[p])
  <2> HIDE DEF c, e
  <2>1. QED BY <1>2, <1>3, PassedNext
<1>7. QED BY <1>5, <1>6 DEF ClockGoes

\* The first tick begins with the clock at its start.
LEMMA MidFirst ==
    ASSUME NEW s, IsSong(s), NEW tempo, NEW k \in 0..1
    PROVE  Mid(s, tempo, 0, k, 1) = Start(tempo)
<1>1. Straight(s, 0, tempo) = Start(tempo)
  BY StraightNext
<1>2. Len(s) \in Nat /\ \A c : TracksPassed(s, c, 0, 0) = c
  BY TracksPassedNext DEF IsSong
<1>3. CASE k = 0
  BY <1>1, <1>3 DEF Mid
<1>4. CASE k = 1
  <2>1. CASE Len(s) = 0
    BY <1>1, <1>2, <1>4, <2>1 DEF Mid
  <2>2. CASE Len(s) # 0
    <3>1. 1 \in 1..Len(s) /\ 1 # Len(s) + 1 /\ 1 - 1 = 0 /\ Len(s[1]) \in Nat
      BY <1>2, <2>2 DEF IsSong, IsTrack
    <3>2. \A c : EventsPassed(c, s[1], 0, 0) = c
      BY <3>1, PassedNext
    <3>3. QED BY <1>1, <1>2, <1>4, <3>1, <3>2 DEF Mid
  <2>3. QED BY <2>1, <2>2
<1>5. QED BY <1>3, <1>4

-----------------------------------------------------------------------------
(* Song loops.                                                             *)

\* Track t has all the song loops of s.
Leads(s, t) ==
    \A u \in 1..Len(s) : \A i \in 1..Len(s[u]) :
        s[u][i].kind \in {"songBegin", "songEnd"} => u = t

\* A song that is looped as a whole, if at all: no loops of single tracks, and no
\* contexts, which take back one track and leave it to the song that the others fit.
SongLoopsOnly(s) ==
    /\ \E t \in Nat : Leads(s, t)
    /\ \A u \in 1..Len(s) : \A i \in 1..Len(s[u]) :
           s[u][i].kind \notin {"begin", "end", "contextEnd"}

\* No loop is empty.
LoopsLast(s) ==
    \A t \in 1..Len(s) : \A i, j \in 1..Len(s[t]) :
        i < j /\ s[t][i].kind = "songBegin" /\ s[t][j].kind = "songEnd"
            => DueAt(s[t], i) < DueAt(s[t], j)

\* The turn: 0 between two ticks.
Turn == IF at = "idle" THEN 0 ELSE track

\* All tracks stand in tick n of the song.
AllStand(n, k) == \A u \in 1..Tracks : Stands(song[u], u, pos[u], delay[u], on[u], n, k)

\* The loop of track t goes back to tick n, ...
BackTo(t, n) ==
    \A u \in 1..Tracks :
        Stands(song[u], u, saved[u].pos,
               IF u = t THEN song[t][saved[t].pos].delta ELSE saved[u].delay,
               saved[u].on, n, t)

\* ... in which it begins in front of where the track goes back to.
From(t, n) ==
    /\ saved[t].pos \in 2..pos[t]
    /\ song[t][saved[t].pos - 1].kind = "songBegin"
    /\ DueAt(song[t], saved[t].pos - 1) = n

\* The clock c is right in tick n, for track k before event i.
IsClock(c, n, k, i) == n \in Nat /\ \E tempo : c = Mid(song, tempo, n, k, i)

\* What a loop goes back to.
LoopInv ==
    \A t \in 1..Tracks : Leads(song, t) /\ saved[t].count # 0 =>
        \E n \in Int :
            /\ saved[t].on /\ BackTo(t, n) /\ From(t, n)
            /\ LoopsLast(song) /\ ~ended =>
                   \E c : /\ IsClock(c, n, t, saved[t].pos)
                          /\ \A u \in 1..Tracks : saved[u].clock = c

\* A loop that has gone back in tick n will not have ended in it.
Jumped(n) ==
    \E t \in 1..Tracks :
        /\ on[t] /\ From(t, n)
        /\ \E j \in pos[t]..Len(song[t]) : song[t][j].kind = "songEnd"

\* Where the song is: in tick n.
TickInv(n) ==
    /\ AllStand(n, Turn)
    /\ LoopsLast(song) =>
          /\ timeSet /\ Turn # 0 => Jumped(n)
          /\ ~ended /\ TracksOn # {} => IsClock(clock, n, Turn, pos[Turn])

\* The invariant.
StepInv ==
    /\ CountInv
    /\ track \in Nat /\ (at = "idle" => track = 1)
    /\ pos = [t \in 1..Tracks |-> pos[t]] /\ delay = [t \in 1..Tracks |-> delay[t]]
    /\ SongLoopsOnly(song)
    /\ LoopInv
    /\ \E n \in Int : TickInv(n)

\* A song of the program, or none.
LEMMA SongIs ==
    ASSUME NEW s \in Songs \cup {<<>>}
    PROVE  IsSong(s)
<1>1. CASE s \in Songs
  BY <1>1, ConstantsAssumption DEF Song, IsSong, IsTrack
<1>2. CASE s = <<>>
  BY <1>2 DEF IsSong
<1>3. QED BY <1>1, <1>2

\* The rest of the invariant of a song that is begun.
Begun(s, n) ==
    /\ pos' = [t \in 1..Tracks' |-> pos'[t]] /\ delay' = [t \in 1..Tracks' |-> delay'[t]]
    /\ LoopInv' /\ TickInv(n)'

\* A song that is begun, or begun again.
LEMMA StepReset ==
    ASSUME NEW s \in Songs \cup {<<>>}, NEW tempo, ResetTracks(s, tempo), song' = s,
           NEW n \in Int, NEW k \in Nat, Turn' = k, LoopsLast(s) => ~timeSet' \/ k = 0,
           \/ n = 0 /\ k <= 1
           \/ n = -1 /\ k = Len(s) + 1 /\ ended'
    PROVE  Begun(s, n)
<1>1. /\ pos' = [t \in 1..Len(s) |-> 1]
      /\ delay' = [t \in 1..Len(s) |-> s[t][1].delta]
      /\ on' = [t \in 1..Len(s) |-> Included(s[t])]
      /\ saved' = [t \in 1..Len(s) |-> NoLoop]
      /\ clock' = Start(tempo)
  BY DEF ResetTracks
<1>2. Tracks' = Len(s) /\ Len(s) \in Nat /\ IsSong(s)
  BY SongIs DEF Tracks, IsSong
<1>3. LoopInv'
  <2>1. \A t \in 1..Len(s) : saved'[t].count = 0
    BY <1>1 DEF NoLoop
  <2>2. QED BY <1>2, <2>1 DEF LoopInv
<1>4. AllStand(n, Turn)'
  <2>1. ASSUME NEW u \in 1..Len(s) PROVE Stands(s[u], u, pos'[u], delay'[u], on'[u], n, k)
    <3>1. IsTrack(s[u]) /\ 0 < u /\ u < Len(s) + 1 /\ u \in Int
      BY <1>2 DEF IsSong
    <3>2. Stands(s[u], u, 1, s[u][1].delta, Included(s[u]), n, k)
      BY <3>1, StandsFirst
    <3>3. QED BY <1>1, <3>2
  <2>2. QED BY <1>2, <2>1 DEF AllStand
<1>5. ~ended' /\ TracksOn' # {} => IsClock(clock, n, Turn, pos[Turn])'
  <2>1. SUFFICES ASSUME ~ended', TracksOn' # {}
                 PROVE  \E x : clock' = Mid(s, x, n, k, pos'[k]) /\ n \in Nat
    BY DEF IsClock
  <2>2. n = 0 /\ k \in 0..1 /\ Len(s) # 0
    BY <1>2, <2>1 DEF TracksOn
  <2>3. CASE k = 1
    <3>1. pos'[k] = 1
      BY <1>1, <1>2, <2>2, <2>3
    <3>2. QED BY <1>1, <1>2, <2>2, <3>1, MidFirst
  <2>4. CASE k = 0
    <3>1. Mid(s, tempo, 0, 0, 1) = Mid(s, tempo, 0, 0, pos'[0])
      BY DEF Mid
    <3>2. Mid(s, tempo, 0, 0, 1) = Start(tempo)
      BY <1>2, MidFirst
    <3>3. QED BY <1>1, <2>2, <2>4, <3>1, <3>2
  <2>5. QED BY <2>2, <2>3, <2>4
<1>6. TickInv(n)'
  BY <1>4, <1>5 DEF TickInv
<1>7. QED BY <1>1, <1>2, <1>3, <1>6 DEF Begun

\* What is true of a track whose turn it is.
TurnOf(t, n) ==
    /\ t \in 1..Tracks /\ t \in Nat /\ Turn = t /\ t # 0
    /\ on[t] /\ delay[t] = 0 /\ IsTrack(song[t]) /\ IsSong(song)
    /\ pos[t] \in 1..Len(song[t]) /\ Stands(song[t], t, pos[t], 0, TRUE, n, t)

LEMMA TurnIs ==
    ASSUME StepInv, NEW n \in Int, AllStand(n, Turn), NEW t, EventDue(t)
    PROVE  TurnOf(t, n)
<1>1. /\ at \in {"service", "seek"} /\ track = t /\ t \in 1..Tracks /\ on[t] /\ delay[t] = 0
  BY DEF EventDue
<1>2. Turn = t /\ t \in Nat /\ t # 0
  BY <1>1 DEF Turn, StepInv
<1>3. IsSong(song) /\ IsTrack(song[t])
  BY <1>1, SongIs DEF StepInv, CountInv, TracksInv, IsSong, Tracks
<1>4. Stands(song[t], t, pos[t], delay[t], on[t], n, t)
  BY <1>1, <1>2 DEF AllStand
<1>5. on[t] = TRUE
  BY <1>1 DEF StepInv, CountInv, TracksInv
<1>6. Stands(song[t], t, pos[t], 0, TRUE, n, t)
  BY <1>1, <1>4, <1>5
<1>7. QED BY <1>1, <1>2, <1>3, <1>6 DEF TurnOf, Stands

\* A track goes on behind an event, and the clock with it: all but the loops.
LEMMA TurnGoes ==
    ASSUME StepInv, NEW n \in Int, TickInv(n), NEW t, EventDue(t), GoOn(t, pos[t]),
           Event(t).kind # "eot", clock' = Timed(clock, Event(t)),
           UNCHANGED <<song, on, at, track, ended>>
    PROVE  /\ AllStand(n, Turn)' /\ Turn' = Turn /\ Tracks' = Tracks /\ TracksOn' = TracksOn
           /\ pos' = [u \in 1..Tracks |-> pos'[u]] /\ delay' = [u \in 1..Tracks |-> delay'[u]]
           /\ \A u \in 1..Tracks : pos'[u] = IF u = t THEN pos[u] + 1 ELSE pos[u]
           /\ LoopsLast(song) /\ ~ended /\ TracksOn # {} => IsClock(clock, n, Turn, pos[Turn])'
<1>1. TurnOf(t, n)
  BY TurnIs DEF TickInv
<1>2. Turn' = Turn /\ Tracks' = Tracks /\ TracksOn' = TracksOn
  BY DEF Turn, Tracks, TracksOn
<1>3. /\ pos = [u \in 1..Tracks |-> pos[u]] /\ delay = [u \in 1..Tracks |-> delay[u]]
      /\ pos' = [pos EXCEPT ![t] = pos[t] + 1]
      /\ delay' = [delay EXCEPT ![t] = song[t][pos[t] + 1].delta]
  BY DEF StepInv, GoOn
<1>4. t \in 1..Tracks /\ t \in Int
  BY <1>1 DEF TurnOf
<1>5. /\ pos' = [u \in 1..Tracks |-> pos'[u]] /\ delay' = [u \in 1..Tracks |-> delay'[u]]
      /\ \A u \in 1..Tracks : pos'[u] = IF u = t THEN pos[u] + 1 ELSE pos[u]
      /\ \A u \in 1..Tracks :
            delay'[u] = IF u = t THEN song[t][pos[t] + 1].delta ELSE delay[u]
  BY <1>3, <1>4
<1>6. AllStand(n, Turn)'
  <2>1. ASSUME NEW u \in 1..Tracks
        PROVE  Stands(song[u], u, pos'[u], delay'[u], on[u], n, t)
    <3>1. CASE u = t
      <4>1. Stands(song[t], t, pos[t] + 1, song[t][pos[t] + 1].delta, TRUE, n, t)
        BY <1>1, <1>4, StandsGoes DEF TurnOf, Event
      <4>2. on[t] = TRUE
        BY <1>1, <1>4 DEF TurnOf, StepInv, CountInv, TracksInv
      <4>3. QED BY <1>5, <3>1, <4>1, <4>2
    <3>2. CASE u # t
      <4>1. Stands(song[u], u, pos[u], delay[u], on[u], n, t)
        BY <1>1 DEF TickInv, AllStand, TurnOf
      <4>2. QED BY <1>5, <3>2, <4>1
    <3>3. QED BY <3>1, <3>2
  <2>2. Turn' = t
    BY <1>1, <1>2 DEF TurnOf
  <2>3. QED BY <1>2, <2>1, <2>2 DEF AllStand
<1>7. ASSUME LoopsLast(song), ~ended, TracksOn # {}
      PROVE  IsClock(clock, n, Turn, pos[Turn])'
  <2>1. PICK tempo : clock = Mid(song, tempo, n, t, pos[t]) /\ n \in Nat
    <3>1. IsClock(clock, n, Turn, pos[Turn]) /\ Turn = t
      BY <1>1, <1>7 DEF TickInv, TurnOf
    <3>2. IsClock(clock, n, t, pos[t])
      BY <3>1
    <3>3. QED BY <3>2 DEF IsClock
  <2>2. Mid(song, tempo, n, t, pos[t] + 1) = Timed(clock, Event(t))
    <3>1. /\ IsSong(song) /\ t \in 1..Len(song)
          /\ Stands(song[t], t, pos[t], 0, TRUE, n, t)
      BY <1>1 DEF TurnOf, Tracks
    <3>2. ClockGoes(song, tempo, n, t, pos[t])
      BY <3>1, MidGoes
    <3>3. QED BY <2>1, <3>2 DEF Event, ClockGoes
  <2>3. pos'[t] = pos[t] + 1 /\ Turn' = t
    BY <1>1, <1>2, <1>4, <1>5 DEF TurnOf
  <2>4. clock' = Mid(song', tempo, n, Turn', pos'[Turn'])
    BY <2>2, <2>3
  <2>5. QED BY <2>1, <2>4 DEF IsClock
<1>8. QED BY <1>2, <1>5, <1>6, <1>7

\* A loop that has gone back goes on, if what passes is not its end.
LEMMA JumpGoes ==
    ASSUME StepInv, NEW n \in Int, Jumped(n), NEW t, TurnOf(t, n), LoopsLast(song),
           UNCHANGED <<song, on, saved>>, Tracks' = Tracks,
           \A u \in 1..Tracks : pos'[u] = IF u = t THEN pos[u] + 1 ELSE pos[u]
    PROVE  Jumped(n)'
<1>1. PICK u \in 1..Tracks :
         /\ on[u] /\ From(u, n)
         /\ \E j \in pos[u]..Len(song[u]) : song[u][j].kind = "songEnd"
  BY DEF Jumped
<1>2. PICK j \in pos[u]..Len(song[u]) : song[u][j].kind = "songEnd"
  BY <1>1
<1>3. CASE u # t
  BY <1>1, <1>2, <1>3 DEF Jumped, From
<1>4. CASE u = t
  <2> DEFINE e == song[t]
             i == saved[t].pos - 1
  <2>1. Len(e) \in Nat /\ pos[t] \in 1..Len(e) /\ t \in 1..Len(song)
    BY DEF TurnOf, IsTrack, Tracks
  <2>2. /\ saved[t].pos \in 2..pos[t] /\ e[i].kind = "songBegin" /\ DueAt(e, i) = n
    BY <1>1, <1>4 DEF From
  <2>3. DueAt(e, pos[t]) = n
    <3>1. IsTrack(e) /\ Stands(e, t, pos[t], 0, TRUE, n, t) /\ t \in Nat
      BY DEF TurnOf
    <3>2. DueAt(e, pos[t]) \in Nat
      BY <2>1, <3>1, DueNat
    <3>3. DueAt(e, pos[t]) - 0 = n
      <4>1. ~(t < t)
        BY <3>1
      <4>2. QED BY <3>1, <4>1 DEF Stands
    <3> HIDE DEF e
    <3>4. QED BY <3>2, <3>3
  <2>4. i \in 1..Len(e) /\ i < pos[t] /\ i \in Int
    <3> HIDE DEF e
    <3>1. saved[t].pos \in 2..pos[t] /\ pos[t] \in 1..Len(e) /\ Len(e) \in Nat
      BY <2>1, <2>2
    <3>2. QED BY <3>1
  <2>5. e[pos[t]].kind # "songEnd"
    <3>1. e[pos[t]].kind = "songEnd" => DueAt(e, i) < DueAt(e, pos[t])
      BY <2>1, <2>2, <2>4 DEF LoopsLast
    <3>2. ~(DueAt(e, i) < DueAt(e, pos[t]))
      BY <2>2, <2>3
    <3>3. QED BY <3>1, <3>2
  <2>6. j \in (pos[t] + 1)..Len(e) /\ e[j].kind = "songEnd"
    BY <1>2, <1>4, <2>1, <2>5
  <2>7. pos'[t] = pos[t] + 1 /\ saved[t].pos \in 2..(pos[t] + 1)
    BY <1>4, <2>1, <2>2
  <2>8. From(t, n)'
    BY <2>2, <2>7 DEF From
  <2>9. QED BY <1>1, <1>4, <2>6, <2>7, <2>8 DEF Jumped
<1>5. QED BY <1>3, <1>4

\* What a loop goes back to remains, while its track goes on.
LEMMA LoopRemains ==
    ASSUME StepInv, UNCHANGED <<song, saved>>, ended' \/ ~ended, Tracks' = Tracks,
           \A u \in 1..Tracks : pos'[u] = pos[u] \/ pos'[u] = pos[u] + 1,
           \A u \in 1..Tracks : pos[u] \in Int
    PROVE  LoopInv'
<1>1. ASSUME NEW t \in 1..Tracks, Leads(song, t), saved[t].count # 0
      PROVE  \E n \in Int :
            /\ saved[t].on /\ BackTo(t, n)' /\ From(t, n)'
            /\ LoopsLast(song) /\ ~ended' =>
                   \E c : IsClock(c, n, t, saved[t].pos)
                          /\ \A u \in 1..Tracks : saved[u].clock = c
  <2>1. PICK n \in Int :
            /\ saved[t].on /\ BackTo(t, n) /\ From(t, n)
            /\ LoopsLast(song) /\ ~ended =>
                   \E c : IsClock(c, n, t, saved[t].pos)
                          /\ \A u \in 1..Tracks : saved[u].clock = c
    BY <1>1 DEF StepInv, LoopInv
  <2>2. BackTo(t, n)'
    BY <2>1 DEF BackTo
  <2>3. From(t, n)'
    <3>1. saved[t].pos \in 2..pos[t] /\ pos[t] \in Int
      BY <2>1 DEF From
    <3>2. pos'[t] = pos[t] \/ pos'[t] = pos[t] + 1
      OBVIOUS
    <3>3. saved[t].pos \in 2..pos'[t]
      BY <3>1, <3>2
    <3>4. QED BY <2>1, <3>3 DEF From
  <2>4. QED BY <2>1, <2>2, <2>3
<1>2. QED BY <1>1 DEF LoopInv, IsClock

\* The song is the one before, or none.
LEMMA SongNow ==
    ASSUME StepInv
    PROVE  /\ IsSong(song) /\ Tracks \in Nat /\ Tracks = Len(song)
           /\ on \in [1..Tracks -> BOOLEAN]
           /\ saved = [u \in 1..Tracks |-> saved[u]]
           /\ \A u \in 1..Tracks : Remembers(saved[u])
<1>1. IsSong(song)
  BY SongIs DEF StepInv, CountInv, TracksInv
<1>2. QED BY <1>1 DEF StepInv, CountInv, TracksInv, IsSong, Tracks

\* What an event leads to that is nothing but passed.
LEMMA StepPass ==
    ASSUME StepInv, CountInv', NEW n \in Int, TickInv(n), NEW t, EventDue(t), GoOn(t, pos[t]),
           Event(t).kind # "eot", clock' = Timed(clock, Event(t)),
           UNCHANGED <<song, on, at, track, ended, saved, timeSet>>
    PROVE  StepInv'
<1>1. /\ AllStand(n, Turn)' /\ Turn' = Turn /\ Tracks' = Tracks /\ TracksOn' = TracksOn
      /\ pos' = [u \in 1..Tracks |-> pos'[u]] /\ delay' = [u \in 1..Tracks |-> delay'[u]]
      /\ \A u \in 1..Tracks : pos'[u] = IF u = t THEN pos[u] + 1 ELSE pos[u]
      /\ LoopsLast(song) /\ ~ended /\ TracksOn # {} => IsClock(clock, n, Turn, pos[Turn])'
  BY TurnGoes
<1>2. TurnOf(t, n)
  BY TurnIs DEF TickInv
<1>3. LoopInv'
  <2>1. \A u \in 1..Tracks : pos[u] \in Int
    BY SongNow DEF TickInv, AllStand, Stands, IsSong, IsTrack
  <2>2. QED BY <1>1, <2>1, LoopRemains
<1>4. ASSUME LoopsLast(song), timeSet, Turn # 0 PROVE Jumped(n)'
  <2>1. Jumped(n)
    BY <1>4 DEF TickInv
  <2>2. QED BY <1>1, <1>2, <1>4, <2>1, JumpGoes
<1>5. TickInv(n)'
  BY <1>1, <1>4 DEF TickInv
<1>6. /\ track' \in Nat /\ (at' = "idle" => track' = 1) /\ SongLoopsOnly(song')
  BY DEF StepInv
<1>7. QED BY <1>1, <1>3, <1>5, <1>6 DEF StepInv

\* A note, a tempo or a meter.
LEMMA StepNote ==
    ASSUME StepInv, CountInv', NEW t, PlayEvent(t) \/ SkipEvent(t)
    PROVE  StepInv'
<1>1. PICK n \in Int : TickInv(n)
  BY DEF StepInv
<1>2. /\ EventDue(t) /\ GoOn(t, pos[t]) /\ Event(t).kind \in Passed \cup {"note"}
      /\ clock' = Timed(clock, Event(t))
      /\ UNCHANGED <<song, on, at, track, ended, saved, timeSet>>
  BY DEF PlayEvent, SkipEvent, Pass, flags, run
<1>3. Event(t).kind # "eot"
  BY <1>2 DEF Passed
<1>4. QED BY <1>1, <1>2, <1>3, StepPass

\* The end of a track.
LEMMA StepEnd ==
    ASSUME StepInv, CountInv', NEW t, EndOfTrack(t)
    PROVE  StepInv'
<1>1. PICK n \in Int : TickInv(n)
  BY DEF StepInv
<1>2. /\ EventDue(t) /\ song[t][pos[t]].kind = "eot" /\ on' = [on EXCEPT ![t] = FALSE]
      /\ UNCHANGED <<song, pos, delay, at, track, ended, saved, timeSet, clock>>
  BY DEF EndOfTrack, Event, flags, run
<1>3. TurnOf(t, n)
  BY <1>1, <1>2, TurnIs DEF TickInv
<1>4. Turn' = Turn /\ Tracks' = Tracks
  BY <1>2 DEF Turn, Tracks
<1>5. t \in 1..Tracks /\ \A u \in 1..Tracks : on'[u] = IF u = t THEN FALSE ELSE on[u]
  BY <1>2, <1>3, SongNow DEF TurnOf
<1>6. LoopInv'
  <2>1. \A u \in 1..Tracks : pos[u] \in Int
    BY <1>1, SongNow DEF TickInv, AllStand, Stands, IsSong, IsTrack
  <2>2. \A u \in 1..Tracks : pos'[u] = pos[u]
    BY <1>2
  <2>3. QED BY <1>2, <1>4, <2>1, <2>2, LoopRemains
<1>7. AllStand(n, Turn)'
  <2>1. ASSUME NEW u \in 1..Tracks PROVE Stands(song[u], u, pos[u], delay[u], on'[u], n, Turn)
    <3>1. CASE u = t
      <4> DEFINE e == song[t]
                 p == pos[t]
      <4>0. IsTrack(e) /\ t \in Int /\ Stands(e, t, p, 0, TRUE, n, t) /\ e[p].kind = "eot"
        <5>1. t \in Nat /\ IsTrack(e) /\ Stands(e, t, p, 0, TRUE, n, t)
          BY <1>3 DEF TurnOf
        <5>2. e[p].kind = "eot"
          BY <1>2
        <5> HIDE DEF e, p
        <5>3. t \in Int
          BY <5>1
        <5>4. QED BY <5>1, <5>2, <5>3
      <4>1. Stands(song[t], t, pos[t], 0, FALSE, n, t)
        <5> HIDE DEF e, p
        <5>1. Stands(e, t, p, 0, FALSE, n, t)
          BY <4>0, StandsEnds
        <5>2. QED BY <5>1 DEF e, p
      <4>2. on'[u] = FALSE /\ delay[u] = 0 /\ Turn = t
        BY <1>3, <1>5, <3>1 DEF TurnOf
      <4>3. QED BY <3>1, <4>1, <4>2
    <3>2. CASE u # t
      BY <1>1, <1>5, <3>2 DEF TickInv, AllStand
    <3>3. QED BY <3>1, <3>2
  <2>2. QED BY <1>2, <1>4, <2>1 DEF AllStand
<1>8. ASSUME LoopsLast(song), timeSet, Turn # 0 PROVE Jumped(n)'
  <2>1. Jumped(n)
    BY <1>1, <1>8 DEF TickInv
  <2>2. PICK u \in 1..Tracks :
         /\ on[u] /\ From(u, n)
         /\ \E j \in pos[u]..Len(song[u]) : song[u][j].kind = "songEnd"
    BY <2>1 DEF Jumped
  <2>3. u # t
    <3>1. pos[t] = Len(song[t]) /\ Len(song[t]) \in Nat
      BY <1>2, <1>3 DEF TurnOf, IsTrack
    <3>2. \A j \in pos[t]..Len(song[t]) : j = pos[t]
      BY <3>1
    <3>3. QED BY <1>2, <2>2, <3>2
  <2>4. on'[u] /\ From(u, n)'
    BY <1>2, <1>5, <2>2, <2>3 DEF From
  <2>5. QED BY <1>2, <1>4, <2>2, <2>4 DEF Jumped
<1>9. ASSUME LoopsLast(song), ~ended, TracksOn' # {} PROVE IsClock(clock, n, Turn, pos[Turn])'
  <2>1. IsClock(clock, n, Turn, pos[Turn])
    <3>1. TracksOn # {}
      BY <1>3 DEF TracksOn, TurnOf
    <3>2. QED BY <1>1, <1>9, <3>1 DEF TickInv
  <2>2. QED BY <1>2, <1>4, <2>1 DEF IsClock
<1>10. TickInv(n)'
  BY <1>2, <1>4, <1>7, <1>8, <1>9 DEF TickInv
<1>11. QED BY <1>2, <1>4, <1>6, <1>10 DEF StepInv

\* The loops of a song are those of one track.
LEMMA LeaderIs ==
    ASSUME SongLoopsOnly(song), NEW t \in 1..Len(song), NEW i \in 1..Len(song[t]),
           song[t][i].kind \in {"songBegin", "songEnd"}
    PROVE  /\ Leads(song, t)
           /\ \A u \in 1..Len(song) : \A j \in 1..Len(song[u]) :
                 song[u][j].kind \in {"songBegin", "songEnd"} => u = t
<1>1. PICK l : Leads(song, l)
  BY DEF SongLoopsOnly
<1>2. l = t
  BY <1>1 DEF Leads
<1>3. QED BY <1>1, <1>2 DEF Leads

\* A loop that has gone back in a tick has its track, which does not end it in the same tick.
LEMMA JumpLasts ==
    ASSUME StepInv, NEW n \in Int, AllStand(n, Turn), Jumped(n), NEW t, TurnOf(t, n),
           Event(t).kind \in {"songBegin", "songEnd"}
    PROVE  /\ From(t, n)
           /\ \E j \in pos[t]..Len(song[t]) : song[t][j].kind = "songEnd"
           /\ LoopsLast(song) => Event(t).kind # "songEnd"
<1>1. PICK u \in 1..Tracks :
         /\ on[u] /\ From(u, n)
         /\ \E j \in pos[u]..Len(song[u]) : song[u][j].kind = "songEnd"
  BY DEF Jumped
<1>2. /\ t \in 1..Len(song) /\ pos[t] \in 1..Len(song[t]) /\ Tracks = Len(song)
      /\ IsTrack(song[t]) /\ IsSong(song) /\ Stands(song[t], t, pos[t], 0, TRUE, n, t)
  BY DEF TurnOf, Tracks
<1>3. \A v \in 1..Len(song) : \A j \in 1..Len(song[v]) :
         song[v][j].kind \in {"songBegin", "songEnd"} => v = t
  BY <1>2, LeaderIs DEF StepInv, Event
<1> DEFINE i == saved[u].pos - 1
<1>4. i \in 1..Len(song[u]) /\ i < pos[u]
  <2>1. Len(song[u]) \in Nat /\ pos[u] \in Int
    <3>1. IsTrack(song[u]) /\ Stands(song[u], u, pos[u], delay[u], on[u], n, Turn)
      BY <1>1, <1>2 DEF IsSong, AllStand
    <3>2. QED BY <3>1 DEF IsTrack, Stands
  <2>2. PICK j \in pos[u]..Len(song[u]) : TRUE
    BY <1>1
  <2>3. saved[u].pos \in 2..pos[u]
    BY <1>1 DEF From
  <2>4. QED BY <2>1, <2>2, <2>3
<1>5. song[u][i].kind = "songBegin" /\ DueAt(song[u], i) = n
  BY <1>1 DEF From
<1>6. u = t
  BY <1>2, <1>3, <1>4, <1>5
<1>7. DueAt(song[t], pos[t]) = n
  <2>1. DueAt(song[t], pos[t]) \in Nat
    BY <1>2, DueNat DEF IsTrack
  <2>2. DueAt(song[t], pos[t]) - 0 = n
    BY <1>2 DEF Stands
  <2>3. QED BY <2>1, <2>2
<1>8. ASSUME LoopsLast(song), Event(t).kind = "songEnd" PROVE FALSE
  <2>1. DueAt(song[t], i) < DueAt(song[t], pos[t])
    BY <1>2, <1>4, <1>5, <1>6, <1>8 DEF LoopsLast, Event
  <2>2. QED BY <1>5, <1>6, <1>7, <2>1
<1>9. QED BY <1>1, <1>6, <1>8

\* The beginning of a loop.
LEMMA StepStart ==
    ASSUME StepInv, CountInv', NEW t, LoopStart(t)
    PROVE  StepInv'
<1>1. PICK n \in Int : TickInv(n)
  BY DEF StepInv
<1>2. /\ EventDue(t) /\ GoOn(t, pos[t]) /\ Event(t).kind \in {"begin", "songBegin"}
      /\ UNCHANGED <<song, on, at, track, ended, timeSet, clock>>
  BY DEF LoopStart, flags, run
<1>3. TurnOf(t, n)
  BY <1>1, <1>2, TurnIs DEF TickInv
<1>4. Event(t).kind = "songBegin"
  BY <1>2, <1>3, SongNow DEF TurnOf, StepInv, SongLoopsOnly, Event
<1>5. clock' = Timed(clock, Event(t))
  BY <1>2, <1>4 DEF Timed
<1>6. /\ AllStand(n, Turn)' /\ Turn' = Turn /\ Tracks' = Tracks /\ TracksOn' = TracksOn
      /\ pos' = [u \in 1..Tracks |-> pos'[u]] /\ delay' = [u \in 1..Tracks |-> delay'[u]]
      /\ \A u \in 1..Tracks : pos'[u] = IF u = t THEN pos[u] + 1 ELSE pos[u]
      /\ LoopsLast(song) /\ ~ended /\ TracksOn # {} => IsClock(clock, n, Turn, pos[Turn])'
  BY <1>1, <1>2, <1>4, <1>5, TurnGoes
<1>7. /\ t \in 1..Tracks /\ Turn = t /\ t # 0 /\ on[t] /\ pos[t] \in 1..Len(song[t])
      /\ IsTrack(song[t]) /\ Stands(song[t], t, pos[t], 0, TRUE, n, t) /\ t \in Int
      /\ Len(song[t]) \in Nat
  <2>1. IsTrack(song[t]) /\ t \in Nat
    BY <1>3 DEF TurnOf
  <2>2. Len(song[t]) \in Nat /\ t \in Int
    BY <2>1 DEF IsTrack
  <2>3. QED BY <1>3, <2>2 DEF TurnOf
<1>8. \A u \in 1..Tracks :
         /\ saved'[u].pos = pos'[u] /\ saved'[u].delay = delay[u]
         /\ saved'[u].on = on[u] /\ saved'[u].clock = clock
  <2> DEFINE count == IF Event(t).value = 0 THEN Infinite ELSE Event(t).value
             here(u) == [count |-> count, pos |-> IF u = t THEN pos[u] + 1 ELSE pos[u],
                         delay |-> delay[u], on |-> on[u], clock |-> clock]
  <2>1. saved' = [u \in 1..Tracks |->
                     IF u \in Looped(t, "songBegin") THEN here(u) ELSE saved[u]]
    BY DEF LoopStart
  <2>2. Looped(t, "songBegin") = 1..Tracks
    BY <1>4 DEF Looped
  <2>3. \A u \in 1..Tracks : saved'[u] = here(u)
    BY <2>1, <2>2
  <2>4. \A u \in 1..Tracks : pos'[u] = IF u = t THEN pos[u] + 1 ELSE pos[u]
    BY <1>6
  <2>5. ASSUME NEW u \in 1..Tracks
        PROVE  /\ saved'[u].pos = pos'[u] /\ saved'[u].delay = delay[u]
               /\ saved'[u].on = on[u] /\ saved'[u].clock = clock
    <3>1. saved'[u] = here(u) /\ pos'[u] = IF u = t THEN pos[u] + 1 ELSE pos[u]
      BY <2>3, <2>4
    <3>2. QED BY <3>1
  <2>6. QED BY <2>5
<1>9. /\ Stands(song[t], t, pos[t] + 1, song[t][pos[t] + 1].delta, TRUE, n, t)
      /\ DueAt(song[t], pos[t]) = n
  BY <1>4, <1>7, StandsGoes DEF Event
<1>10. From(t, n)'
  <2>1. saved'[t].pos = pos[t] + 1 /\ pos'[t] = pos[t] + 1 /\ (pos[t] + 1) - 1 = pos[t]
    BY <1>6, <1>7, <1>8
  <2>2. pos[t] + 1 \in 2..(pos[t] + 1)
    BY <1>7
  <2>3. QED BY <1>2, <1>4, <1>9, <2>1, <2>2 DEF From, Event
<1>11. BackTo(t, n)'
  <2>1. ASSUME NEW u \in 1..Tracks
        PROVE  Stands(song[u], u, saved'[u].pos,
                      IF u = t THEN song[t][saved'[t].pos].delta ELSE saved'[u].delay,
                      saved'[u].on, n, t)
    <3>1. CASE u = t
      <4>1. on[t] = TRUE /\ saved'[t].pos = pos[t] + 1 /\ saved'[t].on = TRUE
        BY <1>6, <1>7, <1>8, SongNow
      <4>2. QED BY <1>9, <3>1, <4>1
    <3>2. CASE u # t
      <4>1. Stands(song[u], u, pos[u], delay[u], on[u], n, t)
        BY <1>1, <1>7 DEF TickInv, AllStand
      <4>2. saved'[u].pos = pos[u] /\ saved'[u].delay = delay[u] /\ saved'[u].on = on[u]
        BY <1>6, <1>8, <3>2
      <4>3. QED BY <3>2, <4>1, <4>2
    <3>3. QED BY <3>1, <3>2
  <2>2. QED BY <1>2, <1>6, <2>1 DEF BackTo
<1>12. LoopInv'
  <2>1. ASSUME NEW u \in 1..Tracks, Leads(song, u) PROVE u = t
    BY <1>4, <1>7, <2>1, SongNow DEF Leads, Event
  <2>2. saved'[t].on
    BY <1>7, <1>8
  <2>3. ASSUME LoopsLast(song), ~ended
        PROVE  /\ IsClock(clock, n, t, saved[t].pos)'
               /\ \A u \in 1..Tracks : saved'[u].clock = clock'
    <3>1. TracksOn # {}
      BY <1>7 DEF TracksOn
    <3>2. IsClock(clock, n, Turn, pos[Turn])'
      BY <1>6, <2>3, <3>1
    <3>3. Turn' = t /\ pos'[t] = saved'[t].pos
      BY <1>6, <1>7, <1>8
    <3>4. IsClock(clock, n, t, saved[t].pos)'
      BY <3>2, <3>3 DEF IsClock
    <3>5. QED BY <1>2, <1>8, <3>4
  <2>4. QED BY <1>2, <1>6, <1>10, <1>11, <2>1, <2>2, <2>3 DEF LoopInv, IsClock
<1>13. ASSUME LoopsLast(song), timeSet, Turn # 0 PROVE Jumped(n)'
  <2>1. Jumped(n)
    BY <1>1, <1>13 DEF TickInv
  <2>2. PICK j \in pos[t]..Len(song[t]) : song[t][j].kind = "songEnd"
    BY <1>1, <1>3, <1>4, <2>1, JumpLasts DEF TickInv
  <2>3. j # pos[t]
    BY <1>4, <2>2 DEF Event
  <2>4. j \in pos'[t]..Len(song[t])
    BY <1>6, <1>7, <2>2, <2>3
  <2>5. QED BY <1>2, <1>6, <1>7, <1>10, <2>2, <2>4 DEF Jumped
<1>14. TickInv(n)'
  BY <1>2, <1>6, <1>13 DEF TickInv
<1>15. QED BY <1>2, <1>6, <1>12, <1>14 DEF StepInv

\* The end of a loop.
LEMMA StepBack ==
    ASSUME StepInv, CountInv', NEW t, LoopEnd(t)
    PROVE  StepInv'
<1>1. PICK n \in Int : TickInv(n)
  BY DEF StepInv
<1>2. /\ EventDue(t) /\ Event(t).kind \in {"end", "songEnd"}
      /\ UNCHANGED <<song, at, track, ended>>
  BY DEF LoopEnd, flags
<1>3. TurnOf(t, n)
  BY <1>1, <1>2, TurnIs DEF TickInv
<1>4. Event(t).kind = "songEnd"
  BY <1>2, <1>3, SongNow DEF TurnOf, StepInv, SongLoopsOnly, Event
<1>5. CASE saved[t].count = 0
  <2>1. GoOn(t, pos[t]) /\ UNCHANGED <<on, saved, clock, timeSet>>
    BY <1>5 DEF LoopEnd
  <2>2. clock' = Timed(clock, Event(t)) /\ Event(t).kind # "eot"
    BY <1>4, <2>1 DEF Timed
  <2>3. QED BY <1>1, <1>2, <2>1, <2>2, StepPass
<1>6. CASE saved[t].count # 0
  <2> DEFINE first == CHOOSE u \in 1..Tracks : \A v \in 1..Tracks : u <= v
  <2>1. /\ t \in 1..Tracks /\ Tracks \in Nat /\ Turn = t /\ t # 0 /\ Tracks = Len(song)
        /\ pos[t] \in 1..Len(song[t]) /\ Len(song[t]) \in Nat
    <3>1. t \in 1..Tracks /\ Turn = t /\ t # 0 /\ IsTrack(song[t])
          /\ pos[t] \in 1..Len(song[t])
      BY <1>3 DEF TurnOf
    <3>2. QED BY <3>1, SongNow DEF IsTrack
  <2>2. Turn' = Turn /\ Tracks' = Tracks
    BY <1>2 DEF Turn, Tracks
  <2>3. /\ saved' = [u \in 1..Tracks |-> [saved[u] EXCEPT !.count = Left(@)]]
        /\ pos' = [u \in 1..Tracks |-> saved[u].pos]
        /\ delay' = [u \in 1..Tracks |-> IF u = t THEN song[t][saved[t].pos].delta
                                         ELSE saved[u].delay]
        /\ on' = [u \in 1..Tracks |-> saved[u].on]
        /\ clock' = (IF timeSet THEN clock ELSE saved[first].clock) /\ timeSet' = TRUE
    <3> DEFINE S == Looped(t, "songEnd")
               was == CHOOSE u \in S : \A v \in S : u <= v
    <3>1. S = 1..Tracks
      BY <1>4 DEF Looped
    <3>2. /\ saved' = [u \in 1..Tracks |->
                 IF u \in S THEN [saved[u] EXCEPT !.count = Left(@)] ELSE saved[u]]
          /\ pos' = [u \in 1..Tracks |-> IF u \in S THEN saved[u].pos ELSE pos[u]]
          /\ delay' = [u \in 1..Tracks |->
                 IF u = t THEN song[t][saved[t].pos].delta
                 ELSE IF u \in S THEN saved[u].delay ELSE delay[u]]
          /\ on' = [u \in 1..Tracks |-> IF u \in S THEN saved[u].on ELSE on[u]]
          /\ clock' = (IF timeSet THEN clock ELSE saved[was].clock) /\ timeSet' = TRUE
      BY <1>6 DEF LoopEnd
    <3>3. was = first
      BY <3>1
    <3> HIDE DEF was, first, S
    <3>4. QED BY <3>1, <3>2, <3>3
  <2>4. \A u \in 1..Tracks :
           /\ saved'[u].pos = saved[u].pos /\ saved'[u].delay = saved[u].delay
           /\ saved'[u].on = saved[u].on /\ saved'[u].clock = saved[u].clock
    <3>1. ASSUME NEW u \in 1..Tracks
          PROVE  /\ saved'[u].pos = saved[u].pos /\ saved'[u].delay = saved[u].delay
                 /\ saved'[u].on = saved[u].on /\ saved'[u].clock = saved[u].clock
      <4>1. saved'[u] = [saved[u] EXCEPT !.count = Left(@)] /\ Remembers(saved[u])
        BY <2>3, SongNow
      <4>2. QED BY <4>1 DEF Remembers
    <3>2. QED BY <3>1
  <2>5. \A u \in 1..Tracks : Leads(song, u) => u = t
    BY <1>4, <2>1 DEF Leads, Event
  <2>6. Leads(song, t)
    BY <1>4, <2>1, LeaderIs DEF StepInv, Event
  <2>7. PICK m \in Int :
           /\ saved[t].on /\ BackTo(t, m) /\ From(t, m)
           /\ LoopsLast(song) /\ ~ended =>
                  \E c : /\ IsClock(c, m, t, saved[t].pos)
                         /\ \A u \in 1..Tracks : saved[u].clock = c
    BY <1>6, <2>1, <2>6 DEF StepInv, LoopInv
  <2>8. AllStand(m, Turn)' /\ BackTo(t, m)'
    <3>1. \A u \in 1..Tracks :
             /\ pos'[u] = saved[u].pos /\ on'[u] = saved[u].on
             /\ delay'[u] = IF u = t THEN song[t][saved[t].pos].delta ELSE saved[u].delay
      BY <2>3
    <3>2. AllStand(m, Turn)'
      BY <1>2, <2>1, <2>2, <2>7, <3>1 DEF AllStand, BackTo
    <3>3. BackTo(t, m)'
      BY <1>2, <2>1, <2>2, <2>4, <2>7 DEF BackTo
    <3>4. QED BY <3>2, <3>3
  <2>9. From(t, m)' /\ saved[t].pos \in Int /\ pos'[t] = saved[t].pos
    <3>1. saved[t].pos \in 2..pos[t] /\ pos'[t] = saved[t].pos /\ saved'[t].pos = saved[t].pos
      BY <2>1, <2>3, <2>4, <2>7 DEF From
    <3>2. saved'[t].pos \in 2..pos'[t] /\ saved[t].pos \in Int
      BY <2>1, <3>1
    <3>3. QED BY <1>2, <2>7, <3>1, <3>2 DEF From
  <2>10. Jumped(m)'
    <3>1. on'[t]
      BY <2>1, <2>3, <2>7
    <3>2. pos[t] \in pos'[t]..Len(song[t]) /\ song[t][pos[t]].kind = "songEnd"
      BY <1>4, <2>1, <2>7, <2>9 DEF From, Event
    <3>3. QED BY <1>2, <2>1, <2>2, <2>9, <3>1, <3>2 DEF Jumped
  <2>11. ASSUME LoopsLast(song), ~ended
         PROVE  \E c : /\ IsClock(c, m, t, saved[t].pos) /\ clock' = c
                       /\ \A u \in 1..Tracks : saved[u].clock = c
    <3>1. PICK c : IsClock(c, m, t, saved[t].pos) /\ \A u \in 1..Tracks : saved[u].clock = c
      BY <2>7, <2>11
    <3>2. ~timeSet
      <4>1. ASSUME timeSet PROVE FALSE
        <5>1. AllStand(n, Turn) /\ Jumped(n)
          BY <1>1, <2>1, <2>11, <4>1 DEF TickInv
        <5>2. QED BY <1>3, <1>4, <2>11, <5>1, JumpLasts
      <4>2. QED BY <4>1
    <3>3. first \in 1..Tracks
      <4>1. 1 \in 1..Tracks /\ \A v \in 1..Tracks : 1 <= v
        BY <2>1
      <4>2. QED BY <4>1
    <3>4. clock' = c
      <4> HIDE DEF first
      <4>1. QED BY <2>3, <3>1, <3>2, <3>3
    <3>5. QED BY <3>1, <3>4
  <2>12. LoopInv'
    <3>1. saved'[t].on
      BY <2>1, <2>4, <2>7
    <3>2. ASSUME LoopsLast(song), ~ended
          PROVE  \E c : /\ IsClock(c, m, t, saved[t].pos)'
                        /\ \A u \in 1..Tracks : saved'[u].clock = c
      <4>1. PICK c : IsClock(c, m, t, saved[t].pos) /\ \A u \in 1..Tracks : saved[u].clock = c
        BY <2>11, <3>2
      <4>2. IsClock(c, m, t, saved[t].pos)'
        BY <1>2, <2>1, <2>4, <4>1 DEF IsClock
      <4>3. QED BY <2>4, <4>1, <4>2
    <3>3. ASSUME NEW u \in 1..Tracks, Leads(song, u)
          PROVE  \E k \in Int :
                    /\ saved'[u].on /\ BackTo(u, k)' /\ From(u, k)'
                    /\ LoopsLast(song) /\ ~ended =>
                           \E c : /\ IsClock(c, k, u, saved[u].pos)'
                                  /\ \A v \in 1..Tracks : saved'[v].clock = c
      <4>1. u = t
        BY <2>5, <3>3
      <4>2. QED BY <2>8, <2>9, <3>1, <3>2, <4>1
    <3>4. QED BY <1>2, <2>2, <3>3 DEF LoopInv, IsClock
  <2>13. TickInv(m)'
    <3>1. ASSUME LoopsLast(song), ~ended PROVE IsClock(clock, m, Turn, pos[Turn])'
      <4>1. IsClock(clock', m, t, saved[t].pos)
        BY <2>11, <3>1
      <4>2. QED BY <1>2, <2>1, <2>2, <2>9, <4>1 DEF IsClock
    <3>2. QED BY <1>2, <2>8, <2>10, <3>1 DEF TickInv
  <2>14. /\ pos' = [u \in 1..Tracks' |-> pos'[u]] /\ delay' = [u \in 1..Tracks' |-> delay'[u]]
         /\ track' \in Nat /\ (at' = "idle" => track' = 1) /\ SongLoopsOnly(song')
    BY <1>2, <2>2, <2>3 DEF StepInv
  <2>15. QED BY <2>12, <2>13, <2>14 DEF StepInv
<1>7. QED BY <1>5, <1>6

\* Other events there are none.
LEMMA NoContexts ==
    ASSUME StepInv, NEW t, ContextEnd(t)
    PROVE  FALSE
<1>1. PICK n \in Int : TickInv(n)
  BY DEF StepInv
<1>2. EventDue(t) /\ Event(t).kind = "contextEnd"
  BY DEF ContextEnd
<1>3. TurnOf(t, n)
  BY <1>1, <1>2, TurnIs DEF TickInv
<1>4. QED BY <1>2, <1>3, SongNow DEF TurnOf, StepInv, SongLoopsOnly, Event

\* Of a song that is begun nothing else is needed.
LEMMA StepBegun ==
    ASSUME CountInv', NEW n \in Int, NEW s, Begun(s, n), SongLoopsOnly(song'),
           track' \in Nat, at' = "idle" => track' = 1
    PROVE  StepInv'
BY DEF StepInv, Begun

\* A track that has ended stays where it is in the turns that follow.
LEMMA StandsOff ==
    ASSUME NEW events, IsTrack(events), NEW u \in Int, NEW p, NEW d,
           NEW n \in Int, NEW k \in Int, NEW l \in Int, k <= l,
           Stands(events, u, p, d, FALSE, n, k)
    PROVE  Stands(events, u, p, d, FALSE, n, l)
<1>1. p \in 1..Len(events) /\ Len(events) \in Nat
  BY DEF Stands, IsTrack
<1>2. DueAt(events, p) \in Nat
  BY <1>1, DueNat
<1>3. u <= k => u <= l
  OBVIOUS
<1>4. QED BY <1>1, <1>2, <1>3 DEF Stands

\* The end of a track's turn.
LEMMA StepDone ==
    ASSUME StepInv, CountInv', TrackDone
    PROVE  StepInv'
<1>1. PICK n \in Int : TickInv(n)
  BY DEF StepInv
<1>2. /\ at \in {"service", "seek"} /\ track \in 1..Tracks
      /\ ~(on[track] /\ delay[track] = 0) /\ UNCHANGED <<song, at, timeSet>>
  BY DEF TrackDone
<1>3. /\ Turn = track /\ Turn' = track' /\ IsSong(song) /\ Tracks \in Nat
      /\ Tracks = Len(song) /\ Tracks' = Tracks
  BY <1>2, SongNow DEF Turn, Tracks
<1>4. \A u \in 1..Tracks :
         /\ u \in Int /\ IsTrack(song[u]) /\ on[u] \in BOOLEAN /\ pos[u] \in Int
         /\ Stands(song[u], u, pos[u], delay[u], on[u], n, track)
  <2>1. ASSUME NEW u \in 1..Tracks
        PROVE  /\ u \in Int /\ IsTrack(song[u]) /\ on[u] \in BOOLEAN /\ pos[u] \in Int
               /\ Stands(song[u], u, pos[u], delay[u], on[u], n, track)
    <3>1. u \in Int /\ IsTrack(song[u]) /\ on[u] \in BOOLEAN
      BY <1>3, SongNow DEF IsSong
    <3>2. Stands(song[u], u, pos[u], delay[u], on[u], n, track)
      BY <1>1, <1>3 DEF TickInv, AllStand
    <3>3. QED BY <3>1, <3>2 DEF Stands, IsTrack
  <2>2. QED BY <2>1
<1>5. activeTracks > 0 <=> TracksOn # {}
  <2>1. TracksOn \subseteq 1..Tracks /\ IsFiniteSet(1..Tracks)
    BY <1>3, FS_Interval DEF TracksOn
  <2>2. IsFiniteSet(TracksOn)
    BY <2>1, FS_Subset
  <2>3. Cardinality(TracksOn) \in Nat /\ (Cardinality(TracksOn) = 0 <=> TracksOn = {})
    BY <2>2, FS_CardinalityType, FS_EmptySet
  <2>4. activeTracks = Cardinality(TracksOn)
    BY DEF StepInv, CountInv, ActiveTracksCounted, TracksOn
  <2>5. QED BY <2>3, <2>4
<1>6. CASE activeTracks > 0 \/ at = "seek"
  <2>1. /\ delay' = [delay EXCEPT ![track] = IF on[track] THEN @ - 1 ELSE @]
        /\ track' = (IF activeTracks > 0 THEN track + 1 ELSE Tracks + 1)
        /\ UNCHANGED <<pos, on, saved, clock, ended>>
    BY <1>6 DEF TrackDone
  <2>2. delay = [u \in 1..Tracks |-> delay[u]]
    BY DEF StepInv
  <2>3. /\ delay' = [u \in 1..Tracks |-> delay'[u]]
        /\ \A u \in 1..Tracks :
              delay'[u] = IF u = track THEN IF on[u] THEN delay[u] - 1 ELSE delay[u]
                          ELSE delay[u]
    BY <1>2, <2>1, <2>2
  <2>4. ASSUME NEW u \in 1..Tracks
        PROVE  Stands(song[u], u, pos[u], delay'[u], on[u], n, track + 1)
    <3>1. /\ u \in Int /\ track \in Int /\ IsTrack(song[u]) /\ on[u] \in BOOLEAN
          /\ Stands(song[u], u, pos[u], delay[u], on[u], n, track)
      BY <1>2, <1>4
    <3>2. CASE u = track
      <4> DEFINE d == IF on[u] THEN delay[u] - 1 ELSE delay[u]
      <4>1. ~(on[u] /\ delay[u] = 0) /\ Stands(song[u], u, pos[u], delay[u], on[u], n, u)
        BY <1>2, <3>1, <3>2
      <4>2. Stands(song[u], u, pos[u], d, on[u], n, u + 1)
        BY <3>1, <4>1, StandsDone
      <4>3. delay'[u] = d
        BY <2>3, <3>2
      <4> HIDE DEF d
      <4>4. QED BY <3>2, <4>2, <4>3
    <3>3. CASE u # track
      <4>1. Stands(song[u], u, pos[u], delay[u], on[u], n, track + 1)
        BY <3>1, <3>3, StandsBy
      <4>2. QED BY <2>3, <3>3, <4>1
    <3>4. QED BY <3>2, <3>3
  <2>5. AllStand(n, Turn)'
    <3>1. CASE activeTracks > 0
      BY <1>2, <1>3, <2>1, <2>4, <3>1 DEF AllStand
    <3>2. CASE ~(activeTracks > 0)
      <4>1. track' = Tracks + 1 /\ track + 1 \in Int /\ Tracks + 1 \in Int
            /\ track + 1 <= Tracks + 1
        BY <1>2, <1>3, <2>1, <3>2
      <4>2. ASSUME NEW u \in 1..Tracks
            PROVE  Stands(song[u], u, pos[u], delay'[u], on[u], n, Tracks + 1)
        <5>1. on[u] = FALSE
          BY <1>4, <1>5, <3>2 DEF TracksOn
        <5>2. Stands(song[u], u, pos[u], delay'[u], FALSE, n, track + 1)
          BY <2>4, <5>1
        <5>3. IsTrack(song[u]) /\ u \in Int
          BY <1>4
        <5>4. Stands(song[u], u, pos[u], delay'[u], FALSE, n, Tracks + 1)
          BY <4>1, <5>2, <5>3, StandsOff
        <5>5. QED BY <5>1, <5>4
      <4>3. QED BY <1>2, <1>3, <2>1, <4>1, <4>2 DEF AllStand
    <3>3. QED BY <3>1, <3>2
  <2>6. LoopInv'
    <3>1. UNCHANGED <<song, saved>> /\ (ended' \/ ~ended)
          /\ \A u \in 1..Tracks : pos'[u] = pos[u] \/ pos'[u] = pos[u] + 1
      BY <1>2, <2>1
    <3>2. \A u \in 1..Tracks : pos[u] \in Int
      BY <1>4
    <3>3. QED BY <1>3, <3>1, <3>2, LoopRemains
  <2>7. ASSUME LoopsLast(song), timeSet PROVE Jumped(n)'
    <3>1. Turn # 0
      BY <1>2, <1>3
    <3>2. Jumped(n)
      BY <1>1, <2>7, <3>1 DEF TickInv
    <3>3. QED BY <1>2, <1>3, <2>1, <3>2 DEF Jumped, From
  <2>8. ASSUME LoopsLast(song), ~ended, TracksOn # {}
        PROVE  IsClock(clock, n, Turn, pos[Turn])'
    <3>1. PICK tempo : clock = Mid(song, tempo, n, track, pos[track]) /\ n \in Nat
      <4>1. IsClock(clock, n, Turn, pos[Turn])
        BY <1>1, <2>8 DEF TickInv
      <4>2. IsClock(clock, n, track, pos[track])
        BY <1>3, <4>1
      <4>3. QED BY <4>2 DEF IsClock
    <3>2. track' = track + 1 /\ Turn' = track + 1
      BY <1>3, <1>5, <2>1, <2>8
    <3>3. clock = Upto(song, tempo, n, track)
      <4>1. /\ track \in 1..Len(song) /\ on[track] \in BOOLEAN
            /\ Stands(song[track], track, pos[track], delay[track], on[track], n, track)
        BY <1>2, <1>3, <1>4
      <4>2. Mid(song, tempo, n, track, pos[track]) = Upto(song, tempo, n, track)
        BY <1>2, <1>3, <4>1, MidLeaves
      <4>3. QED BY <3>1, <4>2
    <3>4. Mid(song, tempo, n, track + 1, pos[track + 1]) = Upto(song, tempo, n, track)
      <4>1. CASE track = Tracks
        <5>1. track + 1 = Len(song) + 1 /\ Len(song) + 1 # 0 /\ track = Len(song)
          BY <1>3, <4>1
        <5>2. QED BY <5>1 DEF Mid, Upto
      <4>2. CASE track # Tracks
        <5>1. track \in 0..(Len(song) - 1) /\ track + 1 \in 1..Tracks
          BY <1>2, <1>3, <4>2
        <5>2. /\ on[track + 1] \in BOOLEAN
              /\ Stands(song[track + 1], track + 1, pos[track + 1], delay[track + 1],
                        on[track + 1], n, track)
          BY <1>4, <5>1
        <5>3. QED BY <1>3, <5>1, <5>2, MidEnters
      <4>3. QED BY <4>1, <4>2
    <3>5. clock' = Mid(song', tempo, n, Turn', pos'[Turn'])
      BY <1>2, <2>1, <3>2, <3>3, <3>4
    <3>6. QED BY <3>1, <3>5 DEF IsClock
  <2>9. TickInv(n)'
    <3>1. TracksOn' = TracksOn
      BY <1>3, <2>1 DEF TracksOn
    <3>2. QED BY <1>2, <2>1, <2>5, <2>7, <2>8, <3>1 DEF TickInv
  <2>10. /\ track' \in Nat /\ (at' = "idle" => track' = 1) /\ SongLoopsOnly(song')
         /\ pos' = [u \in 1..Tracks' |-> pos'[u]] /\ delay' = [u \in 1..Tracks' |-> delay'[u]]
    BY <1>2, <1>3, <2>1, <2>3 DEF StepInv
  <2>11. QED BY <2>6, <2>9, <2>10 DEF StepInv
<1>7. CASE ~(activeTracks > 0 \/ at = "seek")
  <2>1. /\ ResetTracks(song, clock.perTick) /\ track' = (IF loop THEN 1 ELSE Tracks + 1)
        /\ ended' = ~loop
    BY <1>7 DEF TrackDone
  <2>2. LoopsLast(song) => ~timeSet'
    <3>1. ASSUME LoopsLast(song), timeSet PROVE FALSE
      <4>1. Jumped(n)
        BY <1>1, <1>2, <1>3, <3>1 DEF TickInv
      <4>2. TracksOn # {}
        BY <4>1 DEF Jumped, TracksOn
      <4>3. QED BY <1>5, <1>7, <4>2
    <3>2. QED BY <1>2, <3>1
  <2>3. song \in Songs \cup {<<>>}
    BY DEF StepInv, CountInv, TracksInv
  <2>4. CASE loop
    <3>1. Turn' = 1
      BY <1>3, <2>1, <2>4
    <3>2. Begun(song, 0)
      BY <1>2, <2>1, <2>2, <2>3, <3>1, StepReset
    <3>3. track' \in Nat /\ at' # "idle" /\ SongLoopsOnly(song')
      BY <1>2, <1>3, <3>1 DEF StepInv
    <3>4. QED BY <3>2, <3>3, StepBegun
  <2>5. CASE ~loop
    <3>1. Turn' = Len(song) + 1 /\ Len(song) + 1 \in Nat
      BY <1>3, <2>1, <2>5
    <3>2. ended'
      BY <2>1, <2>5
    <3>3. Begun(song, -1)
      BY <1>2, <2>1, <2>2, <2>3, <3>1, <3>2, StepReset
    <3>4. track' \in Nat /\ at' # "idle" /\ SongLoopsOnly(song')
      BY <1>2, <1>3, <3>1 DEF StepInv
    <3>5. QED BY <3>3, <3>4, StepBegun
  <2>6. QED BY <2>4, <2>5
<1>8. QED BY <1>6, <1>7

\* The end of a tick.
LEMMA StepOver ==
    ASSUME StepInv, CountInv', at # "idle", track = Tracks + 1, Turn' = 0,
           clock' = AdvanceTick(clock), UNCHANGED <<song, pos, delay, on, saved, ended>>,
           track' \in Nat, at' = "idle" => track' = 1
    PROVE  StepInv'
<1>1. PICK n \in Int : TickInv(n)
  BY DEF StepInv
<1>2. /\ Turn = track /\ IsSong(song) /\ Tracks \in Nat /\ Tracks = Len(song)
      /\ Tracks' = Tracks /\ TracksOn' = TracksOn
  BY SongNow DEF Turn, Tracks, TracksOn
<1>3. AllStand(n + 1, Turn)'
  <2>1. ASSUME NEW u \in 1..Tracks
        PROVE  Stands(song[u], u, pos[u], delay[u], on[u], n + 1, 0)
    <3>1. /\ u \in Int /\ 0 < u /\ u < track /\ track \in Int /\ on[u] \in BOOLEAN
      BY <1>2, SongNow
    <3>2. Stands(song[u], u, pos[u], delay[u], on[u], n, track)
      BY <1>1, <1>2 DEF TickInv, AllStand
    <3>3. QED BY <3>1, <3>2, StandsNext
  <2>2. QED BY <1>2, <2>1 DEF AllStand
<1>4. LoopInv'
  <2>1. \A u \in 1..Tracks : pos[u] \in Int
    BY <1>1, <1>2 DEF TickInv, AllStand, Stands, IsSong, IsTrack
  <2>2. \A u \in 1..Tracks : pos'[u] = pos[u]
    OBVIOUS
  <2>3. QED BY <1>2, <2>1, <2>2, LoopRemains
<1>5. ASSUME LoopsLast(song), ~ended, TracksOn # {}
      PROVE  IsClock(clock, n + 1, Turn, pos[Turn])'
  <2>1. PICK tempo : clock = Mid(song, tempo, n, track, pos[track]) /\ n \in Nat
    <3>1. IsClock(clock, n, Turn, pos[Turn])
      BY <1>1, <1>5 DEF TickInv
    <3>2. IsClock(clock, n, track, pos[track])
      BY <1>2, <3>1
    <3>3. QED BY <3>2 DEF IsClock
  <2>2. clock = TracksPassed(song, Straight(song, n, tempo), n, Len(song))
    <3>1. track = Len(song) + 1 /\ track # 0
      BY <1>2
    <3>2. QED BY <2>1, <3>1 DEF Mid
  <2>3. clock' = Straight(song, n + 1, tempo) /\ n + 1 \in Nat
    BY <2>1, <2>2, StraightNext
  <2>4. clock' = Mid(song', tempo, n + 1, Turn', pos'[Turn'])
    BY <2>3 DEF Mid
  <2>5. QED BY <2>3, <2>4 DEF IsClock
<1>6. TickInv(n + 1)'
  BY <1>2, <1>3, <1>5 DEF TickInv
<1>7. /\ n + 1 \in Int /\ SongLoopsOnly(song')
      /\ pos' = [u \in 1..Tracks' |-> pos'[u]] /\ delay' = [u \in 1..Tracks' |-> delay'[u]]
  BY <1>2 DEF StepInv
<1>8. QED BY <1>4, <1>6, <1>7 DEF StepInv

\* What does not move the song.
LEMMA StepStay ==
    ASSUME StepInv, CountInv', Turn' = Turn, Turn = 0 \/ timeSet' = timeSet,
           UNCHANGED <<song, pos, delay, on, saved, clock, ended>>,
           track' \in Nat, at' = "idle" => track' = 1
    PROVE  StepInv'
<1>1. PICK n \in Int : TickInv(n)
  BY DEF StepInv
<1>2. Tracks' = Tracks /\ TracksOn' = TracksOn
  BY DEF Tracks, TracksOn
<1>3. LoopInv'
  <2>1. \A u \in 1..Tracks : pos[u] \in Int
    BY <1>1, SongNow DEF TickInv, AllStand, Stands, IsSong, IsTrack
  <2>2. \A u \in 1..Tracks : pos'[u] = pos[u]
    OBVIOUS
  <2>3. QED BY <1>2, <2>1, <2>2, LoopRemains
<1>4. AllStand(n, Turn)'
  BY <1>1, <1>2 DEF TickInv, AllStand
<1>5. LoopsLast(song) /\ timeSet' /\ Turn' # 0 => Jumped(n)'
  <2>1. SUFFICES ASSUME LoopsLast(song), timeSet', Turn' # 0 PROVE Jumped(n)'
    OBVIOUS
  <2>2. Jumped(n)
    BY <1>1, <2>1 DEF TickInv
  <2>3. QED BY <1>2, <2>2 DEF Jumped, From
<1>6. LoopsLast(song) /\ ~ended /\ TracksOn # {} => IsClock(clock, n, Turn, pos[Turn])'
  <2>1. SUFFICES ASSUME LoopsLast(song), ~ended, TracksOn # {}
                 PROVE  IsClock(clock, n, Turn, pos[Turn])'
    OBVIOUS
  <2>2. IsClock(clock, n, Turn, pos[Turn])
    BY <1>1, <2>1 DEF TickInv
  <2>3. QED BY <2>2 DEF IsClock
<1>7. TickInv(n)'
  BY <1>2, <1>4, <1>5, <1>6 DEF TickInv
<1>8. /\ SongLoopsOnly(song')
      /\ pos' = [u \in 1..Tracks' |-> pos'[u]] /\ delay' = [u \in 1..Tracks' |-> delay'[u]]
  BY <1>2 DEF StepInv
<1>9. QED BY <1>3, <1>7, <1>8 DEF StepInv

\* The beginning of a tick.
LEMMA StepBegin ==
    ASSUME StepInv, CountInv', Turn = 0, at' # "idle", track' = 1, ~timeSet',
           UNCHANGED <<song, pos, delay, on, saved, clock, ended>>
    PROVE  StepInv'
<1>1. PICK n \in Int : TickInv(n)
  BY DEF StepInv
<1>2. /\ Tracks' = Tracks /\ TracksOn' = TracksOn /\ Turn' = 1 /\ Tracks = Len(song)
      /\ IsSong(song) /\ Tracks \in Nat
  BY SongNow DEF Tracks, TracksOn, Turn
<1>3. LoopInv'
  <2>1. \A u \in 1..Tracks : pos[u] \in Int
    BY <1>1, SongNow DEF TickInv, AllStand, Stands, IsSong, IsTrack
  <2>2. \A u \in 1..Tracks : pos'[u] = pos[u]
    OBVIOUS
  <2>3. QED BY <1>2, <2>1, <2>2, LoopRemains
<1>4. \A u \in 1..Tracks : Stands(song[u], u, pos[u], delay[u], on[u], n, 0)
  BY <1>1 DEF TickInv, AllStand
<1>5. AllStand(n, Turn)'
  <2>1. ASSUME NEW u \in 1..Tracks
        PROVE  Stands(song[u], u, pos[u], delay[u], on[u], n, 1)
    <3>1. u \in Int /\ u # 0 /\ IsTrack(song[u]) /\ on[u] \in BOOLEAN
      BY <1>2, SongNow DEF IsSong
    <3>2. Stands(song[u], u, pos[u], delay[u], on[u], n, 0 + 1)
      BY <1>4, <3>1, StandsBy
    <3>3. QED BY <3>2
  <2>2. QED BY <1>2, <2>1 DEF AllStand
<1>6. ASSUME LoopsLast(song), ~ended, TracksOn # {}
      PROVE  IsClock(clock, n, Turn, pos[Turn])'
  <2>1. PICK tempo : clock = Mid(song, tempo, n, 0, pos[0]) /\ n \in Nat
    <3>1. IsClock(clock, n, Turn, pos[Turn])
      BY <1>1, <1>6 DEF TickInv
    <3>2. IsClock(clock, n, 0, pos[0])
      BY <3>1
    <3>3. QED BY <3>2 DEF IsClock
  <2>2. 1 \in 1..Tracks /\ 0 \in 0..(Len(song) - 1)
    BY <1>2, <1>6 DEF TracksOn
  <2>3. Mid(song, tempo, n, 1, pos[1]) = Upto(song, tempo, n, 0)
    <3>1. /\ on[0 + 1] \in BOOLEAN
          /\ Stands(song[0 + 1], 0 + 1, pos[0 + 1], delay[0 + 1], on[0 + 1], n, 0)
      BY <1>4, <2>2, SongNow
    <3>2. Mid(song, tempo, n, 0 + 1, pos[0 + 1]) = Upto(song, tempo, n, 0)
      BY <1>2, <2>2, <3>1, MidEnters
    <3>3. QED BY <3>2
  <2>4. Upto(song, tempo, n, 0) = Straight(song, n, tempo)
    BY <1>2, TracksPassedNext DEF Upto
  <2>5. clock = Straight(song, n, tempo)
    BY <2>1 DEF Mid
  <2>6. clock' = Mid(song', tempo, n, Turn', pos'[Turn'])
    BY <1>2, <2>3, <2>4, <2>5
  <2>7. QED BY <2>1, <2>6 DEF IsClock
<1>7. TickInv(n)'
  BY <1>2, <1>5, <1>6 DEF TickInv
<1>8. /\ SongLoopsOnly(song') /\ track' \in Nat /\ (at' = "idle" => track' = 1)
      /\ pos' = [u \in 1..Tracks' |-> pos'[u]] /\ delay' = [u \in 1..Tracks' |-> delay'[u]]
  BY <1>2 DEF StepInv
<1>9. QED BY <1>3, <1>7, <1>8 DEF StepInv

\* Every step of a song that is played on.
LEMMA StepTrack ==
    ASSUME StepInv, CountInv', track' \in Nat, at' = "idle" => track' = 1, TrackStep
    PROVE  StepInv'
<1>1. CASE \E t \in 1..Tracks : PlayEvent(t) \/ SkipEvent(t) \/ EndOfTrack(t) \/ LoopStart(t)
                                \/ LoopEnd(t) \/ ContextEnd(t)
  BY <1>1, StepNote, StepEnd, StepStart, StepBack, NoContexts
<1>2. CASE TrackDone
  BY <1>2, StepDone
<1>3. CASE ServiceDone
  <2>1. /\ at # "idle" /\ track = Tracks + 1 /\ clock' = AdvanceTick(clock) /\ at' = "idle"
        /\ UNCHANGED <<song, pos, delay, on, saved, ended>>
    BY <1>3 DEF ServiceDone, flags, tracks
  <2>2. QED BY <2>1, StepOver DEF Turn
<1>4. CASE SeekDone
  <2>1. at # "idle" /\ track = Tracks + 1 /\ UNCHANGED <<song, ended>>
    BY <1>4 DEF SeekDone
  <2>2. CASE ~timeSet /\ activeTracks = 0
    <3>1. ResetTracks(song, clock.perTick) /\ at' = "idle"
      BY <1>4, <2>2 DEF SeekDone
    <3>2. Turn' = 0 /\ song \in Songs \cup {<<>>}
      BY <3>1 DEF Turn, StepInv, CountInv, TracksInv
    <3>3. Begun(song, 0)
      BY <2>1, <3>1, <3>2, StepReset
    <3>4. SongLoopsOnly(song')
      BY <2>1 DEF StepInv
    <3>5. QED BY <3>3, <3>4, StepBegun
  <2>3. CASE ~(~timeSet /\ activeTracks = 0)
    <3>1. /\ clock' = AdvanceTick(clock) /\ UNCHANGED <<pos, delay, on, saved>>
          /\ at' = (IF timeSet THEN "idle" ELSE "seek") /\ track' = (IF timeSet THEN 1 ELSE 0)
      BY <1>4, <2>3 DEF SeekDone, tracks
    <3>2. Turn' = 0
      BY <3>1 DEF Turn
    <3>3. QED BY <2>1, <3>1, <3>2, StepOver
  <2>4. QED BY <2>2, <2>3
<1>5. CASE SeekTest
  <2>1. /\ at = "seek" /\ track = 0 /\ track' = 1 /\ Turn = 0
        /\ UNCHANGED <<song, pos, delay, on, saved, clock, ended>>
    BY <1>5 DEF SeekTest, tracks, Turn
  <2>2. CASE Value(goal, clock, position) < goal.value
    <3>1. timeSet' = FALSE /\ at' # "idle"
      BY <1>5, <2>1, <2>2 DEF SeekTest
    <3>2. QED BY <2>1, <3>1, StepBegin
  <2>3. CASE ~(Value(goal, clock, position) < goal.value)
    <3>1. at' = "idle"
      BY <1>5, <2>3 DEF SeekTest
    <3>2. Turn' = Turn
      BY <2>1, <3>1 DEF Turn
    <3>3. QED BY <2>1, <3>2, StepStay
  <2>4. QED BY <2>2, <2>3
<1>6. QED BY <1>1, <1>2, <1>3, <1>4, <1>5 DEF TrackStep

\* The calls with which the program moves the song.
LEMMA StepSet ==
    ASSUME StepInv, CountInv', track' \in Nat, at' = "idle" => track' = 1, NEW g, SetSong(g)
    PROVE  StepInv'
<1>1. /\ at = "idle" /\ at' = "seek" /\ track' = 0 /\ UNCHANGED <<song, timeSet, ended>>
  BY DEF SetSong
<1>2. Turn = 0 /\ Turn' = 0
  BY <1>1 DEF Turn
<1>3. CASE ResetTracks(song, clock.perTick)
  <2>1. song \in Songs \cup {<<>>}
    BY DEF StepInv, CountInv, TracksInv
  <2>2. Begun(song, 0)
    BY <1>1, <1>2, <1>3, <2>1, StepReset
  <2>3. SongLoopsOnly(song')
    BY <1>1 DEF StepInv
  <2>4. QED BY <2>2, <2>3, StepBegun
<1>4. CASE UNCHANGED <<tracks, clock, position>>
  <2>1. UNCHANGED <<pos, delay, on, saved, clock>>
    BY <1>4 DEF tracks
  <2>2. QED BY <1>1, <1>2, <2>1, StepStay
<1>5. QED BY <1>3, <1>4 DEF SetSong

\* The other calls, and the interrupt.
LEMMA StepCall ==
    ASSUME StepInv, CountInv', track' \in Nat, at' = "idle" => track' = 1,
           Tick \/ StopSong \/ PauseSong \/ ContinueSong
                \/ (\E flag : SetLoopFlag(flag)) \/ \E k : SetContext(k)
    PROVE  StepInv'
<1>1. CASE Tick
  <2>1. /\ at = "idle" /\ at' = "service" /\ track' = 1 /\ timeSet' = FALSE
        /\ UNCHANGED <<song, pos, delay, on, saved, clock, ended>>
    BY <1>1 DEF Tick, flags, tracks
  <2>2. Turn = 0
    BY <2>1 DEF Turn
  <2>3. QED BY <2>1, <2>2, StepBegin
<1>2. CASE StopSong
  <2>1. /\ at = "idle" /\ ResetTracks(song, clock.perTick)
        /\ UNCHANGED <<song, at, timeSet, ended>>
    BY <1>2 DEF StopSong, run
  <2>2. Turn' = 0 /\ song \in Songs \cup {<<>>}
    BY <2>1 DEF Turn, StepInv, CountInv, TracksInv
  <2>3. Begun(song, 0)
    BY <2>1, <2>2, StepReset
  <2>4. SongLoopsOnly(song')
    BY <2>1 DEF StepInv
  <2>5. QED BY <2>3, <2>4, StepBegun
<1>3. CASE PauseSong \/ ContinueSong \/ (\E flag : SetLoopFlag(flag)) \/ \E k : SetContext(k)
  <2>1. UNCHANGED <<song, pos, delay, on, saved, clock, ended, at, track, timeSet>>
    BY <1>3 DEF PauseSong, ContinueSong, SetLoopFlag, SetContext, flags, tracks, run
  <2>2. Turn' = Turn
    BY <2>1 DEF Turn
  <2>3. QED BY <2>1, <2>2, StepStay
<1>4. QED BY <1>1, <1>2, <1>3

-----------------------------------------------------------------------------
(* The invariant of any songs.                                             *)

\* The song, if it is looped as a whole only, is where StepInv says.
SongInv ==
    /\ CountInv
    /\ track \in Nat /\ (at = "idle" => track = 1)
    /\ SongLoopsOnly(song) => StepInv

\* A turn is a number, and the first one is next when the service comes.
LEMMA TurnStep ==
    ASSUME CountInv, track \in Nat, at = "idle" => track = 1, [Next]_vars
    PROVE  track' \in Nat /\ (at' = "idle" => track' = 1)
<1>1. CASE UNCHANGED <<at, track>>
  BY <1>1
<1>2. CASE TrackDone
  <2>1. song \in Songs \cup {<<>>} /\ at' = at /\ at # "idle" /\ track \in 1..Tracks
        /\ (track' = track + 1 \/ track' = Tracks + 1 \/ track' = 1)
    BY <1>2 DEF TrackDone, CountInv, TracksInv
  <2>2. Tracks \in Nat
    BY <2>1, SongIs DEF Tracks, IsSong
  <2>3. QED BY <2>1, <2>2
<1>3. CASE ServiceDone \/ SeekDone \/ SeekTest \/ Tick
  BY <1>3 DEF ServiceDone, SeekDone, SeekTest, Tick
<1>4. ASSUME NEW g, SetSong(g) PROVE track' \in Nat /\ (at' = "idle" => track' = 1)
  BY <1>4 DEF SetSong
<1>5. CASE TrackStep
  <2>1. ASSUME NEW t, PlayEvent(t) \/ SkipEvent(t) \/ EndOfTrack(t) \/ LoopStart(t)
                      \/ LoopEnd(t) \/ ContextEnd(t)
        PROVE  UNCHANGED <<at, track>>
    BY <2>1 DEF PlayEvent, SkipEvent, Pass, EndOfTrack, LoopStart, LoopEnd, ContextEnd, run
  <2>2. QED BY <1>1, <1>2, <1>3, <1>5, <2>1 DEF TrackStep
<1>6. CASE Call
  <2>1. ASSUME NEW s, NEW flag, PlaySong(s, flag) PROVE UNCHANGED <<at, track>>
    BY <2>1 DEF PlaySong, run
  <2>2. CASE StopSong \/ PauseSong \/ ContinueSong \/ (\E flag : SetLoopFlag(flag))
             \/ \E k : SetContext(k)
    BY <1>1, <2>2 DEF StopSong, PauseSong, ContinueSong, SetLoopFlag, SetContext, run
  <2>3. QED
    BY <1>1, <1>4, <1>6, <2>1, <2>2
       DEF Call, MIDI_SetSongTick, MIDI_SetSongTime, MIDI_SetSongPosition
<1>7. CASE UNCHANGED vars
  BY <1>1, <1>7 DEF vars, run
<1>8. QED BY <1>3, <1>5, <1>6, <1>7 DEF Next

\* MIDI has no song yet.
LEMMA SongInit == Init => SongInv
<1> SUFFICES ASSUME Init PROVE SongInv
  OBVIOUS
<1>1. /\ song = <<>> /\ pos = <<>> /\ delay = <<>> /\ at = "idle" /\ track = 1
      /\ ~loaded /\ timeSet = FALSE /\ Tracks = 0 /\ 1..Tracks = {}
  BY DEF Init, Tracks
<1>2. pos = [u \in 1..Tracks |-> pos[u]] /\ delay = [u \in 1..Tracks |-> delay[u]]
  BY <1>1
<1>3. LoopInv
  BY <1>1 DEF LoopInv
<1>4. TickInv(0)
  BY <1>1 DEF TickInv, AllStand, TracksOn, Turn
<1>5. SongLoopsOnly(song)
  BY <1>1 DEF SongLoopsOnly, Leads
<1>6. CountInv
  BY CountInit
<1>7. QED BY <1>1, <1>2, <1>3, <1>4, <1>5, <1>6 DEF SongInv, StepInv

\* Every step keeps the song in its place.
LEMMA SongStep == SongInv /\ [Next]_vars => SongInv'
<1> SUFFICES ASSUME SongInv, [Next]_vars PROVE SongInv'
  OBVIOUS
<1>1. CountInv' /\ CountInv
  BY CountStep DEF SongInv
<1>2. track' \in Nat /\ (at' = "idle" => track' = 1)
  BY <1>1, TurnStep DEF SongInv
<1>3. SUFFICES ASSUME SongLoopsOnly(song') PROVE StepInv'
  BY <1>1, <1>2 DEF SongInv
<1>4. ASSUME NEW s \in Songs, NEW flag \in BOOLEAN, PlaySong(s, flag) PROVE StepInv'
  <2>1. song' = s /\ ResetTracks(s, 1) /\ at' = "idle"
    BY <1>4 DEF PlaySong, run
  <2>2. Turn' = 0
    BY <2>1 DEF Turn
  <2>3. Begun(s, 0)
    BY <2>1, <2>2, StepReset
  <2>4. QED BY <1>1, <1>2, <1>3, <2>3, StepBegun
<1>5. ASSUME song' = song PROVE StepInv
  BY <1>3, <1>5 DEF SongInv
<1>6. CASE TrackStep
  <2>1. song' = song
    BY <1>6 DEF TrackStep, PlayEvent, SkipEvent, Pass, EndOfTrack, LoopStart, LoopEnd,
                ContextEnd, TrackDone, ServiceDone, SeekDone, SeekTest, flags
  <2>2. QED BY <1>1, <1>2, <1>5, <1>6, <2>1, StepTrack
<1>7. CASE Tick \/ StopSong \/ PauseSong \/ ContinueSong
           \/ (\E flag : SetLoopFlag(flag)) \/ \E k : SetContext(k)
  <2>1. song' = song
    BY <1>7 DEF Tick, StopSong, PauseSong, ContinueSong, SetLoopFlag, SetContext, flags
  <2>2. QED BY <1>1, <1>2, <1>5, <1>7, <2>1, StepCall
<1>8. ASSUME NEW g, SetSong(g) PROVE StepInv'
  <2>1. song' = song
    BY <1>8 DEF SetSong
  <2>2. QED BY <1>1, <1>2, <1>5, <1>8, <2>1, StepSet
<1>9. CASE Call
  BY <1>4, <1>7, <1>8, <1>9
     DEF Call, MIDI_SetSongTick, MIDI_SetSongTime, MIDI_SetSongPosition
<1>10. CASE UNCHANGED vars
  <2>1. UNCHANGED <<song, pos, delay, on, saved, clock, ended, at, track, timeSet>>
    BY <1>10 DEF vars, flags, tracks, run
  <2>2. Turn' = Turn /\ StepInv
    BY <1>5, <2>1 DEF Turn
  <2>3. QED BY <1>1, <1>2, <2>1, <2>2, StepStay
<1>11. QED BY <1>6, <1>7, <1>9, <1>10 DEF Next

\* Between ticks the tracks of a song are at the same tick of it, wherever loops, restarts
\* and seeks have taken it: any song that has no loops but those of all its tracks, and no
\* contexts.
THEOREM SongInStep == Spec => [](SongLoopsOnly(song) => TracksInStep)
<1>1. ASSUME SongInv, SongLoopsOnly(song) PROVE TracksInStep
  <2>1. StepInv
    BY <1>1 DEF SongInv
  <2>2. PICK n \in Int : TickInv(n)
    BY <2>1 DEF StepInv
  <2>3. ASSUME at = "idle", NEW u \in 1..Tracks, on[u] PROVE Elapsed(u) = n
    <3>1. Turn = 0
      BY <2>3 DEF Turn
    <3>2. Stands(song[u], u, pos[u], delay[u], on[u], n, 0)
      BY <2>2, <3>1 DEF TickInv, AllStand
    <3>3. ~(u < 0)
      BY <2>1, SongNow
    <3>4. QED BY <2>3, <3>2, <3>3 DEF Stands, Elapsed
  <2>4. QED BY <2>3 DEF TracksInStep
<1>2. QED BY <1>1, SongInit, SongStep, PTL DEF Spec

-----------------------------------------------------------------------------
(* The tempo a song begins with, which it replaces in its first tick.      *)

\* A clock c of another tempo.
AtTempo(c, p) ==
    [time |-> c.time, perTick |-> p, tick |-> c.tick, beat |-> c.beat, measure |-> c.measure,
     beats |-> c.beats, ticks |-> c.ticks]

\* Clocks that differ in nothing but the tempo.
Alike(c, d) == \E x, p, q : c = AtTempo(x, p) /\ d = AtTempo(x, q)

\* An event keeps them alike, and a tempo makes them the same.
LEMMA TimedAlike ==
    ASSUME NEW c, NEW d, Alike(c, d), NEW e
    PROVE  /\ Alike(Timed(c, e), Timed(d, e))
           /\ e.kind = "tempo" => Timed(c, e) = Timed(d, e)
<1>1. PICK x, p, q : c = AtTempo(x, p) /\ d = AtTempo(x, q)
  BY DEF Alike
<1>2. CASE e.kind = "tempo"
  <2>1. Timed(c, e) = AtTempo(x, e.value) /\ Timed(d, e) = AtTempo(x, e.value)
    BY <1>1, <1>2 DEF Timed, AtTempo
  <2>2. QED BY <2>1 DEF Alike
<1>3. CASE e.kind = "meter"
  <2> DEFINE m == IF x.tick > 0 \/ x.beat > 1 THEN x.measure + 1 ELSE x.measure
             y == [time |-> x.time, tick |-> 0, beat |-> 1, measure |-> m,
                   beats |-> e.value[1], ticks |-> e.value[2]]
  <2>1. Timed(c, e) = AtTempo(y, p) /\ Timed(d, e) = AtTempo(y, q)
    BY <1>1, <1>3 DEF Timed, AtTempo
  <2> HIDE DEF y
  <2>2. QED BY <1>3, <2>1 DEF Alike
<1>4. CASE e.kind \notin {"tempo", "meter"}
  <2>1. Timed(c, e) = c /\ Timed(d, e) = d
    BY <1>4 DEF Timed
  <2>2. QED BY <1>4, <2>1
<1>5. QED BY <1>2, <1>3, <1>4

\* A track has a tempo in tick m.
HasTempo(events, m) ==
    \E i \in 1..Len(events) : DueAt(events, i) = m /\ events[i].kind = "tempo"

\* So do the events of a track.
LEMMA PassedAlike ==
    ASSUME NEW c, NEW d, Alike(c, d), NEW events, Len(events) \in Nat, NEW m
    PROVE  /\ Alike(EventsPassed(c, events, m, Len(events)),
                    EventsPassed(d, events, m, Len(events)))
           /\ HasTempo(events, m) => EventsPassed(c, events, m, Len(events))
                                         = EventsPassed(d, events, m, Len(events))
<1> DEFINE n == Len(events)
           P(i) == EventsPassed(c, events, m, i)
           Q(i) == EventsPassed(d, events, m, i)
           Had(i) == \E j \in 1..i : DueAt(events, j) = m /\ events[j].kind = "tempo"
           S == {i \in Nat : i \in 0..n => Alike(P(i), Q(i)) /\ (Had(i) => P(i) = Q(i))}
<1>1. 0 \in S
  <2>1. P(0) = c /\ Q(0) = d
    BY PassedNext
  <2>2. ~Had(0)
    OBVIOUS
  <2> HIDE DEF P, Q, Had
  <2>3. QED BY <2>1, <2>2
<1>2. ASSUME NEW i \in Nat, i \in S PROVE i + 1 \in S
  <2> DEFINE j == i + 1
             e == events[j]
             Due == DueAt(events, j) = m
  <2>1. SUFFICES ASSUME j \in 0..n
                 PROVE  Alike(P(j), Q(j)) /\ (Had(j) => P(j) = Q(j))
    <3> HIDE DEF P, Q, Had
    <3>1. QED OBVIOUS
  <2>2. i \in 0..n /\ j \in 1..n /\ j - 1 = i
    BY <2>1
  <2>3. Alike(P(i), Q(i)) /\ (Had(i) => P(i) = Q(i))
    <3> HIDE DEF P, Q, Had
    <3>1. QED BY <1>2, <2>2
  <2>4. /\ P(j) = IF Due THEN Timed(P(j - 1), e) ELSE P(j - 1)
        /\ Q(j) = IF Due THEN Timed(Q(j - 1), e) ELSE Q(j - 1)
    <3>1. \A k \in 1..n : P(k) = IF DueAt(events, k) = m
                                 THEN Timed(P(k - 1), events[k]) ELSE P(k - 1)
      BY PassedNext
    <3>2. \A k \in 1..n : Q(k) = IF DueAt(events, k) = m
                                 THEN Timed(Q(k - 1), events[k]) ELSE Q(k - 1)
      BY PassedNext
    <3> HIDE DEF P, Q, j
    <3>3. QED BY <2>2, <3>1, <3>2
  <2>5. /\ P(j) = IF Due THEN Timed(P(i), e) ELSE P(i)
        /\ Q(j) = IF Due THEN Timed(Q(i), e) ELSE Q(i)
    <3> HIDE DEF P, Q, Due, j, e
    <3>1. QED BY <2>2, <2>4
  <2>6. Had(j) => Had(i) \/ (Due /\ e.kind = "tempo")
    <3>1. \A l \in 1..j : l \in 1..i \/ l = j
      BY <2>2
    <3> HIDE DEF j
    <3>2. QED BY <3>1
  <2> HIDE DEF P, Q, Had, Due, e, j
  <2>7. /\ Alike(Timed(P(i), e), Timed(Q(i), e))
        /\ e.kind = "tempo" => Timed(P(i), e) = Timed(Q(i), e)
    BY <2>3, TimedAlike
  <2>8. QED BY <2>3, <2>5, <2>6, <2>7
<1>3. \A i \in Nat : i \in S
  <2> HIDE DEF S
  <2>1. QED BY <1>1, <1>2, AllNumbers
<1>4. Alike(P(n), Q(n)) /\ (Had(n) => P(n) = Q(n))
  <2> HIDE DEF P, Q, Had
  <2>1. n \in S /\ n \in 0..n
    BY <1>3
  <2>2. QED BY <2>1
<1>5. QED BY <1>4 DEF HasTempo

\* And those of a song.
LEMMA TracksAlike ==
    ASSUME NEW s, IsSong(s), NEW c, NEW d, Alike(c, d), NEW m,
           \E t \in 1..Len(s) : Included(s[t]) /\ HasTempo(s[t], m)
    PROVE  TracksPassed(s, c, m, Len(s)) = TracksPassed(s, d, m, Len(s))
<1>00. \A x : \A t \in 1..Len(s) :
           TracksPassed(s, x, m, t) =
               IF Included(s[t])
               THEN EventsPassed(TracksPassed(s, x, m, t - 1), s[t], m, Len(s[t]))
               ELSE TracksPassed(s, x, m, t - 1)
  BY EachTrack DEF IsSong
<1> DEFINE n == Len(s)
           P(t) == TracksPassed(s, c, m, t)
           Q(t) == TracksPassed(s, d, m, t)
           Had(t) == \E u \in 1..t : Included(s[u]) /\ HasTempo(s[u], m)
           S == {t \in Nat : t \in 0..n => Alike(P(t), Q(t)) /\ (Had(t) => P(t) = Q(t))}
<1>0. n \in Nat
  BY DEF IsSong
<1>1. 0 \in S
  <2>1. P(0) = c /\ Q(0) = d
    BY <1>0, TracksPassedNext
  <2>2. ~Had(0)
    OBVIOUS
  <2> HIDE DEF P, Q, Had
  <2>3. QED BY <2>1, <2>2
<1>2. ASSUME NEW i \in Nat, i \in S PROVE i + 1 \in S
  <2> DEFINE j == i + 1
             e == s[j]
             On == Included(e)
             F(x) == EventsPassed(x, e, m, Len(e))
  <2>1. SUFFICES ASSUME j \in 0..n
                 PROVE  Alike(P(j), Q(j)) /\ (Had(j) => P(j) = Q(j))
    <3> HIDE DEF P, Q, Had
    <3>1. QED OBVIOUS
  <2>2. i \in 0..n /\ j \in 1..n /\ j - 1 = i
    BY <1>0, <2>1
  <2>3. Alike(P(i), Q(i)) /\ (Had(i) => P(i) = Q(i))
    <3> HIDE DEF P, Q, Had
    <3>1. QED BY <1>2, <2>2
  <2>4. /\ P(j) = IF On THEN F(P(j - 1)) ELSE P(j - 1)
        /\ Q(j) = IF On THEN F(Q(j - 1)) ELSE Q(j - 1)
    <3>1. \A k \in 1..n : P(k) = IF Included(s[k])
                                 THEN EventsPassed(P(k - 1), s[k], m, Len(s[k])) ELSE P(k - 1)
      BY <1>00
    <3>2. \A k \in 1..n : Q(k) = IF Included(s[k])
                                 THEN EventsPassed(Q(k - 1), s[k], m, Len(s[k])) ELSE Q(k - 1)
      BY <1>00
    <3> HIDE DEF P, Q, j
    <3>3. QED BY <2>2, <3>1, <3>2
  <2>5. /\ P(j) = IF On THEN F(P(i)) ELSE P(i)
        /\ Q(j) = IF On THEN F(Q(i)) ELSE Q(i)
    <3> HIDE DEF P, Q, On, j, F
    <3>1. QED BY <2>2, <2>4
  <2>6. Had(j) => Had(i) \/ (On /\ HasTempo(e, m))
    <3>1. \A l \in 1..j : l \in 1..i \/ l = j
      BY <2>2
    <3> HIDE DEF j
    <3>2. QED BY <3>1
  <2>7. Len(e) \in Nat
    BY <2>2 DEF IsSong, IsTrack
  <2> HIDE DEF P, Q, Had, On, e, j
  <2>8. Alike(F(P(i)), F(Q(i))) /\ (HasTempo(e, m) => F(P(i)) = F(Q(i)))
    BY <2>3, <2>7, PassedAlike
  <2> HIDE DEF F
  <2>9. QED BY <2>3, <2>5, <2>6, <2>8
<1>3. \A t \in Nat : t \in S
  <2> HIDE DEF S
  <2>1. QED BY <1>1, <1>2, AllNumbers
<1>4. Alike(P(n), Q(n)) /\ (Had(n) => P(n) = Q(n))
  <2> HIDE DEF P, Q, Had
  <2>1. n \in S /\ n \in 0..n
    BY <1>0, <1>3
  <2>2. QED BY <2>1
<1>5. QED BY <1>4

\* The song has a tempo of its own from its first tick on, as most have.
TempoFirst(s) == \E t \in 1..Len(s) : Included(s[t]) /\ HasTempo(s[t], 0)

\* Then it does not matter which one it began with.
LEMMA OneTempo ==
    ASSUME NEW s, IsSong(s), TempoFirst(s), NEW p, NEW q
    PROVE  \A n \in Nat : n = 0 \/ Straight(s, n, p) = Straight(s, n, q)
<1> DEFINE S == {n \in Nat : n = 0 \/ Straight(s, n, p) = Straight(s, n, q)}
<1>1. 0 \in S
  OBVIOUS
<1>2. ASSUME NEW n \in Nat, n \in S PROVE n + 1 \in S
  <2>1. /\ Straight(s, n + 1, p) =
               AdvanceTick(TracksPassed(s, Straight(s, n, p), n, Len(s)))
        /\ Straight(s, n + 1, q) =
               AdvanceTick(TracksPassed(s, Straight(s, n, q), n, Len(s)))
    BY StraightNext
  <2>2. CASE n = 0
    <3>1. Straight(s, 0, p) = Start(p) /\ Straight(s, 0, q) = Start(q)
      BY StraightNext
    <3>2. Alike(Start(p), Start(q))
      <4>1. Start(p) = AtTempo(Start(0), p) /\ Start(q) = AtTempo(Start(0), q)
        BY DEF Start, AtTempo
      <4>2. QED BY <4>1 DEF Alike
    <3>3. TracksPassed(s, Start(p), 0, Len(s)) = TracksPassed(s, Start(q), 0, Len(s))
      BY <3>2, TracksAlike DEF TempoFirst
    <3>4. QED BY <2>1, <2>2, <3>1, <3>3
  <2>3. CASE n # 0
    BY <1>2, <2>1, <2>3
  <2>4. QED BY <2>2, <2>3
<1>3. \A n \in Nat : n \in S
  <2> HIDE DEF S
  <2>1. QED BY <1>1, <1>2, AllNumbers
<1>4. QED BY <1>3

\* The time and the musical position of a song are those of the place it is at, as if it
\* had been played straight to there: any song that is looped as a whole only, in loops
\* that are not empty, and that has a tempo of its own from its first tick on.
THEOREM SongClockRight ==
    Spec => [](SongLoopsOnly(song) /\ LoopsLast(song) /\ TempoFirst(song) => ClockRight)
<1>1. ASSUME SongInv, SongLoopsOnly(song), LoopsLast(song), TempoFirst(song)
      PROVE  ClockRight
  <2>1. StepInv
    BY <1>1 DEF SongInv
  <2>2. PICK n \in Int : TickInv(n)
    BY <2>1 DEF StepInv
  <2>3. ASSUME at = "idle", ~ended, NEW u \in 1..Tracks, on[u]
        PROVE  Elapsed(u) = 0 \/ clock = Straight(song, Elapsed(u), 1)
    <3>1. Turn = 0 /\ TracksOn # {}
      BY <2>3 DEF Turn, TracksOn
    <3>2. Elapsed(u) = n
      <4>1. Stands(song[u], u, pos[u], delay[u], on[u], n, 0)
        BY <2>2, <3>1 DEF TickInv, AllStand
      <4>2. ~(u < 0)
        BY <2>1, SongNow
      <4>3. QED BY <2>3, <4>1, <4>2 DEF Stands, Elapsed
    <3>3. IsClock(clock, n, 0, pos[0])
      <4>1. IsClock(clock, n, Turn, pos[Turn])
        BY <1>1, <2>2, <2>3, <3>1 DEF TickInv
      <4>2. QED BY <3>1, <4>1
    <3>4. PICK tempo : clock = Straight(song, n, tempo) /\ n \in Nat
      BY <3>3 DEF IsClock, Mid
    <3>5. n = 0 \/ Straight(song, n, tempo) = Straight(song, n, 1)
      BY <1>1, <2>1, <3>4, OneTempo, SongNow
    <3>6. QED BY <3>2, <3>4, <3>5
  <2>4. QED BY <2>3 DEF ClockRight
<1>2. QED BY <1>1, SongInit, SongStep, PTL DEF Spec

-----------------------------------------------------------------------------
(* The lists of the voices, as rows.                                       *)

\* The lists, and what is no voice.
K == Channels \cup {Pool}
Nil == 2 * NumVoices

\* The list k of l is the row c of n voices, from its start and from its end.
InRow(l, k, n, c) ==
    /\ n \in Nat /\ c \in [1..n -> Voices]
    /\ \A i, j \in 1..n : c[i] = c[j] => i = j
    /\ n = 0 => l.start[k] = Nil /\ l.end[k] = Nil
    /\ n > 0 => /\ l.start[k] = c[1] /\ l.end[k] = c[n]
                /\ l.prev[c[1]] = Nil /\ l.next[c[n]] = Nil
    /\ \A i \in 1..(n - 1) : l.next[c[i]] = c[i + 1] /\ l.prev[c[i + 1]] = c[i]

\* All lists are such rows, and no voice is in two of them.
Apart(n, c) ==
    \A k, m \in K : \A i \in 1..n[k] : \A j \in 1..n[m] : c[k][i] = c[m][j] => k = m

\* The lists have their fields.
IsLists(l) ==
    /\ l = [start |-> l.start, end |-> l.end, next |-> l.next, prev |-> l.prev]
    /\ DOMAIN l.start = K /\ DOMAIN l.end = K
    /\ DOMAIN l.next = Voices /\ DOMAIN l.prev = Voices

\* The lists are rows: list k has the n[k] voices c[k].
Rows(l, n, c) ==
    /\ IsLists(l)
    /\ n \in [K -> Nat] /\ DOMAIN c = K
    /\ \A k \in K : InRow(l, k, n[k], c[k])
    /\ Apart(n, c)

\* A voice is not Nil, and there are Nil voices.
LEMMA VoicesCounted ==
    /\ Nil \in Nat /\ Nil \notin Voices
    /\ Cardinality(Voices) = Nil /\ IsFiniteSet(Voices)
<1>1. Nil \in Nat /\ Voices = 0..(Nil - 1) /\ 0 \in Int /\ Nil - 1 \in Int
  BY AlAssumption DEF Nil, Voices
<1>2. /\ IsFiniteSet(0..(Nil - 1))
      /\ Cardinality(0..(Nil - 1)) = IF 0 > Nil - 1 THEN 0 ELSE (Nil - 1) - 0 + 1
  BY <1>1, FS_Interval
<1>3. QED BY <1>1, <1>2

\* NullList counts as everybody does.
LEMMA Counts == \A S : Lists!Cardinality(S) = Cardinality(S)
BY DEF Lists!Cardinality, Cardinality, Lists!IsFiniteSet, IsFiniteSet

\* A row is no longer than there are voices.
LEMMA RowFits ==
    ASSUME NEW n \in Nat, NEW c \in [1..n -> Voices], \A i, j \in 1..n : c[i] = c[j] => i = j
    PROVE  n <= Nil
<1>1. IsFiniteSet(1..n) /\ Cardinality(1..n) = n
  <2>1. IsFiniteSet(1..n) /\ Cardinality(1..n) = IF 1 > n THEN 0 ELSE n - 1 + 1
    BY FS_Interval
  <2>2. QED BY <2>1
<1>2. c \in Injection(1..n, Voices)
  BY DEF Injection, IsInjective
<1>3. Cardinality(1..n) <= Cardinality(Voices)
  BY <1>2, VoicesCounted, FS_Injection
<1>4. QED BY <1>1, <1>3, VoicesCounted

\* From its start on a list has the nodes of its row.
LEMMA RowNodes ==
    ASSUME NEW l, NEW k, NEW n, NEW c, InRow(l, k, n, c)
    PROVE  Lists!Nodes(l, k) = c
<1> DEFINE D == 1..Nil
           W(f) == [i \in D |-> IF i = 1 THEN l.start[k]
                                ELSE IF f[i - 1] = Nil THEN Nil ELSE l.next[f[i - 1]]]
           g == [i \in D |-> IF i <= n THEN c[i] ELSE Nil]
<1>0. /\ n \in Nat /\ c \in [1..n -> Voices] /\ n <= Nil /\ Nil \in Nat /\ Nil \notin Voices
      /\ n = 0 => l.start[k] = Nil
      /\ n > 0 => l.start[k] = c[1] /\ l.next[c[n]] = Nil
      /\ \A i \in 1..(n - 1) : l.next[c[i]] = c[i + 1]
  BY RowFits, VoicesCounted DEF InRow
<1>1. g = W(g)
  <2>1. ASSUME NEW i \in D PROVE g[i] = W(g)[i]
    <3>1. CASE i = 1
      BY <1>0, <3>1
    <3>2. CASE i # 1 /\ i <= n
      <4>1. /\ i - 1 \in 1..(n - 1) /\ (i - 1) + 1 = i
            /\ i - 1 \in D /\ i - 1 <= n /\ i - 1 \in 1..n
        BY <1>0, <3>2
      <4>2. g[i - 1] = c[i - 1] /\ g[i - 1] # Nil /\ l.next[c[i - 1]] = c[i]
        BY <1>0, <4>1
      <4>3. QED BY <3>2, <4>2
    <3>3. CASE i = n + 1 /\ i # 1
      <4>1. g[i - 1] = c[n] /\ n \in 1..n /\ c[n] # Nil
        BY <1>0, <3>3
      <4>2. QED BY <1>0, <3>3, <4>1
    <3>4. CASE i > n + 1
      <4>1. g[i - 1] = Nil
        BY <1>0, <3>4
      <4>2. QED BY <1>0, <3>4, <4>1
    <3>5. QED BY <1>0, <3>1, <3>2, <3>3, <3>4
  <2>2. QED BY <2>1
<1>2. ASSUME NEW f, f = W(f) PROVE f = g
  <2> DEFINE I == {i \in D : f[i] = g[i]}
  <2>1. Nil > 0 => 1 \in I
    BY <1>0, <1>1, <1>2
  <2>2. ASSUME NEW i \in 1..(Nil - 1), i \in I PROVE i + 1 \in I
    <3>1. i + 1 \in D /\ i + 1 # 1 /\ (i + 1) - 1 = i
      BY <1>0
    <3>2. f[i + 1] = IF f[i] = Nil THEN Nil ELSE l.next[f[i]]
      BY <1>2, <3>1
    <3>3. g[i + 1] = IF g[i] = Nil THEN Nil ELSE l.next[g[i]]
      <4> HIDE DEF g
      <4>1. QED BY <1>1, <3>1
    <3>4. QED BY <2>2, <3>1, <3>2, <3>3
  <2>3. \A i \in D : i \in I
    <3> HIDE DEF I
    <3>1. QED BY <1>0, <2>1, <2>2, AllIndices
  <2>4. f = [i \in D |-> f[i]]
    BY <1>2
  <2>5. QED BY <2>3, <2>4
<1>3. (CHOOSE f : f = W(f)) = g
  <2> HIDE DEF W, g
  <2>1. QED BY <1>1, <1>2
<1>4. {j \in DOMAIN g : g[j] # Nil} = 1..n
  BY <1>0
<1>5. Cardinality(1..n) = n
  <2>1. Cardinality(1..n) = IF 1 > n THEN 0 ELSE n - 1 + 1
    BY <1>0, FS_Interval
  <2>2. QED BY <1>0, <2>1
<1>6. [i \in 1..n |-> g[i]] = c
  <2>1. \A i \in 1..n : g[i] = c[i]
    BY <1>0
  <2>2. QED BY <1>0, <2>1
<1>7. Lists!Nodes(l, k) = [i \in 1..Cardinality({j \in DOMAIN g : g[j] # Nil}) |-> g[i]]
  <2> HIDE DEF g
  <2>1. Lists!Cardinality(Voices) = Nil /\ 2 * NumVoices = Nil
    BY Counts, VoicesCounted DEF Nil
  <2> DEFINE h == CHOOSE nth : nth = [i \in 1..Lists!Cardinality(Voices) |->
                                IF i = 1 THEN l.start[k]
                                ELSE IF nth[i - 1] = 2 * NumVoices THEN 2 * NumVoices
                                ELSE l.next[nth[i - 1]]]
  <2>2. h = g
    BY <1>3, <2>1
  <2>3. Lists!Nodes(l, k) =
            [i \in 1..Lists!Cardinality({j \in DOMAIN h : h[j] # 2 * NumVoices}) |-> h[i]]
    BY DEF Lists!Nodes, EndOfList
  <2> HIDE DEF h
  <2>4. QED BY <2>1, <2>2, <2>3, Counts
<1>8. QED BY <1>4, <1>5, <1>6, <1>7

-----------------------------------------------------------------------------
(* What LL_AddToHead, LL_AddToTail and LL_RemoveNode do to the rows.       *)

\* A row read from its end.
Turned(n, c) == [i \in 1..n |-> c[n + 1 - i]]

\* A row that is turned twice is the row.
LEMMA RowTurned ==
    ASSUME NEW l, NEW k, NEW n, NEW c, InRow(l, k, n, c)
    PROVE  InRow(Lists!Mirror(l), k, n, Turned(n, c))
<1> DEFINE r == Lists!Mirror(l)
           d == Turned(n, c)
<1>0. /\ n \in Nat /\ c \in [1..n -> Voices]
      /\ \A i, j \in 1..n : c[i] = c[j] => i = j
      /\ n = 0 => l.start[k] = Nil /\ l.end[k] = Nil
      /\ n > 0 => /\ l.start[k] = c[1] /\ l.end[k] = c[n]
                  /\ l.prev[c[1]] = Nil /\ l.next[c[n]] = Nil
      /\ \A i \in 1..(n - 1) : l.next[c[i]] = c[i + 1] /\ l.prev[c[i + 1]] = c[i]
  BY DEF InRow
<1>1. r.start = l.end /\ r.end = l.start /\ r.next = l.prev /\ r.prev = l.next
  BY DEF Lists!Mirror
<1>2. /\ d \in [1..n -> Voices]
      /\ \A i \in 1..n : d[i] = c[n + 1 - i] /\ n + 1 - i \in 1..n
  BY <1>0 DEF Turned
<1>3. ASSUME NEW i \in 1..n, NEW j \in 1..n, d[i] = d[j] PROVE i = j
  <2>1. n + 1 - i = n + 1 - j
    BY <1>0, <1>2, <1>3
  <2>2. QED BY <1>0, <2>1
<1>4. n > 0 => d[1] = c[n] /\ d[n] = c[1]
  BY <1>0, <1>2
<1>5. ASSUME NEW i \in 1..(n - 1) PROVE l.prev[d[i]] = d[i + 1] /\ l.next[d[i + 1]] = d[i]
  <2>1. i \in 1..n /\ i + 1 \in 1..n /\ n - i \in 1..(n - 1) /\ n + 1 - (i + 1) = n - i
        /\ n + 1 - i = (n - i) + 1
    BY <1>0
  <2>2. d[i] = c[(n - i) + 1] /\ d[i + 1] = c[n - i]
    BY <1>2, <2>1
  <2>3. QED BY <1>0, <2>1, <2>2
<1> HIDE DEF d, r
<1>6. QED BY <1>0, <1>1, <1>2, <1>3, <1>4, <1>5 DEF InRow, r, d

\* The mirror of the mirror is the list.
LEMMA TurnedTwice ==
    ASSUME NEW n \in Nat, NEW c \in [1..n -> Voices]
    PROVE  Turned(n, Turned(n, c)) = c
<1>1. ASSUME NEW i \in 1..n PROVE Turned(n, Turned(n, c))[i] = c[i]
  <2>1. n + 1 - i \in 1..n /\ n + 1 - (n + 1 - i) = i
    OBVIOUS
  <2>2. QED BY <2>1 DEF Turned
<1>2. /\ DOMAIN Turned(n, Turned(n, c)) = 1..n
      /\ Turned(n, Turned(n, c)) = [i \in 1..n |-> Turned(n, Turned(n, c))[i]]
  BY DEF Turned
<1>3. QED BY <1>1, <1>2

\* The mirror of the lists has the rows turned.
LEMMA MirrorLinked ==
    ASSUME NEW l, NEW n, NEW c, Rows(l, n, c)
    PROVE  Rows(Lists!Mirror(l), n, [k \in K |-> Turned(n[k], c[k])])
<1> DEFINE d == [k \in K |-> Turned(n[k], c[k])]
<1>1. IsLists(Lists!Mirror(l)) /\ n \in [K -> Nat] /\ DOMAIN d = K
  BY DEF Rows, IsLists, Lists!Mirror
<1>2. ASSUME NEW k \in K PROVE InRow(Lists!Mirror(l), k, n[k], d[k])
  <2>1. InRow(l, k, n[k], c[k]) /\ d[k] = Turned(n[k], c[k])
    BY DEF Rows
  <2>2. QED BY <2>1, RowTurned
<1>3. ASSUME NEW k \in K, NEW m \in K, NEW i \in 1..n[k], NEW j \in 1..n[m], d[k][i] = d[m][j]
      PROVE  k = m
  <2>1. d[k][i] = c[k][n[k] + 1 - i] /\ d[m][j] = c[m][n[m] + 1 - j]
    BY DEF Turned
  <2>2. n[k] + 1 - i \in 1..n[k] /\ n[m] + 1 - j \in 1..n[m]
    BY <1>1
  <2>3. QED BY <1>3, <2>1, <2>2 DEF Rows, Apart
<1> HIDE DEF d
<1>4. QED BY <1>1, <1>2, <1>3 DEF Rows, Apart, d

\* A voice in no list of l.
InNone(n, c, v) == \A k \in K : \A i \in 1..n[k] : c[k][i] # v

\* A row that none of the writes concerns remains.
LEMMA RowKept ==
    ASSUME NEW l, NEW r, NEW k, NEW n, NEW c, InRow(l, k, n, c),
           r.start[k] = l.start[k], r.end[k] = l.end[k],
           \A i \in 1..n : r.next[c[i]] = l.next[c[i]] /\ r.prev[c[i]] = l.prev[c[i]]
    PROVE  InRow(r, k, n, c)
<1>0. n \in Nat /\ \A i \in 1..(n - 1) : i \in 1..n /\ i + 1 \in 1..n
  BY DEF InRow
<1>1. n > 0 => 1 \in 1..n /\ n \in 1..n
  BY <1>0
<1>2. \A i \in 1..(n - 1) : r.next[c[i]] = c[i + 1] /\ r.prev[c[i + 1]] = c[i]
  BY <1>0 DEF InRow
<1>3. n > 0 => r.prev[c[1]] = Nil /\ r.next[c[n]] = Nil
  BY <1>1 DEF InRow
<1>4. QED BY <1>2, <1>3 DEF InRow

\* LL_AddToHead: the voice is the first of the row from then on, and no other row changes.
THEOREM HeadLinked ==
    ASSUME NEW l, NEW n, NEW c, Rows(l, n, c), NEW k \in K, NEW v \in Voices, InNone(n, c, v)
    PROVE  Rows(Lists!AddToHead(l, k, v), [n EXCEPT ![k] = n[k] + 1],
                [c EXCEPT ![k] = With(n[k], c[k], 1, v)])
<1> DEFINE r == Lists!AddToHead(l, k, v)
           head == l.start[k]
           N == n[k]
           d == With(N, c[k], 1, v)
           n1 == [n EXCEPT ![k] = n[k] + 1]
           c1 == [c EXCEPT ![k] = d]
<1>0. /\ IsLists(l) /\ n \in [K -> Nat] /\ DOMAIN c = K /\ N \in Nat
      /\ \A m \in K : InRow(l, m, n[m], c[m])
      /\ Apart(n, c)
  BY DEF Rows
<1>1. /\ c[k] \in [1..N -> Voices]
      /\ \A i, j \in 1..N : c[k][i] = c[k][j] => i = j
      /\ N = 0 => l.start[k] = Nil /\ l.end[k] = Nil
      /\ N > 0 => /\ l.start[k] = c[k][1] /\ l.end[k] = c[k][N]
                  /\ l.prev[c[k][1]] = Nil /\ l.next[c[k][N]] = Nil
      /\ \A i \in 1..(N - 1) : l.next[c[k][i]] = c[k][i + 1] /\ l.prev[c[k][i + 1]] = c[k][i]
  BY <1>0 DEF InRow
<1>2. /\ N = 0 => head = Nil
      /\ N > 0 => head \in Voices /\ head # Nil /\ head # v
  BY <1>0, <1>1, VoicesCounted DEF InNone
<1>3. /\ r.start = [l.start EXCEPT ![k] = v]
      /\ r.end = IF head = Nil THEN [l.end EXCEPT ![k] = v] ELSE l.end
      /\ r.next = [l.next EXCEPT ![v] = head]
      /\ r.prev = IF head = Nil THEN [l.prev EXCEPT ![v] = Nil]
                  ELSE [l.prev EXCEPT ![v] = Nil, ![head] = v]
  BY DEF Lists!AddToHead, Nil, EndOfList
<1>4. /\ DOMAIN l.start = K /\ DOMAIN l.end = K
      /\ DOMAIN l.next = Voices /\ DOMAIN l.prev = Voices
  BY <1>0 DEF IsLists
<1>5. IsLists(r)
  <2>1. r = [start |-> r.start, end |-> r.end, next |-> r.next, prev |-> r.prev]
    BY DEF Lists!AddToHead
  <2> HIDE DEF r
  <2>2. /\ DOMAIN r.start = K /\ DOMAIN r.end = K
        /\ DOMAIN r.next = Voices /\ DOMAIN r.prev = Voices
    BY <1>3, <1>4
  <2>3. QED BY <2>1, <2>2 DEF IsLists
<1> HIDE DEF r
<1>6. /\ DOMAIN d = 1..(N + 1) /\ d[1] = v
      /\ \A i \in 2..(N + 1) : d[i] = c[k][i - 1] /\ i - 1 \in 1..N
  BY <1>0 DEF With
<1>7. InRow(r, k, N + 1, d)
  <2>1. d \in [1..(N + 1) -> Voices]
    <3>1. ASSUME NEW i \in 1..(N + 1) PROVE d[i] \in Voices
      <4>1. i = 1 \/ i \in 2..(N + 1)
        BY <1>0
      <4>2. \A j \in 1..N : c[k][j] \in Voices
        BY <1>1
      <4>3. QED BY <1>6, <4>1, <4>2
    <3>2. d = [i \in 1..(N + 1) |-> d[i]]
      BY DEF With
    <3>3. QED BY <3>1, <3>2
  <2>2. ASSUME NEW i \in 1..(N + 1), NEW j \in 1..(N + 1), d[i] = d[j] PROVE i = j
    <3>1. CASE i = 1 /\ j = 1
      BY <3>1
    <3>0. \A m \in 2..(N + 1) : d[m] # d[1]
      BY <1>0, <1>6 DEF InNone
    <3>2. CASE i = 1 /\ j # 1
      BY <1>0, <2>2, <3>0, <3>2
    <3>3. CASE i # 1 /\ j = 1
      BY <1>0, <2>2, <3>0, <3>3
    <3>4. CASE i # 1 /\ j # 1
      <4>0. i \in 2..(N + 1) /\ j \in 2..(N + 1)
        BY <1>0, <3>4
      <4>1. i - 1 = j - 1
        BY <1>1, <1>6, <2>2, <4>0
      <4>2. QED BY <1>0, <4>1
    <3>5. QED BY <3>1, <3>2, <3>3, <3>4
  <2> HIDE DEF d
  <2>3. \A i \in 1..N : c[k][i] \in Voices /\ c[k][i] # v
    BY <1>0, <1>1 DEF InNone
  <2>4. r.start[k] = d[1] /\ r.prev[d[1]] = Nil
    <3>1. r.start[k] = v
      BY <1>3, <1>4
    <3>2. r.prev[v] = Nil
      BY <1>2, <1>3, <1>4
    <3>3. QED BY <1>6, <3>1, <3>2
  <2>5. r.end[k] = d[N + 1] /\ r.next[d[N + 1]] = Nil
    <3>1. CASE N = 0
      BY <1>2, <1>3, <1>4, <1>6, <3>1
    <3>2. CASE N > 0
      <4>1. d[N + 1] = c[k][N] /\ N \in 1..N
        BY <1>0, <1>6, <3>2
      <4>2. QED BY <1>1, <1>2, <1>3, <1>4, <2>3, <3>2, <4>1
    <3>3. QED BY <1>0, <3>1, <3>2
  <2>6. ASSUME NEW i \in 1..N PROVE r.next[d[i]] = d[i + 1] /\ r.prev[d[i + 1]] = d[i]
    <3>1. CASE i = 1
      <4>1. d[1] = v /\ d[1 + 1] = c[k][1] /\ head = c[k][1] /\ N > 0
        BY <1>0, <1>1, <1>6, <3>1
      <4>2. r.next[v] = head /\ r.prev[head] = v
        BY <1>2, <1>3, <1>4, <4>1
      <4>3. QED BY <3>1, <4>1, <4>2
    <3>2. CASE i # 1
      <4>1. /\ i - 1 \in 1..(N - 1) /\ i \in 1..N /\ (i - 1) + 1 = i /\ i - 1 \in 1..N
            /\ d[i] = c[k][i - 1] /\ d[i + 1] = c[k][i] /\ 1 \in 1..N
        BY <1>0, <1>6, <3>2
      <4>2. c[k][i] # head /\ c[k][i] # v /\ c[k][i - 1] # v
        <5>1. N > 0 /\ head = c[k][1]
          BY <1>0, <1>1, <4>1
        <5>2. QED BY <1>1, <2>3, <3>2, <4>1, <5>1
      <4>3. l.next[c[k][i - 1]] = c[k][i] /\ l.prev[c[k][i]] = c[k][i - 1]
        BY <1>1, <4>1
      <4>4. r.next[c[k][i - 1]] = c[k][i]
        BY <1>3, <1>4, <2>3, <4>1, <4>2, <4>3
      <4>5. r.prev[c[k][i]] = c[k][i - 1]
        BY <1>3, <1>4, <2>3, <4>1, <4>2, <4>3
      <4>6. QED BY <4>1, <4>4, <4>5
    <3>3. QED BY <3>1, <3>2
  <2>7. (N + 1) - 1 = N /\ N + 1 \in Nat /\ N + 1 > 0
    BY <1>0
  <2>8. QED BY <2>1, <2>2, <2>4, <2>5, <2>6, <2>7 DEF InRow
<1>8. ASSUME NEW m \in K, m # k PROVE InRow(r, m, n[m], c[m])
  <2>1. InRow(l, m, n[m], c[m]) /\ n[m] \in Nat
    BY <1>0
  <2>2. r.start[m] = l.start[m] /\ r.end[m] = l.end[m]
    BY <1>3, <1>4, <1>8
  <2>3. ASSUME NEW i \in 1..n[m]
        PROVE  r.next[c[m][i]] = l.next[c[m][i]] /\ r.prev[c[m][i]] = l.prev[c[m][i]]
    <3>1. c[m][i] # v /\ c[m][i] \in Voices
      BY <2>1 DEF InNone, InRow
    <3>2. N > 0 => c[m][i] # head
      <4>1. N > 0 => 1 \in 1..N /\ head = c[k][1]
        BY <1>0, <1>1
      <4>2. QED BY <1>0, <1>8, <4>1 DEF Apart
    <3>3. N = 0 \/ N > 0
      BY <1>0
    <3>4. QED BY <1>2, <1>3, <1>4, <3>1, <3>2, <3>3
  <2>4. QED BY <2>1, <2>2, <2>3, RowKept
<1>9. /\ n1 \in [K -> Nat] /\ DOMAIN c1 = K
      /\ n1[k] = N + 1 /\ c1[k] = d
      /\ \A m \in K \ {k} : n1[m] = n[m] /\ c1[m] = c[m]
  BY <1>0
<1> HIDE DEF n1, c1, d
<1>10. Apart(n1, c1)
  <2>1. SUFFICES ASSUME NEW m \in K, NEW q \in K, NEW i \in 1..n1[m], NEW j \in 1..n1[q],
                        c1[m][i] = c1[q][j]
                 PROVE  m = q
    BY DEF Apart
  <2>2. ASSUME NEW x \in K, NEW y \in 1..n1[x], x = k
        PROVE  c1[x][y] = v \/ \E z \in 1..n[k] : c1[x][y] = c[k][z]
    BY <1>0, <1>6, <1>9, <2>2
  <2>3. ASSUME NEW x \in K \ {k}, NEW y \in 1..n1[x]
        PROVE  y \in 1..n[x] /\ c1[x][y] = c[x][y] /\ c1[x][y] # v
    BY <1>9 DEF InNone
  <2>4. CASE m = k /\ q # k
    BY <1>0, <2>1, <2>2, <2>3, <2>4 DEF Apart
  <2>5. CASE m # k /\ q = k
    BY <1>0, <2>1, <2>2, <2>3, <2>5 DEF Apart
  <2>6. CASE m # k /\ q # k
    BY <1>0, <2>1, <2>3, <2>6 DEF Apart
  <2>7. QED BY <2>4, <2>5, <2>6
<1>11. \A m \in K : InRow(r, m, n1[m], c1[m])
  BY <1>7, <1>8, <1>9
<1>12. QED BY <1>5, <1>9, <1>10, <1>11 DEF Rows, r, n1, c1, d

\* LL_AddToTail: the voice is the last one of the row.
THEOREM TailLinked ==
    ASSUME NEW l, NEW n, NEW c, Rows(l, n, c), NEW k \in K, NEW v \in Voices, InNone(n, c, v)
    PROVE  Rows(Lists!AddToTail(l, k, v), [n EXCEPT ![k] = n[k] + 1],
                [c EXCEPT ![k] = With(n[k], c[k], n[k] + 1, v)])
<1> DEFINE t == [m \in K |-> Turned(n[m], c[m])]
           n1 == [n EXCEPT ![k] = n[k] + 1]
           t1 == [t EXCEPT ![k] = With(n[k], t[k], 1, v)]
           c1 == [c EXCEPT ![k] = With(n[k], c[k], n[k] + 1, v)]
           u == [m \in K |-> Turned(n1[m], t1[m])]
<1>0. n \in [K -> Nat] /\ DOMAIN c = K /\ \A m \in K : c[m] \in [1..n[m] -> Voices]
  BY DEF Rows, InRow
<1>1. Rows(Lists!Mirror(l), n, t)
  BY MirrorLinked
<1>2. InNone(n, t, v)
  <2>1. ASSUME NEW m \in K, NEW i \in 1..n[m] PROVE t[m][i] # v
    <3>1. n[m] + 1 - i \in 1..n[m] /\ t[m][i] = c[m][n[m] + 1 - i]
      BY <1>0 DEF Turned
    <3>2. QED BY <3>1 DEF InNone
  <2> HIDE DEF t
  <2>2. QED BY <2>1 DEF InNone
<1>3. Rows(Lists!AddToHead(Lists!Mirror(l), k, v), n1, t1)
  <2> HIDE DEF t
  <2>1. QED BY <1>1, <1>2, HeadLinked
<1>4. Rows(Lists!AddToTail(l, k, v), n1, u)
  <2> HIDE DEF n1, t1
  <2>1. QED BY <1>3, MirrorLinked DEF Lists!AddToTail
<1>5. ASSUME NEW m \in K PROVE u[m] = c1[m]
  <2>1. CASE m # k
    <3>1. u[m] = Turned(n[m], Turned(n[m], c[m])) /\ c1[m] = c[m]
      BY <1>0, <2>1
    <3>2. QED BY <1>0, <3>1, TurnedTwice
  <2>2. CASE m = k
    <3> DEFINE N == n[k]
               x == With(N, t[k], 1, v)
    <3>1. u[m] = Turned(N + 1, x) /\ c1[m] = With(N, c[k], N + 1, v) /\ N \in Nat
      BY <1>0, <2>2
    <3>2. /\ x[1] = v /\ \A j \in 2..(N + 1) : x[j] = t[k][j - 1]
          /\ \A j \in 1..N : t[k][j] = c[k][N + 1 - j]
      BY <3>1 DEF With, Turned
    <3>3. ASSUME NEW i \in 1..(N + 1)
          PROVE  Turned(N + 1, x)[i] = With(N, c[k], N + 1, v)[i]
      <4>1. Turned(N + 1, x)[i] = x[N + 2 - i]
        BY <3>1 DEF Turned
      <4>2. CASE i = N + 1
        BY <3>1, <3>2, <4>1, <4>2 DEF With
      <4>3. CASE i # N + 1
        <5>1. N + 2 - i \in 2..(N + 1) /\ (N + 2 - i) - 1 = N + 1 - i /\ N + 1 - i \in 1..N
              /\ N + 1 - (N + 1 - i) = i /\ i < N + 1
          BY <3>1, <4>3
        <5>2. x[N + 2 - i] = c[k][i]
          BY <3>2, <5>1
        <5>3. With(N, c[k], N + 1, v)[i] = c[k][i]
          BY <3>1, <5>1 DEF With
        <5>4. QED BY <4>1, <5>2, <5>3
      <4>4. QED BY <4>2, <4>3
    <3>4. /\ Turned(N + 1, x) = [i \in 1..(N + 1) |-> Turned(N + 1, x)[i]]
          /\ With(N, c[k], N + 1, v) = [i \in 1..(N + 1) |-> With(N, c[k], N + 1, v)[i]]
      BY DEF Turned, With
    <3> HIDE DEF x
    <3>5. QED BY <3>1, <3>3, <3>4
  <2>3. QED BY <2>1, <2>2
<1>6. u = c1
  BY <1>0, <1>5
<1> HIDE DEF u, c1, n1
<1>7. QED BY <1>4, <1>6 DEF n1, c1

\* LL_RemoveNode closes the row over the voice, wherever in it it is.
THEOREM RemoveLinked ==
    ASSUME NEW l, NEW n, NEW c, Rows(l, n, c), NEW k \in K, NEW i \in 1..n[k]
    PROVE  Rows(Lists!Remove(l, k, c[k][i]), [n EXCEPT ![k] = n[k] - 1],
                [c EXCEPT ![k] = Without(n[k], c[k], i)])
<1> DEFINE v == c[k][i]
           r == Lists!Remove(l, k, v)
           p == l.prev[v]
           s == l.next[v]
           N == n[k]
           d == Without(N, c[k], i)
           n1 == [n EXCEPT ![k] = n[k] - 1]
           c1 == [c EXCEPT ![k] = d]
<1>0. /\ IsLists(l) /\ n \in [K -> Nat] /\ DOMAIN c = K /\ N \in Nat /\ N > 0
      /\ \A m \in K : InRow(l, m, n[m], c[m])
      /\ Apart(n, c)
  BY DEF Rows
<1>1. /\ c[k] \in [1..N -> Voices]
      /\ \A j, m \in 1..N : c[k][j] = c[k][m] => j = m
      /\ l.start[k] = c[k][1] /\ l.end[k] = c[k][N]
      /\ l.prev[c[k][1]] = Nil /\ l.next[c[k][N]] = Nil
      /\ \A j \in 1..(N - 1) : l.next[c[k][j]] = c[k][j + 1] /\ l.prev[c[k][j + 1]] = c[k][j]
  BY <1>0 DEF InRow
<1>2. \A j \in 1..N : c[k][j] \in Voices /\ c[k][j] # Nil
  <2>1. c[k] \in [1..N -> Voices]
    BY <1>1
  <2>2. QED BY <2>1, VoicesCounted
<1>a. v \in Voices /\ \A j \in 1..N : j # i => c[k][j] # v
  BY <1>1
<1>3. /\ i = 1 => p = Nil
      /\ i # 1 => i - 1 \in 1..N /\ p = c[k][i - 1] /\ p \in Voices /\ p # Nil /\ p # v
  <2>1. ASSUME i # 1 PROVE i - 1 \in 1..(N - 1) /\ i - 1 \in 1..N /\ (i - 1) + 1 = i
    BY <1>0, <2>1
  <2>2. i = 1 => p = Nil
    BY <1>1
  <2>3. ASSUME i # 1 PROVE p = c[k][i - 1]
    BY <1>1, <2>1, <2>3
  <2>4. QED BY <1>2, <1>a, <2>1, <2>2, <2>3
<1>4. /\ i = N => s = Nil
      /\ i # N => i + 1 \in 1..N /\ s = c[k][i + 1] /\ s \in Voices /\ s # Nil /\ s # v
  <2>1. ASSUME i # N PROVE i \in 1..(N - 1) /\ i + 1 \in 1..N /\ i + 1 # i
    BY <1>0, <2>1
  <2>2. i = N => s = Nil
    BY <1>1
  <2>3. ASSUME i # N PROVE s = c[k][i + 1]
    BY <1>1, <2>1, <2>3
  <2>4. QED BY <1>2, <1>a, <2>1, <2>2, <2>3
<1>5. /\ r.start = IF p = Nil THEN [l.start EXCEPT ![k] = s] ELSE l.start
      /\ r.end = IF s = Nil THEN [l.end EXCEPT ![k] = p] ELSE l.end
      /\ r.next = IF p = Nil THEN [l.next EXCEPT ![v] = Nil]
                  ELSE [l.next EXCEPT ![p] = s, ![v] = Nil]
      /\ r.prev = IF s = Nil THEN [l.prev EXCEPT ![v] = Nil]
                  ELSE [l.prev EXCEPT ![s] = p, ![v] = Nil]
  BY DEF Lists!Remove, Nil, EndOfList
<1>6. /\ DOMAIN l.start = K /\ DOMAIN l.end = K
      /\ DOMAIN l.next = Voices /\ DOMAIN l.prev = Voices
  BY <1>0 DEF IsLists
<1>7. IsLists(r)
  <2>1. r = [start |-> r.start, end |-> r.end, next |-> r.next, prev |-> r.prev]
    BY DEF Lists!Remove
  <2> HIDE DEF r, p, s, v
  <2>2. /\ DOMAIN r.start = K /\ DOMAIN r.end = K
        /\ DOMAIN r.next = Voices /\ DOMAIN r.prev = Voices
    BY <1>5, <1>6
  <2>3. QED BY <2>1, <2>2 DEF IsLists
<1> HIDE DEF r, p, s
<1>8. /\ \A x \in Voices : x # v /\ x # p => r.next[x] = l.next[x]
      /\ \A x \in Voices : x # v /\ x # s => r.prev[x] = l.prev[x]
      /\ p # Nil /\ p \in Voices /\ p # v => r.next[p] = s
      /\ s # Nil /\ s \in Voices /\ s # v => r.prev[s] = p
  <2> HIDE DEF v
  <2>1. QED BY <1>5, <1>6
<1>9. /\ DOMAIN d = 1..(N - 1)
      /\ \A j \in 1..(N - 1) : j < i => d[j] = c[k][j] /\ j \in 1..N
      /\ \A j \in 1..(N - 1) : j >= i => d[j] = c[k][j + 1] /\ j + 1 \in 1..N
  BY <1>0 DEF Without
<1> DEFINE from(m) == IF m < i THEN m ELSE m + 1
<1>10. ASSUME NEW j \in 1..(N - 1)
       PROVE  d[j] = c[k][from(j)] /\ from(j) \in 1..N /\ from(j) # i
  BY <1>0, <1>9
<1>11. d \in [1..(N - 1) -> Voices] /\ \A j \in 1..(N - 1) : d[j] # v
  <2> HIDE DEF from, v
  <2>1. \A j \in 1..(N - 1) : d[j] \in Voices /\ d[j] # v
    BY <1>2, <1>a, <1>10
  <2>2. d = [j \in 1..(N - 1) |-> d[j]]
    BY DEF Without
  <2>3. QED BY <2>1, <2>2
<1>12. ASSUME NEW j \in 1..(N - 1), NEW m \in 1..(N - 1), d[j] = d[m] PROVE j = m
  <2>1. from(j) = from(m)
    <3> HIDE DEF from, v
    <3>1. QED BY <1>1, <1>10, <1>12
  <2>2. j \in Int /\ m \in Int /\ i \in Int
    BY <1>0
  <2>3. QED BY <2>1, <2>2
<1> HIDE DEF v, d
<1>13. InRow(r, k, N - 1, d)
  <2>1. N = 1 => r.start[k] = Nil /\ r.end[k] = Nil
    BY <1>0, <1>3, <1>4, <1>5, <1>6
  <2>2. ASSUME N > 1
        PROVE  r.start[k] = d[1] /\ r.prev[d[1]] = Nil
    <3>1. CASE i = 1
      <4>1. s = c[k][2] /\ d[1] = c[k][2] /\ s # Nil /\ s \in Voices /\ s # v /\ p = Nil
        BY <1>0, <1>3, <1>4, <1>9, <2>2, <3>1
      <4>2. r.start[k] = d[1]
        BY <1>5, <1>6, <4>1
      <4>3. r.prev[d[1]] = Nil
        BY <1>8, <4>1
      <4>4. QED BY <4>2, <4>3
    <3>2. CASE i # 1
      <4>1. d[1] = c[k][1] /\ p # Nil /\ 1 \in 1..N /\ 1 # i
        BY <1>0, <1>3, <1>9, <2>2, <3>2
      <4>2. c[k][1] # s
        <5>1. i # N => i + 1 # 1
          BY <1>0
        <5>2. c[k][1] # Nil /\ c[k][1] \in Voices
          BY <1>2, <4>1
        <5>3. QED BY <1>1, <1>4, <4>1, <5>1, <5>2
      <4>3. c[k][1] \in Voices /\ c[k][1] # v
        BY <1>2, <1>a, <4>1
      <4>4. r.start[k] = d[1]
        BY <1>1, <1>5, <4>1
      <4>5. r.prev[d[1]] = Nil
        BY <1>1, <1>8, <4>1, <4>2, <4>3
      <4>6. QED BY <4>4, <4>5
    <3>3. QED BY <3>1, <3>2
  <2>3. ASSUME N > 1
        PROVE  r.end[k] = d[N - 1] /\ r.next[d[N - 1]] = Nil
    <3>1. CASE i = N
      <4>1. p = c[k][N - 1] /\ d[N - 1] = c[k][N - 1] /\ p # Nil /\ p \in Voices /\ p # v
            /\ s = Nil
        BY <1>0, <1>3, <1>4, <1>9, <2>3, <3>1
      <4>2. r.end[k] = d[N - 1]
        BY <1>5, <1>6, <4>1
      <4>3. r.next[d[N - 1]] = Nil
        BY <1>8, <4>1
      <4>4. QED BY <4>2, <4>3
    <3>2. CASE i # N
      <4>1. d[N - 1] = c[k][N] /\ s # Nil /\ N \in 1..N
        <5>1. N - 1 >= i /\ N - 1 \in 1..(N - 1) /\ (N - 1) + 1 = N
          BY <1>0, <2>3, <3>2
        <5>2. QED BY <1>0, <1>4, <1>9, <3>2, <5>1
      <4>2. c[k][N] # p
        <5>1. i # 1 => i - 1 # N
          BY <1>0
        <5>2. c[k][N] # Nil
          BY <1>2, <4>1
        <5>3. QED BY <1>1, <1>3, <4>1, <5>1, <5>2
      <4>3. c[k][N] \in Voices /\ c[k][N] # v
        BY <1>2, <1>a, <3>2, <4>1
      <4>4. r.end[k] = d[N - 1]
        BY <1>1, <1>5, <4>1
      <4>5. r.next[d[N - 1]] = Nil
        BY <1>1, <1>8, <4>1, <4>2, <4>3
      <4>6. QED BY <4>4, <4>5
    <3>3. QED BY <3>1, <3>2
  <2>4. ASSUME NEW j \in 1..((N - 1) - 1)
        PROVE  r.next[d[j]] = d[j + 1] /\ r.prev[d[j + 1]] = d[j]
    <3>0. j \in 1..(N - 1) /\ j + 1 \in 1..(N - 1) /\ j \in Int /\ i \in Int
      BY <1>0
    <3>1. CASE j + 1 = i
      <4>1. /\ d[j] = c[k][i - 1] /\ d[j + 1] = c[k][i + 1] /\ i # 1 /\ i # N
        <5>1. j < i /\ ~(j + 1 < i) /\ j = i - 1 /\ j + 1 >= i /\ (j + 1) + 1 = i + 1
          BY <3>0, <3>1
        <5>2. d[j] = c[k][j] /\ d[j + 1] = c[k][(j + 1) + 1]
          BY <1>9, <3>0, <5>1
        <5>3. i # 1 /\ i # N
          BY <1>0, <3>0, <3>1
        <5>4. QED BY <5>1, <5>2, <5>3
      <4>2. d[j] = p /\ d[j + 1] = s /\ p # Nil /\ s # Nil /\ p \in Voices /\ s \in Voices
            /\ p # v /\ s # v
        BY <1>3, <1>4, <4>1
      <4>3. QED BY <1>8, <4>2
    <3>2. CASE j + 1 # i
      <4> DEFINE x == from(j)
      <4>1. /\ x \in 1..(N - 1) /\ x + 1 = from(j + 1) /\ x # i /\ x + 1 # i
            /\ x # i - 1 /\ x + 1 # i + 1 /\ x \in 1..N /\ x + 1 \in 1..N
        BY <1>0, <3>0, <3>2
      <4>2. d[j] = c[k][x] /\ d[j + 1] = c[k][x + 1]
        BY <1>10, <3>0, <4>1
      <4> HIDE DEF x
      <4>3. l.next[c[k][x]] = c[k][x + 1] /\ l.prev[c[k][x + 1]] = c[k][x]
        BY <1>1, <4>1
      <4>4. c[k][x] \in Voices /\ c[k][x] # v /\ c[k][x] # Nil
        BY <1>2, <1>a, <4>1
      <4>5. c[k][x + 1] \in Voices /\ c[k][x + 1] # v /\ c[k][x + 1] # Nil
        BY <1>2, <1>a, <4>1
      <4>6. c[k][x] # p
        BY <1>1, <1>3, <4>1, <4>4
      <4>7. c[k][x + 1] # s
        BY <1>1, <1>4, <4>1, <4>5
      <4>8. QED BY <1>8, <4>2, <4>3, <4>4, <4>5, <4>6, <4>7
    <3>3. QED BY <3>1, <3>2
  <2>5. N - 1 \in Nat /\ (N - 1 = 0 <=> N = 1) /\ (N - 1 > 0 <=> N > 1)
    BY <1>0
  <2>6. QED BY <1>11, <1>12, <2>1, <2>2, <2>3, <2>4, <2>5 DEF InRow
<1>14. ASSUME NEW m \in K, m # k PROVE InRow(r, m, n[m], c[m])
  <2>1. InRow(l, m, n[m], c[m])
    BY <1>0
  <2>2. r.start[m] = l.start[m] /\ r.end[m] = l.end[m]
    BY <1>5, <1>6, <1>14
  <2>3. ASSUME NEW j \in 1..n[m]
        PROVE  r.next[c[m][j]] = l.next[c[m][j]] /\ r.prev[c[m][j]] = l.prev[c[m][j]]
    <3>1. c[m][j] \in Voices /\ c[m][j] # Nil
      BY <2>1, VoicesCounted DEF InRow
    <3>2. \A q \in 1..n[k] : c[m][j] # c[k][q]
      BY <1>0, <1>14 DEF Apart
    <3>3. c[m][j] # v /\ c[m][j] # p /\ c[m][j] # s
      BY <1>3, <1>4, <3>1, <3>2 DEF v
    <3>4. QED BY <1>8, <3>1, <3>3
  <2>4. QED BY <2>1, <2>2, <2>3, RowKept
<1>15. /\ n1 \in [K -> Nat] /\ DOMAIN c1 = K
       /\ n1[k] = N - 1 /\ c1[k] = d
       /\ \A m \in K \ {k} : n1[m] = n[m] /\ c1[m] = c[m]
  BY <1>0
<1> HIDE DEF n1, c1
<1>16. Apart(n1, c1)
  <2>1. SUFFICES ASSUME NEW m \in K, NEW q \in K, NEW x \in 1..n1[m], NEW y \in 1..n1[q],
                        c1[m][x] = c1[q][y]
                 PROVE  m = q
    BY DEF Apart
  <2>2. ASSUME NEW a \in K, NEW b \in 1..n1[a]
        PROVE  \E z \in 1..n[a] : c1[a][b] = c[a][z]
    <3>1. CASE a = k
      <4> HIDE DEF from
      <4>1. QED BY <1>10, <1>15, <3>1
    <3>2. CASE a # k
      BY <1>15, <3>2
    <3>3. QED BY <3>1, <3>2
  <2>3. PICK z \in 1..n[m] : c1[m][x] = c[m][z]
    BY <2>2
  <2>4. PICK w \in 1..n[q] : c1[q][y] = c[q][w]
    BY <2>2
  <2>5. QED BY <1>0, <2>1, <2>3, <2>4 DEF Apart
<1>17. \A m \in K : InRow(r, m, n1[m], c1[m])
  BY <1>13, <1>14, <1>15
<1>18. QED BY <1>7, <1>15, <1>16, <1>17 DEF Rows, r, n1, c1, d, v

-----------------------------------------------------------------------------
(* The lists as sets: who is in which.                                     *)

\* The lists are well kept.
Kept(l) == \E n, c : Rows(l, n, c)

\* The voices in a list.
InList(l, k) == Range(Lists!Nodes(l, k))

\* Who is in a row.
Who(n, c) == {c[i] : i \in 1..n}

\* What the rows of well kept lists look like.
LEMMA RowsNodes ==
    ASSUME NEW l, NEW n, NEW c, Rows(l, n, c)
    PROVE  \A k \in K : /\ Lists!Nodes(l, k) = c[k] /\ c[k] \in [1..n[k] -> Voices]
                        /\ n[k] \in Nat /\ InList(l, k) = Who(n[k], c[k])
<1>1. SUFFICES ASSUME NEW k \in K
               PROVE  /\ Lists!Nodes(l, k) = c[k] /\ c[k] \in [1..n[k] -> Voices]
                      /\ n[k] \in Nat /\ InList(l, k) = Who(n[k], c[k])
  OBVIOUS
<1>2. InRow(l, k, n[k], c[k]) /\ n[k] \in Nat
  BY DEF Rows
<1>3. Lists!Nodes(l, k) = c[k]
  BY <1>2, RowNodes
<1>4. c[k] \in [1..n[k] -> Voices]
  BY <1>2 DEF InRow
<1>5. QED BY <1>2, <1>3, <1>4 DEF InList, Range, Who

\* A list is read the same from both its ends, holds nobody twice, and shares nobody with
\* another list.
LEMMA KeptLists ==
    ASSUME NEW l, Kept(l), NEW k \in K
    PROVE  /\ IsInjective(Lists!Nodes(l, k))
           /\ Lists!Nodes(Lists!Mirror(l), k) = Reverse(Lists!Nodes(l, k))
           /\ InList(l, k) \subseteq Voices
           /\ \A m \in K \ {k} : InList(l, k) \cap InList(l, m) = {}
<1>1. PICK n, c : Rows(l, n, c)
  BY DEF Kept
<1>2. /\ Lists!Nodes(l, k) = c[k] /\ c[k] \in [1..n[k] -> Voices] /\ n[k] \in Nat
      /\ InList(l, k) = {c[k][i] : i \in 1..n[k]}
  BY <1>1, RowsNodes DEF Who
<1>3. IsInjective(c[k])
  BY <1>1, <1>2 DEF Rows, InRow, IsInjective
<1>4. Lists!Nodes(Lists!Mirror(l), k) = Reverse(c[k])
  <2> DEFINE t == [m \in K |-> Turned(n[m], c[m])]
  <2>1. Rows(Lists!Mirror(l), n, t)
    BY <1>1, MirrorLinked
  <2>2. Lists!Nodes(Lists!Mirror(l), k) = t[k]
    <3> HIDE DEF t
    <3>1. QED BY <2>1, RowsNodes
  <2>3. t[k] = Turned(n[k], c[k]) /\ Len(c[k]) = n[k]
    BY <1>2
  <2>4. \A i \in 1..n[k] : n[k] + 1 - i = (n[k] - i) + 1
    BY <1>2
  <2>5. Turned(n[k], c[k]) = Reverse(c[k])
    BY <2>3, <2>4 DEF Turned, Reverse
  <2>6. QED BY <2>2, <2>3, <2>5
<1>5. ASSUME NEW m \in K \ {k} PROVE InList(l, k) \cap InList(l, m) = {}
  <2>1. InList(l, m) = {c[m][i] : i \in 1..n[m]}
    BY <1>1, RowsNodes DEF Who
  <2>2. QED BY <1>1, <1>2, <2>1 DEF Rows, Apart
<1>6. QED BY <1>2, <1>3, <1>4, <1>5

\* A voice of a list has a place in its row.
LEMMA InNoList ==
    ASSUME NEW l, NEW n, NEW c, Rows(l, n, c), NEW v, \A k \in K : v \notin InList(l, k)
    PROVE  InNone(n, c, v)
BY RowsNodes DEF InNone, Who

\* What the two ways to add do to the sets.
LEMMA WithIn ==
    ASSUME NEW n \in Nat, NEW c, NEW i \in 1..(n + 1), NEW v
    PROVE  Who(n + 1, With(n, c, i, v)) = Who(n, c) \cup {v}
<1> DEFINE d == With(n, c, i, v)
<1>1. \A j \in 1..(n + 1) : d[j] = IF j < i THEN c[j] ELSE IF j = i THEN v ELSE c[j - 1]
  BY DEF With
<1> HIDE DEF d
<1>2. ASSUME NEW j \in 1..(n + 1) PROVE d[j] \in {c[m] : m \in 1..n} \cup {v}
  <2>1. CASE j < i
    <3>1. j \in 1..n
      BY <2>1
    <3>2. QED BY <1>1, <2>1, <3>1
  <2>2. CASE j = i
    BY <1>1, <2>2
  <2>3. CASE j > i
    <3>1. j - 1 \in 1..n /\ ~(j < i) /\ j # i
      BY <2>3
    <3>2. QED BY <1>1, <3>1
  <2>4. QED BY <2>1, <2>2, <2>3
<1>3. v = d[i]
  BY <1>1
<1>4. ASSUME NEW m \in 1..n PROVE \E j \in 1..(n + 1) : d[j] = c[m]
  <2>1. CASE m < i
    <3>1. m \in 1..(n + 1)
      OBVIOUS
    <3>2. QED BY <1>1, <2>1, <3>1
  <2>2. CASE m >= i
    <3>1. m + 1 \in 1..(n + 1) /\ ~(m + 1 < i) /\ m + 1 # i /\ (m + 1) - 1 = m
      BY <2>2
    <3>2. d[m + 1] = c[m]
      BY <1>1, <3>1
    <3>3. QED BY <3>1, <3>2
  <2>3. QED BY <2>1, <2>2
<1>5. QED BY <1>2, <1>3, <1>4 DEF d, Who

\* Who is left in a row.
LEMMA WithoutIn ==
    ASSUME NEW n \in Nat, NEW c, NEW i \in 1..n, \A j, m \in 1..n : c[j] = c[m] => j = m
    PROVE  Who(n - 1, Without(n, c, i)) = Who(n, c) \ {c[i]}
<1> DEFINE d == Without(n, c, i)
<1>1. \A j \in 1..(n - 1) : d[j] = IF j < i THEN c[j] ELSE c[j + 1]
  BY DEF Without
<1> HIDE DEF d
<1>2. ASSUME NEW j \in 1..(n - 1) PROVE d[j] \in {c[m] : m \in 1..n} \ {c[i]}
  <2>1. CASE j < i
    <3>1. j \in 1..n /\ j # i
      BY <2>1
    <3>2. QED BY <1>1, <2>1, <3>1
  <2>2. CASE ~(j < i)
    <3>1. j + 1 \in 1..n /\ j + 1 # i
      BY <2>2
    <3>2. QED BY <1>1, <2>2, <3>1
  <2>3. QED BY <2>1, <2>2
<1>3. ASSUME NEW m \in 1..n, m # i PROVE \E j \in 1..(n - 1) : d[j] = c[m]
  <2>1. CASE m < i
    <3>1. m \in 1..(n - 1)
      BY <2>1
    <3>2. QED BY <1>1, <2>1, <3>1
  <2>2. CASE m > i
    <3>1. m - 1 \in 1..(n - 1) /\ ~(m - 1 < i) /\ (m - 1) + 1 = m
      BY <2>2
    <3>2. d[m - 1] = c[m]
      BY <1>1, <3>1
    <3>3. QED BY <3>1, <3>2
  <2>3. QED BY <1>3, <2>1, <2>2
<1>4. QED BY <1>2, <1>3 DEF d, Who

\* A voice that is added at the head of a list, ...
LEMMA HeadKept ==
    ASSUME NEW l, Kept(l), NEW k \in K, NEW v \in Voices, \A m \in K : v \notin InList(l, m)
    PROVE  /\ Kept(Lists!AddToHead(l, k, v))
           /\ InList(Lists!AddToHead(l, k, v), k) = InList(l, k) \cup {v}
           /\ \A m \in K \ {k} : InList(Lists!AddToHead(l, k, v), m) = InList(l, m)
<1> DEFINE r == Lists!AddToHead(l, k, v)
<1>1. PICK n, c : Rows(l, n, c)
  BY DEF Kept
<1> DEFINE n1 == [n EXCEPT ![k] = n[k] + 1]
           c1 == [c EXCEPT ![k] = With(n[k], c[k], 1, v)]
<1>2. n \in [K -> Nat] /\ DOMAIN c = K
  BY <1>1 DEF Rows
<1>3. Rows(r, n1, c1)
  BY <1>1, InNoList, HeadLinked
<1>4. n1[k] = n[k] + 1 /\ c1[k] = With(n[k], c[k], 1, v)
      /\ \A m \in K \ {k} : n1[m] = n[m] /\ c1[m] = c[m]
  BY <1>2
<1>5. 1 \in 1..(n[k] + 1) /\ n[k] \in Nat
  BY <1>2
<1> HIDE DEF n1, c1, r
<1>6. /\ \A m \in K : InList(r, m) = Who(n1[m], c1[m])
      /\ \A m \in K : InList(l, m) = Who(n[m], c[m])
  BY <1>1, <1>3, RowsNodes
<1>7. InList(r, k) = InList(l, k) \cup {v}
  BY <1>4, <1>5, <1>6, WithIn
<1>8. \A m \in K \ {k} : InList(r, m) = InList(l, m)
  BY <1>4, <1>6
<1>9. QED BY <1>3, <1>7, <1>8 DEF Kept, r

\* ... or at its tail, is in it, and the other lists are as they were.
LEMMA TailKept ==
    ASSUME NEW l, Kept(l), NEW k \in K, NEW v \in Voices, \A m \in K : v \notin InList(l, m)
    PROVE  /\ Kept(Lists!AddToTail(l, k, v))
           /\ InList(Lists!AddToTail(l, k, v), k) = InList(l, k) \cup {v}
           /\ \A m \in K \ {k} : InList(Lists!AddToTail(l, k, v), m) = InList(l, m)
<1> DEFINE r == Lists!AddToTail(l, k, v)
<1>1. PICK n, c : Rows(l, n, c)
  BY DEF Kept
<1> DEFINE n1 == [n EXCEPT ![k] = n[k] + 1]
           c1 == [c EXCEPT ![k] = With(n[k], c[k], n[k] + 1, v)]
<1>2. n \in [K -> Nat] /\ DOMAIN c = K
  BY <1>1 DEF Rows
<1>3. Rows(r, n1, c1)
  BY <1>1, InNoList, TailLinked
<1>4. n1[k] = n[k] + 1 /\ c1[k] = With(n[k], c[k], n[k] + 1, v)
      /\ \A m \in K \ {k} : n1[m] = n[m] /\ c1[m] = c[m]
  BY <1>2
<1>5. n[k] + 1 \in 1..(n[k] + 1) /\ n[k] \in Nat
  BY <1>2
<1> HIDE DEF n1, c1, r
<1>6. /\ \A m \in K : InList(r, m) = Who(n1[m], c1[m])
      /\ \A m \in K : InList(l, m) = Who(n[m], c[m])
  BY <1>1, <1>3, RowsNodes
<1>7. InList(r, k) = InList(l, k) \cup {v}
  BY <1>4, <1>5, <1>6, WithIn
<1>8. \A m \in K \ {k} : InList(r, m) = InList(l, m)
  BY <1>4, <1>6
<1>9. QED BY <1>3, <1>7, <1>8 DEF Kept, r

\* A voice that is removed is in no list, and the others are where they were.
LEMMA RemoveKept ==
    ASSUME NEW l, Kept(l), NEW k \in K, NEW v \in InList(l, k)
    PROVE  /\ Kept(Lists!Remove(l, k, v))
           /\ InList(Lists!Remove(l, k, v), k) = InList(l, k) \ {v}
           /\ \A m \in K \ {k} : InList(Lists!Remove(l, k, v), m) = InList(l, m)
<1>1. PICK n, c : Rows(l, n, c)
  BY DEF Kept
<1>2. n \in [K -> Nat] /\ DOMAIN c = K /\ \A i, j \in 1..n[k] : c[k][i] = c[k][j] => i = j
  BY <1>1 DEF Rows, InRow
<1>3. PICK i \in 1..n[k] : v = c[k][i]
  BY <1>1, RowsNodes DEF Who
<1> DEFINE r == Lists!Remove(l, k, v)
           n1 == [n EXCEPT ![k] = n[k] - 1]
           c1 == [c EXCEPT ![k] = Without(n[k], c[k], i)]
<1>4. Rows(r, n1, c1)
  BY <1>1, <1>3, RemoveLinked
<1>5. n1[k] = n[k] - 1 /\ c1[k] = Without(n[k], c[k], i)
      /\ \A m \in K \ {k} : n1[m] = n[m] /\ c1[m] = c[m]
  BY <1>2
<1> HIDE DEF n1, c1, r
<1>6. /\ \A m \in K : InList(r, m) = Who(n1[m], c1[m])
      /\ \A m \in K : InList(l, m) = Who(n[m], c[m])
  BY <1>1, <1>4, RowsNodes
<1>7. Who(n[k] - 1, Without(n[k], c[k], i)) = Who(n[k], c[k]) \ {c[k][i]}
  BY <1>2, WithoutIn
<1>8. InList(r, k) = InList(l, k) \ {v}
  BY <1>3, <1>5, <1>6, <1>7
<1>9. \A m \in K \ {k} : InList(r, m) = InList(l, m)
  BY <1>5, <1>6
<1>10. QED BY <1>4, <1>8, <1>9 DEF Kept, r

\* The lists that AL_ResetVoices begins with.
LEMMA EmptyKept == Kept(Lists!Empty) /\ \A k \in K : InList(Lists!Empty, k) = {}
<1> DEFINE n == [k \in K |-> 0]
           c == [k \in K |-> <<>>]
<1>1. Rows(Lists!Empty, n, c)
  <2>1. IsLists(Lists!Empty)
    BY DEF IsLists, Lists!Empty, K
  <2>2. \A k \in K : Lists!Empty.start[k] = Nil /\ Lists!Empty.end[k] = Nil
    BY DEF Lists!Empty, K, Nil, EndOfList
  <2>3. \A k \in K : InRow(Lists!Empty, k, 0, <<>>)
    BY <2>2 DEF InRow
  <2>4. QED BY <2>1, <2>3 DEF Rows, Apart
<1>2. \A k \in K : n[k] = 0
  OBVIOUS
<1> HIDE DEF n, c
<1>3. \A k \in K : InList(Lists!Empty, k) = {}
  BY <1>1, <1>2, RowsNodes DEF Who
<1>4. QED BY <1>1, <1>3 DEF Kept

\* What a loop over voices or channels does to its state s for each of them, v.
Step(x, s, v) ==
    CASE x[1] = "pitch" -> SetVoicePitch(s, v)
      [] x[1] = "volume" -> SetVoiceVolume(s, v)
      [] x[1] = "pan" -> SetVoicePan(s, v)
      [] x[1] = "kill" -> Kill(s, x[2], x[3], v)
      [] x[1] = "wave" -> Wave(s, x[2], v)
      [] x[1] = "waved" -> Waved(s, v, x[2])
      [] x[1] = "add" -> Lists!AddToTail(s, Pool, v)

\* The greatest of some numbers.
LEMMA Greatest ==
    ASSUME NEW n \in Nat, NEW S \in SUBSET (1..n), S # {}
    PROVE  Max(S) \in S /\ \A y \in S : Max(S) >= y
<1> DEFINE T == {n - y : y \in S}
<1>1. T \subseteq Nat /\ T # {}
  <2>1. \A y \in S : y \in 1..n /\ n - y \in Nat
    OBVIOUS
  <2>2. QED BY <2>1
<1>2. PICK z \in T : \A w \in T : z <= w
  <2> HIDE DEF T
  <2>1. QED BY <1>1, Smallest
<1>3. PICK m \in S : z = n - m
  OBVIOUS
<1>4. \A y \in S : m >= y
  <2>1. ASSUME NEW y \in S PROVE m >= y
    <3>1. n - m <= n - y /\ m \in Int /\ y \in Int
      BY <1>2, <1>3
    <3>2. QED BY <3>1
  <2>2. QED BY <2>1
<1>5. QED BY <1>3, <1>4 DEF Max

\* What FoldLeft computes for the parts of a sequence.
Parts(x, base, seq, n, f) ==
    [S \in SUBSET (1..n) |->
        IF S = {} THEN base ELSE Step(x, f[S \ {Max(S)}], seq[Max(S)])]

\* There are such states for the parts of a sequence of any length.
LEMMA PartsExist ==
    ASSUME NEW x, NEW base, NEW seq
    PROVE  \A n \in Nat : \E f : f = Parts(x, base, seq, n, f)
<1> DEFINE I == {n \in Nat : \E f : f = Parts(x, base, seq, n, f)}
<1>1. 0 \in I
  <2> DEFINE f == [S \in SUBSET (1..0) |-> base]
  <2>1. SUBSET (1..0) = {{}}
    OBVIOUS
  <2>2. f = Parts(x, base, seq, 0, f)
    BY <2>1 DEF Parts
  <2>3. QED BY <2>2
<1>2. ASSUME NEW n \in Nat, n \in I PROVE n + 1 \in I
  <2>1. PICK f : f = Parts(x, base, seq, n, f)
    BY <1>2
  <2> DEFINE g == [S \in SUBSET (1..(n + 1)) |->
                      IF n + 1 \in S THEN Step(x, f[S \ {n + 1}], seq[n + 1]) ELSE f[S]]
  <2>2. ASSUME NEW S \in SUBSET (1..(n + 1))
        PROVE  g[S] = Parts(x, base, seq, n + 1, g)[S]
    <3>1. CASE n + 1 \in S
      <4>1. S # {} /\ Max(S) = n + 1
        <5>1. n + 1 \in Nat /\ S # {}
          BY <3>1
        <5>2. Max(S) \in S /\ \A y \in S : Max(S) >= y
          BY <5>1, Greatest
        <5>3. Max(S) \in 1..(n + 1) /\ Max(S) >= n + 1
          BY <3>1, <5>2
        <5>4. QED BY <5>1, <5>3
      <4>2. S \ {n + 1} \in SUBSET (1..n)
        OBVIOUS
      <4>3. n + 1 \notin S \ {n + 1} /\ S \ {n + 1} \in SUBSET (1..(n + 1))
        OBVIOUS
      <4>4. g[S \ {n + 1}] = f[S \ {n + 1}]
        BY <4>3
      <4>5. g[S] = Step(x, f[S \ {n + 1}], seq[n + 1])
        BY <3>1
      <4> HIDE DEF g
      <4>6. Parts(x, base, seq, n + 1, g)[S] = Step(x, g[S \ {n + 1}], seq[n + 1])
        BY <4>1 DEF Parts
      <4>7. QED BY <4>4, <4>5, <4>6
    <3>2. CASE n + 1 \notin S
      <4>1. S \in SUBSET (1..n)
        BY <3>2
      <4>2. g[S] = f[S]
        BY <3>2
      <4>3. f[S] = IF S = {} THEN base ELSE Step(x, f[S \ {Max(S)}], seq[Max(S)])
        BY <2>1, <4>1 DEF Parts
      <4>4. S \ {Max(S)} \in SUBSET (1..(n + 1)) /\ n + 1 \notin S \ {Max(S)}
        BY <3>2
      <4>5. g[S \ {Max(S)}] = f[S \ {Max(S)}]
        BY <4>4
      <4> HIDE DEF g
      <4>6. QED BY <4>2, <4>3, <4>5 DEF Parts
    <3>3. QED BY <3>1, <3>2
  <2>3. g = Parts(x, base, seq, n + 1, g)
    <3>1. DOMAIN g = SUBSET (1..(n + 1)) /\ g = [S \in SUBSET (1..(n + 1)) |-> g[S]]
      OBVIOUS
    <3>2. Parts(x, base, seq, n + 1, g)
             = [S \in SUBSET (1..(n + 1)) |-> Parts(x, base, seq, n + 1, g)[S]]
      BY DEF Parts
    <3> HIDE DEF g
    <3>3. QED BY <2>2, <3>1, <3>2
  <2>4. n + 1 \in Nat
    OBVIOUS
  <2> HIDE DEF g
  <2>5. QED BY <2>3, <2>4
<1> HIDE DEF I
<1>3. \A n \in Nat : n \in I
  BY <1>1, <1>2, AllNumbers
<1>4. QED BY <1>3 DEF I

\* ... it computes from one to the next.
LEMMA PartsGo ==
    ASSUME NEW x, NEW base, NEW seq, NEW n \in Nat, NEW f, f = Parts(x, base, seq, n, f)
    PROVE  /\ f[{}] = base
           /\ \A i \in 1..n : f[1..i] = Step(x, f[1..(i - 1)], seq[i])
<1>1. f[{}] = base
  <2>1. {} \in SUBSET (1..n)
    OBVIOUS
  <2>2. QED BY <2>1 DEF Parts
<1>2. ASSUME NEW i \in 1..n PROVE f[1..i] = Step(x, f[1..(i - 1)], seq[i])
  <2>1. 1..i \in SUBSET (1..n) /\ 1..i # {} /\ i \in 1..i
    OBVIOUS
  <2>2. Max(1..i) = i
    <3>1. Max(1..i) \in 1..i /\ \A y \in 1..i : Max(1..i) >= y
      BY <2>1, Greatest
    <3>2. QED BY <2>1, <3>1
  <2>3. (1..i) \ {i} = 1..(i - 1)
    OBVIOUS
  <2>4. f[1..i] = Step(x, f[(1..i) \ {Max(1..i)}], seq[Max(1..i)])
    BY <2>1 DEF Parts
  <2>5. QED BY <2>2, <2>3, <2>4
<1>3. QED BY <1>1, <1>2

\* A loop over a sequence, from s on: g says how far it has come after each of its parts.
Passes(x, s, seq, n, g) ==
    g[0] = s /\ \A i \in 1..n : g[i] = Step(x, g[i - 1], seq[i])

\* A fold passes through them, one element at a time.
LEMMA Passing ==
    ASSUME NEW x, NEW s, NEW seq, NEW n \in Nat, NEW f, f = Parts(x, s, seq, n, f)
    PROVE  \E g : Passes(x, s, seq, n, g) /\ g[n] = f[1..n]
<1> DEFINE g == [i \in 0..n |-> f[1..i]]
<1>0. f[{}] = s /\ \A i \in 1..n : f[1..i] = Step(x, f[1..(i - 1)], seq[i])
  BY PartsGo
<1>1. g[0] = s
  <2>1. 1..0 = {} /\ 0 \in 0..n
    OBVIOUS
  <2>2. g[0] = f[1..0]
    BY <2>1
  <2>3. QED BY <1>0, <2>1, <2>2
<1>2. ASSUME NEW i \in 1..n PROVE g[i] = Step(x, g[i - 1], seq[i])
  <2>1. i \in 0..n /\ i - 1 \in 0..n
    OBVIOUS
  <2>2. g[i] = f[1..i] /\ g[i - 1] = f[1..(i - 1)]
    BY <2>1
  <2>3. QED BY <1>0, <2>2
<1>3. g[n] = f[1..n]
  OBVIOUS
<1> HIDE DEF g
<1>4. QED BY <1>1, <1>2, <1>3 DEF Passes

\* The loops of the code are such folds: those that set the pitch, ...
LEMMA PitchFold ==
    ASSUME NEW s, NEW seq, NEW n \in Nat, DOMAIN seq = 1..n
    PROVE  \E g : Passes(<<"pitch">>, s, seq, n, g)
                   /\ FoldLeft(SetVoicePitch, s, seq) = g[n]
<1> DEFINE Op(a, b) == Step(<<"pitch">>, a, b)
           W(f) == [S \in SUBSET DOMAIN seq |->
                       IF S = {} THEN s ELSE Op(f[S \ {Max(S)}], seq[Max(S)])]
           h == CHOOSE f : f = W(f)
<1>1. \A f : W(f) = Parts(<<"pitch">>, s, seq, n, f)
  BY DEF Parts
<1>2. h = W(h)
  <2> HIDE DEF W
  <2>1. \E f : f = W(f)
    BY <1>1, PartsExist
  <2>2. QED BY <2>1
<1>3. FoldLeft(SetVoicePitch, s, seq) = h[DOMAIN seq]
  BY DEF FoldLeft, MapThenFoldSet, Step
<1> HIDE DEF h, W
<1>4. h = Parts(<<"pitch">>, s, seq, n, h)
  BY <1>1, <1>2
<1>5. PICK g : Passes(<<"pitch">>, s, seq, n, g) /\ g[n] = h[1..n]
  BY <1>4, Passing
<1>6. g[n] = h[DOMAIN seq]
  BY <1>5
<1>7. QED BY <1>3, <1>5, <1>6

\* ... the volume, ...
LEMMA VolumeFold ==
    ASSUME NEW s, NEW seq, NEW n \in Nat, DOMAIN seq = 1..n
    PROVE  \E g : Passes(<<"volume">>, s, seq, n, g)
                   /\ FoldLeft(SetVoiceVolume, s, seq) = g[n]
<1> DEFINE Op(a, b) == Step(<<"volume">>, a, b)
           W(f) == [S \in SUBSET DOMAIN seq |->
                       IF S = {} THEN s ELSE Op(f[S \ {Max(S)}], seq[Max(S)])]
           h == CHOOSE f : f = W(f)
<1>1. \A f : W(f) = Parts(<<"volume">>, s, seq, n, f)
  BY DEF Parts
<1>2. h = W(h)
  <2> HIDE DEF W
  <2>1. \E f : f = W(f)
    BY <1>1, PartsExist
  <2>2. QED BY <2>1
<1>3. FoldLeft(SetVoiceVolume, s, seq) = h[DOMAIN seq]
  BY DEF FoldLeft, MapThenFoldSet, Step
<1> HIDE DEF h, W
<1>4. h = Parts(<<"volume">>, s, seq, n, h)
  BY <1>1, <1>2
<1>5. PICK g : Passes(<<"volume">>, s, seq, n, g) /\ g[n] = h[1..n]
  BY <1>4, Passing
<1>6. g[n] = h[DOMAIN seq]
  BY <1>5
<1>7. QED BY <1>3, <1>5, <1>6

\* ... and the panning of all voices of a channel, ...
LEMMA PanFold ==
    ASSUME NEW s, NEW seq, NEW n \in Nat, DOMAIN seq = 1..n
    PROVE  \E g : Passes(<<"pan">>, s, seq, n, g)
                   /\ FoldLeft(SetVoicePan, s, seq) = g[n]
<1> DEFINE Op(a, b) == Step(<<"pan">>, a, b)
           W(f) == [S \in SUBSET DOMAIN seq |->
                       IF S = {} THEN s ELSE Op(f[S \ {Max(S)}], seq[Max(S)])]
           h == CHOOSE f : f = W(f)
<1>1. \A f : W(f) = Parts(<<"pan">>, s, seq, n, f)
  BY DEF Parts
<1>2. h = W(h)
  <2> HIDE DEF W
  <2>1. \E f : f = W(f)
    BY <1>1, PartsExist
  <2>2. QED BY <2>1
<1>3. FoldLeft(SetVoicePan, s, seq) = h[DOMAIN seq]
  BY DEF FoldLeft, MapThenFoldSet, Step
<1> HIDE DEF h, W
<1>4. h = Parts(<<"pan">>, s, seq, n, h)
  BY <1>1, <1>2
<1>5. PICK g : Passes(<<"pan">>, s, seq, n, g) /\ g[n] = h[1..n]
  BY <1>4, Passing
<1>6. g[n] = h[DOMAIN seq]
  BY <1>5
<1>7. QED BY <1>3, <1>5, <1>6

\* ... the one of AL_KillSustainedVoices, ...
LEMMA KillFold ==
    ASSUME NEW c, NEW by, NEW s, NEW n \in Nat, DOMAIN VoicesOf(s, c) = 1..n
    PROVE  \E g : /\ Passes(<<"kill", c, by>>, s, VoicesOf(s, c), n, g)
                  /\ KillSustained(s, c, by) = g[n]
<1> DEFINE seq == VoicesOf(s, c)
           Op(a, b) == Step(<<"kill", c, by>>, a, b)
           W(f) == [S \in SUBSET DOMAIN seq |->
                       IF S = {} THEN s ELSE Op(f[S \ {Max(S)}], seq[Max(S)])]
           h == CHOOSE f : f = W(f)
<1>1. \A f : W(f) = Parts(<<"kill", c, by>>, s, seq, n, f)
  BY DEF Parts
<1>2. h = W(h)
  <2> HIDE DEF W, seq
  <2>1. \E f : f = W(f)
    BY <1>1, PartsExist
  <2>2. QED BY <2>1
<1>3. KillSustained(s, c, by) = h[DOMAIN seq]
  BY DEF KillSustained, ForVoices, FoldLeft, MapThenFoldSet, Step
<1>4. DOMAIN seq = 1..n
  OBVIOUS
<1> HIDE DEF h, W, seq
<1>5. h = Parts(<<"kill", c, by>>, s, seq, n, h)
  BY <1>1, <1>2
<1>6. PICK g : Passes(<<"kill", c, by>>, s, seq, n, g) /\ g[n] = h[1..n]
  BY <1>5, Passing
<1>7. g[n] = h[DOMAIN seq]
  BY <1>4, <1>6
<1>8. QED BY <1>3, <1>6, <1>7 DEF seq

\* ... those of AL_RunTimers, over the voices ...
LEMMA WaveFold ==
    ASSUME NEW c, NEW w, NEW s, NEW n \in Nat, DOMAIN VoicesOf(s, c) = 1..n
    PROVE  \E g : Passes(<<"wave", w>>, s, VoicesOf(s, c), n, g) /\ WaveAll(s, c, w) = g[n]
<1> DEFINE seq == VoicesOf(s, c)
           Op(a, b) == Step(<<"wave", w>>, a, b)
           W(f) == [S \in SUBSET DOMAIN seq |->
                       IF S = {} THEN s ELSE Op(f[S \ {Max(S)}], seq[Max(S)])]
           h == CHOOSE f : f = W(f)
<1>1. \A f : W(f) = Parts(<<"wave", w>>, s, seq, n, f)
  BY DEF Parts
<1>2. h = W(h)
  <2> HIDE DEF W, seq
  <2>1. \E f : f = W(f)
    BY <1>1, PartsExist
  <2>2. QED BY <2>1
<1>3. WaveAll(s, c, w) = h[DOMAIN seq]
  BY DEF WaveAll, ForVoices, FoldLeft, MapThenFoldSet, Step
<1>4. DOMAIN seq = 1..n
  OBVIOUS
<1> HIDE DEF h, W, seq
<1>5. h = Parts(<<"wave", w>>, s, seq, n, h)
  BY <1>1, <1>2
<1>6. PICK g : Passes(<<"wave", w>>, s, seq, n, g) /\ g[n] = h[1..n]
  BY <1>5, Passing
<1>7. g[n] = h[DOMAIN seq]
  BY <1>4, <1>6
<1>8. QED BY <1>3, <1>6, <1>7 DEF seq

\* ... and over the channels, ...
LEMMA WavedFold ==
    ASSUME NEW w, NEW s, NEW n \in Nat, DOMAIN SetToSeq(Channels) = 1..n
    PROVE  \E g : Passes(<<"waved", w>>, s, SetToSeq(Channels), n, g) /\ Ticked(s, w) = g[n]
<1> DEFINE seq == SetToSeq(Channels)
           Op(a, b) == Step(<<"waved", w>>, a, b)
           W(f) == [S \in SUBSET DOMAIN seq |->
                       IF S = {} THEN s ELSE Op(f[S \ {Max(S)}], seq[Max(S)])]
           h == CHOOSE f : f = W(f)
<1>1. \A f : W(f) = Parts(<<"waved", w>>, s, seq, n, f)
  BY DEF Parts
<1>2. h = W(h)
  <2> HIDE DEF W, seq
  <2>1. \E f : f = W(f)
    BY <1>1, PartsExist
  <2>2. QED BY <2>1
<1>3. Ticked(s, w) = h[DOMAIN seq]
  BY DEF Ticked, FoldLeft, MapThenFoldSet, Step
<1>4. DOMAIN seq = 1..n
  OBVIOUS
<1> HIDE DEF h, W, seq
<1>5. h = Parts(<<"waved", w>>, s, seq, n, h)
  BY <1>1, <1>2
<1>6. PICK g : Passes(<<"waved", w>>, s, seq, n, g) /\ g[n] = h[1..n]
  BY <1>5, Passing
<1>7. g[n] = h[DOMAIN seq]
  BY <1>4, <1>6
<1>8. QED BY <1>3, <1>6, <1>7 DEF seq

\* ... and the one of AL_ResetVoices that fills the pool.
LEMMA AddFold ==
    ASSUME NEW n \in Nat
    PROVE  \E g : /\ Passes(<<"add">>, Lists!Empty, [i \in 1..n |-> i - 1], n, g)
                  /\ Pooled(n) = g[n]
<1> DEFINE seq == [i \in 1..n |-> i - 1]
           Op(a, b) == Step(<<"add">>, a, b)
           W(f) == [S \in SUBSET DOMAIN seq |->
                       IF S = {} THEN Lists!Empty ELSE Op(f[S \ {Max(S)}], seq[Max(S)])]
           h == CHOOSE f : f = W(f)
<1>1. \A f : W(f) = Parts(<<"add">>, Lists!Empty, seq, n, f)
  BY DEF Parts
<1>2. h = W(h)
  <2> HIDE DEF W, seq
  <2>1. \E f : f = W(f)
    BY <1>1, PartsExist
  <2>2. QED BY <2>1
<1>3. Pooled(n) = h[DOMAIN seq]
  BY DEF Pooled, FoldLeft, MapThenFoldSet, Step
<1>4. DOMAIN seq = 1..n
  OBVIOUS
<1> HIDE DEF h, W, seq
<1>5. h = Parts(<<"add">>, Lists!Empty, seq, n, h)
  BY <1>1, <1>2
<1>6. PICK g : Passes(<<"add">>, Lists!Empty, seq, n, g) /\ g[n] = h[1..n]
  BY <1>5, Passing
<1>7. g[n] = h[DOMAIN seq]
  BY <1>4, <1>6
<1>8. QED BY <1>3, <1>6, <1>7 DEF seq

-----------------------------------------------------------------------------
(* The voices, the channels and the chip.                                  *)

\* What AlMidi calls al, as far as its fields are needed.
IsAl(s) ==
    /\ DOMAIN s = {"lists", "voice", "channel", "opl3", "chip"} /\ s.opl3 \in BOOLEAN
    /\ DOMAIN s.voice = Voices /\ DOMAIN s.channel = Channels /\ DOMAIN s.chip = Cells
    /\ \A v \in Voices : /\ DOMAIN s.voice[v] = DOMAIN Fresh /\ s.voice[v].on \in BOOLEAN
                         /\ s.voice[v].age \in 0..MaxAge
    /\ \A c \in Channels : DOMAIN s.channel[c] = DOMAIN Channel(FALSE)
    /\ \A x \in Cells : DOMAIN s.chip[x] = DOMAIN Flushed /\ s.chip[x].on \in BOOLEAN

\* Nothing but the registers of the voice v differs.
OnlyCell(s, t, v) ==
    /\ t.lists = s.lists /\ t.voice = s.voice /\ t.channel = s.channel /\ t.opl3 = s.opl3
    /\ \A x \in Cells : x # Cell(s.opl3, v) => t.chip[x] = s.chip[x]

\* Every voice has its registers.
LEMMA CellIn ==
    ASSUME NEW v \in Voices, NEW b \in BOOLEAN
    PROVE  Cell(b, v) \in Cells
<1>1. v % NumVoices \in 0..(NumVoices - 1)
  BY AlAssumption DEF Voices
<1>2. QED BY <1>1 DEF Cell, Cells

\* Some of the registers of a voice are written.
LEMMA CellSet ==
    ASSUME NEW s, IsAl(s), NEW v \in Voices, NEW cell,
           DOMAIN cell = DOMAIN Flushed, cell.on \in BOOLEAN
    PROVE  LET t == [s EXCEPT !.chip[Cell(s.opl3, v)] = cell]
           IN IsAl(t) /\ OnlyCell(s, t, v) /\ t.chip[Cell(s.opl3, v)] = cell
<1> DEFINE x == Cell(s.opl3, v)
           t == [s EXCEPT !.chip[x] = cell]
<1>1. x \in Cells
  BY CellIn DEF IsAl
<1>2. t = [s EXCEPT !.chip = [s.chip EXCEPT ![x] = cell]]
  BY <1>1 DEF IsAl
<1> HIDE DEF t, x
<1>5. /\ DOMAIN t = {"lists", "voice", "channel", "opl3", "chip"}
      /\ t.lists = s.lists /\ t.voice = s.voice /\ t.channel = s.channel /\ t.opl3 = s.opl3
      /\ t.chip = [s.chip EXCEPT ![x] = cell]
  BY <1>2 DEF IsAl
<1>6. /\ t.chip[x] = cell /\ DOMAIN t.chip = Cells
      /\ \A y \in Cells : y # x => t.chip[y] = s.chip[y]
  BY <1>1, <1>5 DEF IsAl
<1>7. OnlyCell(s, t, v)
  BY <1>5, <1>6 DEF OnlyCell, x
<1>8. IsAl(t)
  BY <1>5, <1>6 DEF IsAl
<1>9. QED BY <1>6, <1>7, <1>8 DEF t, x

\* AL_SetVoicePitch writes to the registers of its voice.
PitchDone(s, t, v) ==
    LET x == Cell(s.opl3, v)
    IN /\ IsAl(t) /\ OnlyCell(s, t, v)
       /\ t.chip[x].on = s.voice[v].on
       /\ t.chip[x].pitch = PitchOf(s.channel[s.voice[v].channel], s.voice[v], bank)
       /\ t.chip[x].timbre = s.chip[x].timbre /\ t.chip[x].level = s.chip[x].level
       /\ t.chip[x].pan = s.chip[x].pan

\* AL_SetVoicePitch.
LEMMA PitchSet ==
    ASSUME NEW s, IsAl(s), NEW v \in Voices
    PROVE  PitchDone(s, SetVoicePitch(s, v), v)
<1> DEFINE x == Cell(s.opl3, v)
           cell == [s.chip[x] EXCEPT !.on = s.voice[v].on,
                       !.pitch = PitchOf(s.channel[s.voice[v].channel], s.voice[v], bank)]
<1>1. x \in Cells
  BY CellIn DEF IsAl
<1>2. SetVoicePitch(s, v) = [s EXCEPT !.chip[x] = cell]
  BY <1>1 DEF SetVoicePitch, IsAl, Flushed
<1>3. DOMAIN s.chip[x] = {"on", "pitch", "timbre", "level", "pan"} /\ s.voice[v].on \in BOOLEAN
  BY <1>1 DEF IsAl, Flushed
<1>4. /\ DOMAIN cell = {"on", "pitch", "timbre", "level", "pan"}
      /\ cell.on = s.voice[v].on
      /\ cell.pitch = PitchOf(s.channel[s.voice[v].channel], s.voice[v], bank)
      /\ cell.timbre = s.chip[x].timbre /\ cell.level = s.chip[x].level
      /\ cell.pan = s.chip[x].pan
  BY <1>3
<1>5. DOMAIN cell = DOMAIN Flushed
  BY <1>4 DEF Flushed
<1> HIDE DEF cell
<1>6. LET t == SetVoicePitch(s, v)
      IN IsAl(t) /\ OnlyCell(s, t, v) /\ t.chip[x] = cell
  BY <1>2, <1>3, <1>4, <1>5, CellSet DEF x
<1>7. QED BY <1>4, <1>6 DEF PitchDone, x

\* AL_SetVoiceVolume writes the levels.
VolumeDone(s, t, v) ==
    LET x == Cell(s.opl3, v)
    IN /\ IsAl(t) /\ OnlyCell(s, t, v)
       /\ t.chip[x].level = WithVolume(s.chip[x], s.channel[s.voice[v].channel],
                                       s.voice[v], bank[s.voice[v].timbre]).level
       /\ t.chip[x].on = s.chip[x].on /\ t.chip[x].pitch = s.chip[x].pitch
       /\ t.chip[x].timbre = s.chip[x].timbre /\ t.chip[x].pan = s.chip[x].pan

\* AL_SetVoiceVolume.
LEMMA VolumeSet ==
    ASSUME NEW s, IsAl(s), NEW v \in Voices
    PROVE  VolumeDone(s, SetVoiceVolume(s, v), v)
<1> DEFINE x == Cell(s.opl3, v)
           cell == WithVolume(s.chip[x], s.channel[s.voice[v].channel], s.voice[v],
                              bank[s.voice[v].timbre])
<1>1. x \in Cells
  BY CellIn DEF IsAl
<1>2. SetVoiceVolume(s, v) = [s EXCEPT !.chip[x] = cell]
  BY <1>1 DEF SetVoiceVolume, IsAl
<1>3. DOMAIN s.chip[x] = {"on", "pitch", "timbre", "level", "pan"} /\ s.chip[x].on \in BOOLEAN
  BY <1>1 DEF IsAl, Flushed
<1>4. /\ DOMAIN cell = {"on", "pitch", "timbre", "level", "pan"} /\ cell.on = s.chip[x].on
      /\ cell.pitch = s.chip[x].pitch /\ cell.timbre = s.chip[x].timbre
      /\ cell.pan = s.chip[x].pan
  BY <1>3 DEF WithVolume
<1>5. DOMAIN cell = DOMAIN Flushed
  BY <1>4 DEF Flushed
<1> HIDE DEF cell
<1>6. LET t == SetVoiceVolume(s, v)
      IN IsAl(t) /\ OnlyCell(s, t, v) /\ t.chip[x] = cell
  BY <1>2, <1>3, <1>4, <1>5, CellSet DEF x
<1>7. QED BY <1>4, <1>6 DEF VolumeDone, x, cell

\* AL_SetVoicePan writes the panning, to an OPL3.
PanDone(s, t, v) ==
    LET x == Cell(s.opl3, v)
    IN /\ IsAl(t) /\ OnlyCell(s, t, v)
       /\ t.chip[x].pan = IF s.opl3 THEN PannedTo(s.chip[x],
                                             s.channel[s.voice[v].channel].pan).pan
                          ELSE s.chip[x].pan
       /\ t.chip[x].on = s.chip[x].on /\ t.chip[x].pitch = s.chip[x].pitch
       /\ t.chip[x].timbre = s.chip[x].timbre /\ t.chip[x].level = s.chip[x].level

\* AL_SetVoicePan.
LEMMA PanSet ==
    ASSUME NEW s, IsAl(s), NEW v \in Voices
    PROVE  PanDone(s, SetVoicePan(s, v), v)
<1>1. CASE ~s.opl3
  <2>1. SetVoicePan(s, v) = s
    BY <1>1 DEF SetVoicePan
  <2>2. OnlyCell(s, s, v)
    BY DEF OnlyCell
  <2>3. QED BY <1>1, <2>1, <2>2 DEF PanDone
<1>2. CASE s.opl3
  <2> DEFINE x == Cell(s.opl3, v)
             cell == PannedTo(s.chip[x], s.channel[s.voice[v].channel].pan)
  <2>1. x \in Cells /\ s.opl3 = TRUE
    BY <1>2, CellIn DEF IsAl
  <2>2. SetVoicePan(s, v) = [s EXCEPT !.chip[x] = cell]
    BY <1>2, <2>1 DEF SetVoicePan, IsAl
  <2>3. /\ DOMAIN s.chip[x] = {"on", "pitch", "timbre", "level", "pan"}
        /\ s.chip[x].on \in BOOLEAN
    BY <2>1 DEF IsAl, Flushed
  <2>4. /\ DOMAIN cell = {"on", "pitch", "timbre", "level", "pan"} /\ cell.on = s.chip[x].on
        /\ cell.pitch = s.chip[x].pitch /\ cell.timbre = s.chip[x].timbre
        /\ cell.level = s.chip[x].level
    BY <2>3 DEF PannedTo
  <2>5. DOMAIN cell = DOMAIN Flushed
    BY <2>4 DEF Flushed
  <2> HIDE DEF cell
  <2>6. LET t == SetVoicePan(s, v)
        IN IsAl(t) /\ OnlyCell(s, t, v) /\ t.chip[x] = cell
    BY <2>2, <2>3, <2>4, <2>5, CellSet DEF x
  <2>7. QED BY <1>2, <2>4, <2>6 DEF PanDone, x, cell
<1>3. QED BY <1>1, <1>2 DEF IsAl

\* AL_VoiceOff keys the voice off.
OffDone(s, t, v) ==
    LET x == Cell(s.opl3, v)
    IN /\ IsAl(t) /\ OnlyCell(s, t, v) /\ ~t.chip[x].on
       /\ t.chip[x].pitch = s.chip[x].pitch
       /\ t.chip[x].timbre = s.chip[x].timbre /\ t.chip[x].level = s.chip[x].level
       /\ t.chip[x].pan = s.chip[x].pan

\* AL_VoiceOff.
LEMMA OffSet ==
    ASSUME NEW s, IsAl(s), NEW v \in Voices
    PROVE  OffDone(s, VoiceOff(s, v), v)
<1> DEFINE x == Cell(s.opl3, v)
           cell == [s.chip[x] EXCEPT !.on = FALSE]
<1>1. x \in Cells
  BY CellIn DEF IsAl
<1>2. VoiceOff(s, v) = [s EXCEPT !.chip[x] = cell]
  BY <1>1 DEF VoiceOff, IsAl
<1>3. DOMAIN s.chip[x] = {"on", "pitch", "timbre", "level", "pan"}
  BY <1>1 DEF IsAl, Flushed
<1>4. /\ DOMAIN cell = {"on", "pitch", "timbre", "level", "pan"} /\ cell.on = FALSE
      /\ cell.pitch = s.chip[x].pitch /\ cell.timbre = s.chip[x].timbre
      /\ cell.level = s.chip[x].level /\ cell.pan = s.chip[x].pan
  BY <1>3
<1>5. DOMAIN cell = DOMAIN Flushed
  BY <1>4 DEF Flushed
<1> HIDE DEF cell
<1>6. LET t == VoiceOff(s, v)
      IN IsAl(t) /\ OnlyCell(s, t, v) /\ t.chip[x] = cell
  <2>1. cell.on \in BOOLEAN
    BY <1>4
  <2>2. QED BY <1>2, <1>5, <2>1, CellSet DEF x
<1>7. QED BY <1>4, <1>6 DEF OffDone, x

\* AL_SetVoiceTimbre: the voice has the timbre of its note then, and its registers do, with
\* the key up and the volume off, unless both had it.
TimbreDone(s, t, v) ==
    LET x == Cell(s.opl3, v)
        patch == PatchOf(s.channel[s.voice[v].channel], s.voice[v].key)
    IN /\ IsAl(t) /\ t.lists = s.lists /\ t.channel = s.channel /\ t.opl3 = s.opl3
       /\ \A u \in Voices \ {v} : t.voice[u] = s.voice[u]
       /\ \A y \in Cells : y # x => t.chip[y] = s.chip[y]
       /\ \A f \in DOMAIN Fresh \ {"timbre"} : t.voice[v][f] = s.voice[v][f]
       /\ t.voice[v].timbre = patch
       /\ s.voice[v].timbre = patch => t.chip[x] = s.chip[x]
       /\ s.voice[v].timbre # patch =>
             ~t.chip[x].on /\ t.chip[x].timbre = patch
             /\ t.chip[x].level = <<bank[patch].level[1], 0>>

\* AL_SetVoiceTimbre.
LEMMA TimbreSet ==
    ASSUME NEW s, IsAl(s), NEW v \in Voices
    PROVE  TimbreDone(s, SetVoiceTimbre(s, v), v)
<1> DEFINE x == Cell(s.opl3, v)
           patch == PatchOf(s.channel[s.voice[v].channel], s.voice[v].key)
           pan == s.channel[s.voice[v].channel].pan
           cell == IF s.opl3 THEN PannedTo(WithTimbre(s.chip[x], bank, patch), pan)
                   ELSE WithTimbre(s.chip[x], bank, patch)
           r == [s EXCEPT !.voice[v].timbre = patch]
           t == SetVoiceTimbre(s, v)
<1>0. x \in Cells
  BY CellIn DEF IsAl
<1>1. CASE s.voice[v].timbre = patch
  <2>1. t = s
    BY <1>1 DEF SetVoiceTimbre
  <2>2. QED BY <1>1, <2>1 DEF TimbreDone
<1>2. CASE s.voice[v].timbre # patch
  <2>1. t = [r EXCEPT !.chip[x] = cell]
    BY <1>0, <1>2 DEF SetVoiceTimbre, IsAl
  <2>2. /\ DOMAIN r = {"lists", "voice", "channel", "opl3", "chip"}
        /\ r.lists = s.lists /\ r.channel = s.channel /\ r.opl3 = s.opl3 /\ r.chip = s.chip
        /\ r.voice = [s.voice EXCEPT ![v] = [s.voice[v] EXCEPT !.timbre = patch]]
    BY DEF IsAl
  <2>3. /\ DOMAIN r.voice = Voices /\ r.voice[v] = [s.voice[v] EXCEPT !.timbre = patch]
        /\ \A u \in Voices \ {v} : r.voice[u] = s.voice[u]
    BY <2>2 DEF IsAl
  <2>4. /\ DOMAIN r.voice[v] = DOMAIN Fresh /\ r.voice[v].timbre = patch
        /\ \A f \in DOMAIN Fresh \ {"timbre"} : r.voice[v][f] = s.voice[v][f]
    BY <2>3 DEF IsAl, Fresh
  <2>5. r.voice[v].on \in BOOLEAN /\ r.voice[v].age \in 0..MaxAge
    BY <2>4 DEF IsAl, Fresh
  <2> HIDE DEF r
  <2>6. IsAl(r)
    BY <2>2, <2>3, <2>4, <2>5 DEF IsAl
  <2>7. DOMAIN s.chip[x] = {"on", "pitch", "timbre", "level", "pan"}
    BY <1>0 DEF IsAl, Flushed
  <2>8. /\ DOMAIN cell = {"on", "pitch", "timbre", "level", "pan"} /\ cell.on = FALSE
        /\ cell.timbre = patch /\ cell.level = <<bank[patch].level[1], 0>>
    BY <2>7 DEF PannedTo, WithTimbre
  <2>9. DOMAIN cell = DOMAIN Flushed
    BY <2>8 DEF Flushed
  <2> HIDE DEF cell, patch, t
  <2>10. IsAl(t) /\ OnlyCell(r, t, v) /\ t.chip[x] = cell
    <3>1. cell.on \in BOOLEAN /\ x = Cell(r.opl3, v)
      BY <2>2, <2>8
    <3>2. QED BY <2>1, <2>6, <2>9, <3>1, CellSet
  <2>11. /\ t.lists = s.lists /\ t.voice = r.voice /\ t.channel = s.channel /\ t.opl3 = s.opl3
         /\ \A y \in Cells : y # x => t.chip[y] = s.chip[y]
    BY <2>2, <2>10 DEF OnlyCell, x
  <2>12. /\ \A u \in Voices \ {v} : t.voice[u] = s.voice[u]
         /\ \A f \in DOMAIN Fresh \ {"timbre"} : t.voice[v][f] = s.voice[v][f]
         /\ t.voice[v].timbre = patch
    BY <2>3, <2>4, <2>11
  <2>13. ~t.chip[x].on /\ t.chip[x].timbre = patch
         /\ t.chip[x].level = <<bank[patch].level[1], 0>>
    BY <2>8, <2>10
  <2> HIDE DEF x
  <2>14. QED BY <1>2, <2>10, <2>11, <2>12, <2>13 DEF TimbreDone, x, patch, t
<1>3. QED BY <1>1, <1>2

\* The voices of the card.
Has(opl3, v) == opl3 \/ v < NumVoices

\* Of a voice, its number on its half of the chip.
LEMMA Modulo ==
    ASSUME NEW v \in Voices
    PROVE  v % NumVoices = IF v < NumVoices THEN v ELSE v - NumVoices
<1>1. NumVoices \in Nat /\ NumVoices > 0 /\ v \in Int /\ 0 <= v /\ v < NumVoices + NumVoices
  BY AlAssumption DEF Voices
<1> DEFINE q == v \div NumVoices
           r == v % NumVoices
<1>2. v = NumVoices * q + r /\ q \in Int /\ r \in Int /\ 0 <= r /\ r < NumVoices
  BY <1>1
<1>3. q = 0 \/ q = 1
  <2>1. q >= 0
    BY <1>1
  <2>2. ~(q >= 2)
    <3>1. SUFFICES ASSUME q >= 2 PROVE FALSE
      OBVIOUS
    <3> HIDE DEF q, r
    <3>2. NumVoices * q >= NumVoices * 2
      BY <1>1, <1>2, <3>1
    <3>3. QED BY <1>1, <1>2, <3>2
  <2> HIDE DEF q
  <2>3. QED BY <1>2, <2>1, <2>2
<1> HIDE DEF q
<1>4. CASE q = 0
  BY <1>1, <1>2, <1>4
<1>5. CASE q = 1
  BY <1>1, <1>2, <1>5
<1>6. QED BY <1>3, <1>4, <1>5

\* No two voices of the card have the same registers.
LEMMA CellApart ==
    ASSUME NEW b \in BOOLEAN, NEW u \in Voices, NEW v \in Voices, Has(b, u), Has(b, v),
           Cell(b, u) = Cell(b, v)
    PROVE  u = v
<1>1. u \in Int /\ v \in Int /\ NumVoices \in Int
  BY AlAssumption DEF Voices
<1>2. u % NumVoices = v % NumVoices
  BY DEF Cell
<1>3. b => ((u < NumVoices) <=> (v < NumVoices))
  BY DEF Cell
<1>4. ~b => u < NumVoices /\ v < NumVoices
  BY DEF Has
<1>5. (u < NumVoices) <=> (v < NumVoices)
  BY <1>3, <1>4
<1>6. QED BY <1>1, <1>2, <1>5, Modulo

-----------------------------------------------------------------------------
(* The loops over the voices of a channel that only write registers.       *)

\* The calls that tell the chip of one voice.
Setters == {<<"pitch">>, <<"volume">>, <<"pan">>}

\* The same but for the chip.
SameMusic(s, t) ==
    t.lists = s.lists /\ t.voice = s.voice /\ t.channel = s.channel /\ t.opl3 = s.opl3

\* What is written does not depend on the registers of other voices.
LEMMA SetterLocal ==
    ASSUME NEW x \in Setters, NEW s, IsAl(s), NEW t, IsAl(t), SameMusic(s, t),
           NEW v \in Voices, t.chip[Cell(s.opl3, v)] = s.chip[Cell(s.opl3, v)]
    PROVE  /\ IsAl(Step(x, t, v)) /\ OnlyCell(t, Step(x, t, v), v)
           /\ Step(x, t, v).chip[Cell(s.opl3, v)] = Step(x, s, v).chip[Cell(s.opl3, v)]
<1> DEFINE c == Cell(s.opl3, v)
<1>1. c \in Cells /\ t.opl3 = s.opl3 /\ s.opl3 \in BOOLEAN /\ t.voice[v] = s.voice[v]
      /\ t.channel[s.voice[v].channel] = s.channel[s.voice[v].channel] /\ t.chip[c] = s.chip[c]
  BY CellIn DEF IsAl, SameMusic
<1>2. CASE x = <<"pitch">>
  <2>1. \A r : Step(x, r, v) = SetVoicePitch(r, v)
    BY <1>2 DEF Step
  <2>2. SetVoicePitch(t, v).chip[c] = SetVoicePitch(s, v).chip[c]
    BY <1>1 DEF SetVoicePitch, IsAl
  <2>3. QED BY <2>1, <2>2, PitchSet DEF PitchDone
<1>3. CASE x = <<"volume">>
  <2>1. \A r : Step(x, r, v) = SetVoiceVolume(r, v)
    BY <1>3 DEF Step
  <2>2. SetVoiceVolume(t, v).chip[c] = SetVoiceVolume(s, v).chip[c]
    BY <1>1 DEF SetVoiceVolume, IsAl
  <2>3. QED BY <2>1, <2>2, VolumeSet DEF VolumeDone
<1>4. CASE x = <<"pan">>
  <2>1. \A r : Step(x, r, v) = SetVoicePan(r, v)
    BY <1>4 DEF Step
  <2>2. SetVoicePan(t, v).chip[c] = SetVoicePan(s, v).chip[c]
    BY <1>1 DEF SetVoicePan, IsAl
  <2>3. QED BY <2>1, <2>2, PanSet DEF PanDone
<1>5. QED BY <1>2, <1>3, <1>4 DEF Setters

\* After the first m voices of a loop.
SetSoFar(x, s, seq, m, t) ==
    /\ IsAl(t) /\ SameMusic(s, t)
    /\ \A i \in 1..m : LET c == Cell(s.opl3, seq[i])
                       IN t.chip[c] = Step(x, s, seq[i]).chip[c]
    /\ \A y \in Cells : (\A i \in 1..m : y # Cell(s.opl3, seq[i])) => t.chip[y] = s.chip[y]

\* A loop of setters over voices with cells of their own.
LEMMA SetterLoop ==
    ASSUME NEW x \in Setters, NEW s, IsAl(s), NEW n \in Nat, NEW seq \in [1..n -> Voices],
           \A i, j \in 1..n : Cell(s.opl3, seq[i]) = Cell(s.opl3, seq[j]) => i = j,
           NEW g, Passes(x, s, seq, n, g)
    PROVE  SetSoFar(x, s, seq, n, g[n])
<1> DEFINE I == {m \in Nat : m <= n => SetSoFar(x, s, seq, m, g[m])}
<1>1. 0 \in I
  <2>1. g[0] = s
    BY DEF Passes
  <2>2. QED BY <2>1 DEF SetSoFar, SameMusic
<1>2. ASSUME NEW m \in Nat, m \in I PROVE m + 1 \in I
  <2> SUFFICES ASSUME m + 1 <= n PROVE SetSoFar(x, s, seq, m + 1, g[m + 1])
    OBVIOUS
  <2> DEFINE t == g[m]
             v == seq[m + 1]
             u == Step(x, t, v)
             c == Cell(s.opl3, v)
  <2>1. SetSoFar(x, s, seq, m, t) /\ m + 1 \in 1..n /\ v \in Voices /\ c \in Cells
    BY <1>2, CellIn DEF IsAl
  <2>2. g[m + 1] = u
    <3>1. g[m + 1] = Step(x, g[(m + 1) - 1], seq[m + 1])
      BY <2>1 DEF Passes
    <3>2. QED BY <3>1
  <2>3. \A i \in 1..m : c # Cell(s.opl3, seq[i])
    BY <2>1
  <2>4. IsAl(t) /\ SameMusic(s, t) /\ t.chip[c] = s.chip[c]
    BY <2>1, <2>3 DEF SetSoFar
  <2>5. IsAl(u) /\ OnlyCell(t, u, v) /\ u.chip[c] = Step(x, s, v).chip[c]
    BY <2>1, <2>4, SetterLocal
  <2>6. SameMusic(s, u) /\ \A y \in Cells : y # c => u.chip[y] = t.chip[y]
    BY <2>4, <2>5 DEF SameMusic, OnlyCell
  <2> HIDE DEF t, u
  <2>7. ASSUME NEW i \in 1..(m + 1)
        PROVE  u.chip[Cell(s.opl3, seq[i])] = Step(x, s, seq[i]).chip[Cell(s.opl3, seq[i])]
    <3>1. CASE i = m + 1
      BY <2>5, <3>1
    <3>2. CASE i # m + 1
      <4>1. i \in 1..m /\ i \in 1..n /\ seq[i] \in Voices
        BY <2>1, <3>2
      <4>2. Cell(s.opl3, seq[i]) \in Cells /\ Cell(s.opl3, seq[i]) # c
        BY <2>3, <4>1, CellIn DEF IsAl
      <4>3. QED BY <2>1, <2>6, <4>1, <4>2 DEF SetSoFar
    <3>3. QED BY <3>1, <3>2
  <2>8. ASSUME NEW y \in Cells, \A i \in 1..(m + 1) : y # Cell(s.opl3, seq[i])
        PROVE  u.chip[y] = s.chip[y]
    <3>1. y # c /\ \A i \in 1..m : y # Cell(s.opl3, seq[i])
      BY <2>8
    <3>2. QED BY <2>1, <2>6, <3>1 DEF SetSoFar
  <2>9. QED BY <2>2, <2>5, <2>6, <2>7, <2>8 DEF SetSoFar
<1> HIDE DEF I
<1>3. n \in I
  BY <1>1, <1>2, AllNumbers
<1>4. QED BY <1>3 DEF I

-----------------------------------------------------------------------------
(* Where the voices are, and what the chip sounds.                         *)

\* Every voice of the card is in one list, which is that of its channel, but for the
\* voices of L, which are in none.
Placed(s, L) ==
    /\ Kept(s.lists)
    /\ \A c \in Channels : \A v \in InList(s.lists, c) : s.voice[v].channel = c
    /\ \A v \in Voices : (\E k \in K : v \in InList(s.lists, k))
                            <=> (Has(s.opl3, v) /\ v \notin L)

\* The chip sounds the voices whose key is down, and no voice that does not play; but for
\* those whose registers a call of the program has hit.
Sounds(s) ==
    /\ \A v \in Playing(s) : s.voice[v].on /\ Cell(s.opl3, v) \notin astray
                                 => s.chip[Cell(s.opl3, v)].on
    /\ \A x \in Cells : s.chip[x].on /\ x \notin astray
                            => \E v \in Playing(s) : Cell(s.opl3, v) = x

\* What holds of the voices between any two calls.
Well(s, L) == IsAl(s) /\ Placed(s, L) /\ Sounds(s)

\* The pool is not a channel.
LEMMA PoolApart == Pool \in K /\ Pool \notin Channels /\ Channels \subseteq K
BY AlAssumption DEF K, Pool, None

\* The voices of a list as the code goes over them.
LEMMA ListSeq ==
    ASSUME NEW l, Kept(l), NEW k \in K
    PROVE  \E n \in Nat : LET seq == Lists!Nodes(l, k) IN
             /\ seq \in [1..n -> Voices] /\ DOMAIN seq = 1..n
             /\ \A i, j \in 1..n : seq[i] = seq[j] => i = j
             /\ InList(l, k) = {seq[i] : i \in 1..n}
             /\ n = Len(seq) /\ (seq = <<>> <=> n = 0)
             /\ n > 0 => Head(seq) = seq[1] /\ Head(seq) \in InList(l, k)
<1>1. PICK m, c : Rows(l, m, c)
  BY DEF Kept
<1> DEFINE n == m[k]
           seq == Lists!Nodes(l, k)
<1>2. seq = c[k] /\ c[k] \in [1..n -> Voices] /\ n \in Nat /\ InList(l, k) = Who(n, c[k])
  BY <1>1, RowsNodes
<1>3. \A i, j \in 1..n : c[k][i] = c[k][j] => i = j
  BY <1>1 DEF Rows, InRow
<1> HIDE DEF n, seq
<1>4. seq \in [1..n -> Voices] /\ DOMAIN seq = 1..n
  BY <1>2
<1>5. InList(l, k) = {seq[i] : i \in 1..n}
  BY <1>2 DEF Who
<1>6. n = Len(seq) /\ seq \in Seq(Voices)
  BY <1>2, <1>4
<1>7. seq = <<>> <=> n = 0
  BY <1>2, <1>6
<1>8. n > 0 => Head(seq) = seq[1] /\ 1 \in 1..n
  BY <1>2, <1>6
<1>9. n > 0 => Head(seq) \in InList(l, k)
  BY <1>5, <1>8
<1>10. QED BY <1>2, <1>3, <1>4, <1>5, <1>6, <1>7, <1>8, <1>9 DEF n, seq

\* Who plays.
LEMMA WhoPlays ==
    ASSUME NEW s
    PROVE  \A v : v \in Playing(s) <=> \E c \in Channels : v \in InList(s.lists, c)
BY DEF Playing, VoicesOf, InList

\* The voices of a list are voices of the card; so are those that play.
LEMMA Listed ==
    ASSUME NEW s, NEW L, Placed(s, L)
    PROVE  /\ \A k \in K : \A v \in InList(s.lists, k) : v \in Voices /\ Has(s.opl3, v)
           /\ \A v \in Playing(s) : /\ v \in Voices /\ Has(s.opl3, v)
                                    /\ v \notin InList(s.lists, Pool) /\ v \notin L
                                    /\ s.voice[v].channel \in Channels
                                    /\ v \in InList(s.lists, s.voice[v].channel)
           /\ \A k, m \in K : \A v : v \in InList(s.lists, k) /\ v \in InList(s.lists, m)
                                        => k = m
<1>1. \A k \in K : InList(s.lists, k) \subseteq Voices
      /\ \A m \in K \ {k} : InList(s.lists, k) \cap InList(s.lists, m) = {}
  BY KeptLists DEF Placed
<1>2. \A k, m \in K : \A v : v \in InList(s.lists, k) /\ v \in InList(s.lists, m) => k = m
  BY <1>1
<1>3. \A k \in K : \A v \in InList(s.lists, k) : v \in Voices /\ Has(s.opl3, v) /\ v \notin L
  BY <1>1 DEF Placed
<1>4. ASSUME NEW v \in Playing(s)
      PROVE  /\ v \in Voices /\ Has(s.opl3, v)
             /\ v \notin InList(s.lists, Pool) /\ v \notin L
             /\ s.voice[v].channel \in Channels
             /\ v \in InList(s.lists, s.voice[v].channel)
  <2>1. PICK c \in Channels : v \in InList(s.lists, c)
    BY WhoPlays
  <2>2. s.voice[v].channel = c
    BY <2>1 DEF Placed
  <2>3. QED BY <1>2, <1>3, <2>1, <2>2, PoolApart
<1>5. QED BY <1>2, <1>3, <1>4

\* What a loop over the voices of channel c of s comes to.
AllSet(x, s, c, t) ==
    /\ IsAl(t) /\ SameMusic(s, t)
    /\ \A v \in InList(s.lists, c) :
          t.chip[Cell(s.opl3, v)] = Step(x, s, v).chip[Cell(s.opl3, v)]
    /\ \A y \in Cells : (\A v \in InList(s.lists, c) : y # Cell(s.opl3, v))
                            => t.chip[y] = s.chip[y]

\* The loops over the voices of a channel.
LEMMA AllVoicesSet ==
    ASSUME NEW s, IsAl(s), NEW L, Placed(s, L), NEW c \in Channels
    PROVE  /\ AllSet(<<"pitch">>, s, c, ForVoices(s, c, SetVoicePitch))
           /\ AllSet(<<"volume">>, s, c, ForVoices(s, c, SetVoiceVolume))
           /\ AllSet(<<"pan">>, s, c, ForVoices(s, c, SetVoicePan))
<1>1. Kept(s.lists) /\ c \in K /\ s.opl3 \in BOOLEAN
  BY PoolApart DEF Placed, IsAl
<1> DEFINE seq == Lists!Nodes(s.lists, c)
<1>2. PICK n \in Nat : /\ seq \in [1..n -> Voices] /\ DOMAIN seq = 1..n
                       /\ \A i, j \in 1..n : seq[i] = seq[j] => i = j
                       /\ InList(s.lists, c) = {seq[i] : i \in 1..n}
  BY <1>1, ListSeq
<1> HIDE DEF seq
<1>3. \A i, j \in 1..n : Cell(s.opl3, seq[i]) = Cell(s.opl3, seq[j]) => i = j
  <2>1. SUFFICES ASSUME NEW i \in 1..n, NEW j \in 1..n,
                        Cell(s.opl3, seq[i]) = Cell(s.opl3, seq[j])
                 PROVE  i = j
    OBVIOUS
  <2>2. seq[i] \in InList(s.lists, c) /\ seq[j] \in InList(s.lists, c)
    BY <1>2
  <2>3. /\ seq[i] \in Voices /\ Has(s.opl3, seq[i])
        /\ seq[j] \in Voices /\ Has(s.opl3, seq[j])
    BY <1>1, <2>2, Listed
  <2>4. seq[i] = seq[j]
    BY <1>1, <2>1, <2>3, CellApart
  <2>5. QED BY <1>2, <2>4
<1>4. ASSUME NEW x \in Setters, NEW g, Passes(x, s, seq, n, g) PROVE AllSet(x, s, c, g[n])
  <2>1. SetSoFar(x, s, seq, n, g[n])
    BY <1>2, <1>3, <1>4, SetterLoop
  <2>2. QED BY <1>2, <2>1 DEF SetSoFar, AllSet
<1>5. VoicesOf(s, c) = seq
  BY DEF VoicesOf, seq
<1>6. AllSet(<<"pitch">>, s, c, ForVoices(s, c, SetVoicePitch))
  <2>1. PICK g : Passes(<<"pitch">>, s, seq, n, g) /\ FoldLeft(SetVoicePitch, s, seq) = g[n]
    BY <1>2, PitchFold
  <2>2. QED BY <1>4, <1>5, <2>1 DEF ForVoices, Setters
<1>7. AllSet(<<"volume">>, s, c, ForVoices(s, c, SetVoiceVolume))
  <2>1. PICK g : Passes(<<"volume">>, s, seq, n, g) /\ FoldLeft(SetVoiceVolume, s, seq) = g[n]
    BY <1>2, VolumeFold
  <2>2. QED BY <1>4, <1>5, <2>1 DEF ForVoices, Setters
<1>8. AllSet(<<"pan">>, s, c, ForVoices(s, c, SetVoicePan))
  <2>1. PICK g : Passes(<<"pan">>, s, seq, n, g) /\ FoldLeft(SetVoicePan, s, seq) = g[n]
    BY <1>2, PanFold
  <2>2. QED BY <1>4, <1>5, <2>1 DEF ForVoices, Setters
<1>9. QED BY <1>6, <1>7, <1>8

-----------------------------------------------------------------------------
(* Voices that fade: they are released, or go back to the pool.            *)

\* Fields that stay as they were.
SameNote(a, b) == \A f \in DOMAIN Fresh \ {"on", "sustain"} : b[f] = a[f]
SameTone(a, b) == \A f \in DOMAIN Flushed \ {"on"} : b[f] = a[f]
SameChannel(a, b) == \A f \in DOMAIN Channel(FALSE) \ {"gliding"} : b[f] = a[f]

\* From s to t no voice began to play, and what those that play on were told is the same.
Fades(s, t) ==
    /\ t.opl3 = s.opl3
    /\ \A c \in Channels : /\ InList(t.lists, c) \subseteq InList(s.lists, c)
                           /\ SameChannel(s.channel[c], t.channel[c])
    /\ \A v \in Playing(t) : /\ SameNote(s.voice[v], t.voice[v])
                             /\ t.voice[v].on => s.voice[v].on
                             /\ t.chip[Cell(s.opl3, v)] = s.chip[Cell(s.opl3, v)]
    /\ \A v \in Voices : t.voice[v].timbre = s.voice[v].timbre
    /\ \A x \in Cells : SameTone(s.chip[x], t.chip[x])

\* Nothing has to fade, ...
LEMMA FadesNot == \A s : Fades(s, s)
BY DEF Fades, SameNote, SameTone, SameChannel

\* ... and what has faded can fade further.
LEMMA FadesOn ==
    ASSUME NEW s, NEW t, NEW u, Fades(s, t), Fades(t, u)
    PROVE  Fades(s, u)
<1>1. u.opl3 = s.opl3
  BY DEF Fades
<1>2. ASSUME NEW c \in Channels
      PROVE  InList(u.lists, c) \subseteq InList(s.lists, c)
             /\ SameChannel(s.channel[c], u.channel[c])
  BY DEF Fades, SameChannel
<1>3. ASSUME NEW v \in Playing(u)
      PROVE  /\ SameNote(s.voice[v], u.voice[v])
             /\ u.voice[v].on => s.voice[v].on
             /\ u.chip[Cell(s.opl3, v)] = s.chip[Cell(s.opl3, v)]
  <2>1. v \in Playing(t)
    BY WhoPlays DEF Fades
  <2>2. /\ SameNote(s.voice[v], t.voice[v])
        /\ t.voice[v].on => s.voice[v].on
        /\ t.chip[Cell(s.opl3, v)] = s.chip[Cell(s.opl3, v)] /\ t.opl3 = s.opl3
    BY <2>1 DEF Fades
  <2>3. /\ SameNote(t.voice[v], u.voice[v])
        /\ u.voice[v].on => t.voice[v].on
        /\ u.chip[Cell(t.opl3, v)] = t.chip[Cell(t.opl3, v)]
    BY <1>3 DEF Fades
  <2>4. SameNote(s.voice[v], u.voice[v])
    BY <2>2, <2>3 DEF SameNote
  <2>5. QED BY <2>2, <2>3, <2>4
<1>4. \A v \in Voices : u.voice[v].timbre = s.voice[v].timbre
  BY DEF Fades
<1>5. \A x \in Cells : SameTone(s.chip[x], u.chip[x])
  BY DEF Fades, SameTone
<1>6. QED BY <1>1, <1>2, <1>3, <1>4, <1>5 DEF Fades

\* A voice is written.
LEMMA VoiceSet ==
    ASSUME NEW s, IsAl(s), NEW v \in Voices, NEW r,
           DOMAIN r = DOMAIN Fresh, r.on \in BOOLEAN, r.age \in 0..MaxAge
    PROVE  LET t == [s EXCEPT !.voice[v] = r]
           IN /\ IsAl(t) /\ t.lists = s.lists /\ t.channel = s.channel /\ t.opl3 = s.opl3
              /\ t.chip = s.chip /\ t.voice[v] = r
              /\ \A u \in Voices \ {v} : t.voice[u] = s.voice[u]
<1> DEFINE t == [s EXCEPT !.voice[v] = r]
<1>1. t = [s EXCEPT !.voice = [s.voice EXCEPT ![v] = r]]
  BY DEF IsAl
<1> HIDE DEF t
<1>2. /\ DOMAIN t = {"lists", "voice", "channel", "opl3", "chip"}
      /\ t.lists = s.lists /\ t.channel = s.channel /\ t.opl3 = s.opl3 /\ t.chip = s.chip
      /\ t.voice = [s.voice EXCEPT ![v] = r]
  BY <1>1 DEF IsAl
<1>3. t.voice[v] = r /\ DOMAIN t.voice = Voices
      /\ \A u \in Voices \ {v} : t.voice[u] = s.voice[u]
  BY <1>2 DEF IsAl
<1>4. IsAl(t)
  BY <1>2, <1>3 DEF IsAl
<1>5. QED BY <1>2, <1>3, <1>4 DEF t

\* Where a voice is does not change who sounds, if the chip is told the same.
LEMMA FreeDoes ==
    ASSUME NEW s, NEW L, Well(s, L), NEW c \in Channels, NEW v \in InList(s.lists, c)
    PROVE  LET t == Free(s, c, v)
           IN /\ Well(t, L) /\ Fades(s, t)
              /\ \A d \in Channels : InList(t.lists, d) = InList(s.lists, d) \ {v}
<1> DEFINE t == Free(s, c, v)
           o == VoiceOff(s, v)
           x == Cell(s.opl3, v)
           removed == Lists!Remove(s.lists, c, v)
           lists == IF mode THEN Lists!AddToHead(removed, Pool, v)
                    ELSE Lists!AddToTail(removed, Pool, v)
           ch == [s.channel[c] EXCEPT !.gliding = IF s.voice[v].glides THEN @ - 1 ELSE @]
<1>1. IsAl(s) /\ Placed(s, L) /\ Sounds(s) /\ Kept(s.lists) /\ s.opl3 \in BOOLEAN /\ c \in K
  BY PoolApart DEF Well, Placed, IsAl
<1>2. /\ v \in Voices /\ Has(s.opl3, v) /\ v \in Playing(s) /\ v \notin L
      /\ s.voice[v].channel = c
      /\ x \in Cells
  <2>1. v \in Voices /\ Has(s.opl3, v) /\ v \in Playing(s)
    BY <1>1, Listed, WhoPlays
  <2>2. s.voice[v].channel = c
    BY <1>1 DEF Placed
  <2>3. QED BY <1>1, <2>1, <2>2, Listed, CellIn
<1>3. IsAl(o) /\ OnlyCell(s, o, v) /\ ~o.chip[x].on /\ SameTone(s.chip[x], o.chip[x])
  BY <1>1, <1>2, OffSet DEF OffDone, SameTone, Flushed
<1>4. /\ Kept(removed) /\ \A k \in K \ {c} : InList(removed, k) = InList(s.lists, k)
      /\ InList(removed, c) = InList(s.lists, c) \ {v}
  BY <1>1, RemoveKept
<1>5. \A k \in K : v \notin InList(removed, k)
  BY <1>1, <1>4, Listed
<1> HIDE DEF removed, ch
<1>6. /\ Kept(lists) /\ InList(lists, Pool) = InList(removed, Pool) \cup {v}
      /\ \A k \in K \ {Pool} : InList(lists, k) = InList(removed, k)
  BY <1>2, <1>4, <1>5, PoolApart, HeadKept, TailKept
<1> HIDE DEF lists
<1>7. /\ \A d \in Channels : InList(lists, d) = InList(s.lists, d) \ {v}
      /\ InList(lists, Pool) = InList(s.lists, Pool) \cup {v}
  BY <1>1, <1>4, <1>5, <1>6, PoolApart
<1>8. /\ DOMAIN ch = DOMAIN Channel(FALSE) /\ SameChannel(s.channel[c], ch)
  BY <1>1 DEF ch, IsAl, Channel, SameChannel
<1>9. /\ DOMAIN Idle(s.voice[v]) = DOMAIN Fresh /\ Idle(s.voice[v]).on = FALSE
      /\ Idle(s.voice[v]).age = 0 /\ Idle(s.voice[v]).timbre = s.voice[v].timbre
  BY DEF Idle, Fresh
<1>10. /\ DOMAIN t = {"lists", "voice", "channel", "opl3", "chip"} /\ t.lists = lists
       /\ t.voice = [s.voice EXCEPT ![v] = Idle(s.voice[v])]
       /\ t.channel = [s.channel EXCEPT ![c] = ch] /\ t.opl3 = s.opl3 /\ t.chip = o.chip
  <2>1. /\ DOMAIN o = {"lists", "voice", "channel", "opl3", "chip"} /\ o.lists = s.lists
        /\ o.voice = s.voice /\ o.channel = s.channel /\ o.opl3 = s.opl3
    BY <1>3 DEF IsAl, OnlyCell
  <2> HIDE DEF o
  <2>2. t = [o EXCEPT !.lists = lists,
                      !.channel[c].gliding = IF s.voice[v].glides THEN @ - 1 ELSE @,
                      !.voice[v] = Idle(@)]
    BY DEF Free, lists, removed, o
  <2>3. t.channel = [s.channel EXCEPT ![c] = ch]
    BY <2>1, <2>2 DEF ch
  <2>4. QED BY <2>1, <2>2, <2>3
<1> HIDE DEF t, o
<1>11. /\ DOMAIN t.voice = Voices /\ t.voice[v] = Idle(s.voice[v])
       /\ \A u \in Voices \ {v} : t.voice[u] = s.voice[u]
       /\ DOMAIN t.channel = Channels /\ t.channel[c] = ch
       /\ \A d \in Channels \ {c} : t.channel[d] = s.channel[d]
       /\ DOMAIN t.chip = Cells /\ \A y \in Cells : y # x => t.chip[y] = s.chip[y]
       /\ \A y \in Cells : DOMAIN t.chip[y] = DOMAIN Flushed /\ t.chip[y].on \in BOOLEAN
  BY <1>1, <1>2, <1>3, <1>10 DEF IsAl, OnlyCell, x
<1>12. IsAl(t)
  <2>1. 0 \in 0..MaxAge
    BY AlAssumption
  <2>2. QED BY <1>1, <1>8, <1>9, <1>10, <1>11, <2>1 DEF IsAl
<1>13. Placed(t, L)
  <2>1. \A d \in Channels : \A u \in InList(t.lists, d) : t.voice[u].channel = d
    BY <1>1, <1>7, <1>10, <1>11, Listed, PoolApart DEF Placed
  <2>2. ASSUME NEW u \in Voices
        PROVE  (\E k \in K : u \in InList(t.lists, k))
                  <=> (\E k \in K : u \in InList(s.lists, k))
    <3>1. K = Channels \cup {Pool}
      BY DEF K
    <3>2. CASE u = v
      BY <1>1, <1>7, <1>10, <3>1, <3>2
    <3>3. CASE u # v
      BY <1>7, <1>10, <3>1, <3>3
    <3>4. QED BY <3>2, <3>3
  <2>3. QED BY <1>1, <1>6, <1>10, <2>1, <2>2 DEF Placed
<1>14. \A u : u \in Playing(t) <=> u \in Playing(s) /\ u # v
  BY <1>7, <1>10, WhoPlays
<1>15. ASSUME NEW u \in Playing(t)
       PROVE  /\ u \in Voices \ {v} /\ u \in Playing(s) /\ Cell(s.opl3, u) # x
              /\ Cell(s.opl3, u) \in Cells
              /\ t.voice[u] = s.voice[u] /\ t.chip[Cell(s.opl3, u)] = s.chip[Cell(s.opl3, u)]
  <2>1. u \in Playing(s) /\ u # v
    BY <1>14
  <2>2. u \in Voices /\ Has(s.opl3, u)
    BY <1>1, <2>1, Listed
  <2>3. Cell(s.opl3, u) \in Cells /\ Cell(s.opl3, u) # x
    BY <1>1, <1>2, <2>1, <2>2, CellIn, CellApart DEF x
  <2>4. QED BY <1>11, <2>1, <2>2, <2>3
<1>16. Sounds(t)
  <2>1. \A u \in Playing(t) : t.voice[u].on /\ Cell(t.opl3, u) \notin astray
                                   => t.chip[Cell(t.opl3, u)].on
    <3>1. ASSUME NEW u \in Playing(t), t.voice[u].on, Cell(t.opl3, u) \notin astray
          PROVE  t.chip[Cell(t.opl3, u)].on
      <4>1. u \in Playing(s) /\ s.voice[u].on /\ t.opl3 = s.opl3
        BY <1>10, <1>15, <3>1
      <4>2. s.chip[Cell(s.opl3, u)].on
        BY <1>1, <3>1, <4>1 DEF Sounds
      <4>3. QED BY <1>15, <3>1, <4>1, <4>2
    <3>2. QED BY <3>1
  <2>2. ASSUME NEW y \in Cells, t.chip[y].on, y \notin astray
        PROVE  \E u \in Playing(t) : Cell(t.opl3, u) = y
    <3>1. y # x /\ s.chip[y].on
      BY <1>3, <1>10, <1>11, <2>2
    <3>2. PICK u \in Playing(s) : Cell(s.opl3, u) = y
      BY <1>1, <2>2, <3>1 DEF Sounds
    <3>3. u # v
      BY <3>1, <3>2 DEF x
    <3>4. QED BY <1>10, <1>14, <3>2, <3>3
  <2>3. QED BY <2>1, <2>2 DEF Sounds
<1>17. Fades(s, t)
  <2>1. \A d \in Channels : /\ InList(t.lists, d) \subseteq InList(s.lists, d)
                            /\ SameChannel(s.channel[d], t.channel[d])
    <3>1. ASSUME NEW d \in Channels PROVE SameChannel(s.channel[d], t.channel[d])
      <4>1. CASE d = c
        BY <1>8, <1>11, <4>1
      <4>2. CASE d # c
        BY <1>11, <4>2 DEF SameChannel
      <4>3. QED BY <4>1, <4>2
    <3>2. QED BY <1>7, <1>10, <3>1
  <2>2. \A u \in Playing(t) : /\ SameNote(s.voice[u], t.voice[u])
                              /\ t.voice[u].on => s.voice[u].on
                              /\ t.chip[Cell(s.opl3, u)] = s.chip[Cell(s.opl3, u)]
    BY <1>15 DEF SameNote
  <2>3. \A u \in Voices : t.voice[u].timbre = s.voice[u].timbre
    BY <1>9, <1>11
  <2>4. \A y \in Cells : SameTone(s.chip[y], t.chip[y])
    BY <1>3, <1>10, <1>11 DEF SameTone
  <2>5. QED BY <1>10, <2>1, <2>2, <2>3, <2>4 DEF Fades
<1>18. QED BY <1>7, <1>10, <1>12, <1>13, <1>16, <1>17 DEF Well, t

\* The least of some numbers.
LEMMA Least ==
    ASSUME NEW S, S \subseteq Nat, S # {}
    PROVE  Min(S) \in S
<1>1. \E x \in S : \A y \in S : x <= y
  BY Smallest
<1>2. QED BY <1>1 DEF Min

\* AL_GetVoice finds a voice whose key is down, if there is one.
LEMMA VoiceGot ==
    ASSUME NEW s, Kept(s.lists), NEW c \in Channels, NEW key
    PROVE  \/ GetVoice(s, c, key) = None /\ Pressed(s, c, key) = {}
           \/ GetVoice(s, c, key) \in Pressed(s, c, key)
<1> DEFINE seq == Lists!Nodes(s.lists, c)
           fitting == {i \in DOMAIN seq : s.voice[seq[i]].key = key /\ s.voice[seq[i]].on}
<1>1. GetVoice(s, c, key) = IF fitting = {} THEN None ELSE seq[Min(fitting)]
  BY DEF GetVoice, FirstOf, VoicesOf
<1>2. PICK n \in Nat : DOMAIN seq = 1..n /\ InList(s.lists, c) = {seq[i] : i \in 1..n}
  BY PoolApart, ListSeq
<1>3. Pressed(s, c, key) =
        {v \in InList(s.lists, c) : s.voice[v].key = key /\ s.voice[v].on}
  BY DEF Pressed, VoicesOf, InList
<1> HIDE DEF seq
<1>4. CASE fitting = {}
  <2>1. GetVoice(s, c, key) = None
    BY <1>1, <1>4
  <2>2. \A i \in 1..n : ~(s.voice[seq[i]].key = key /\ s.voice[seq[i]].on)
    BY <1>2, <1>4
  <2>3. Pressed(s, c, key) = {}
    BY <1>2, <1>3, <2>2
  <2>4. QED BY <2>1, <2>3
<1>5. CASE fitting # {}
  <2>1. Min(fitting) \in fitting
    <3>1. fitting \subseteq Nat
      BY <1>2
    <3> HIDE DEF fitting
    <3>2. QED BY <1>5, <3>1, Least
  <2> DEFINE m == Min(fitting)
  <2>2. m \in 1..n /\ s.voice[seq[m]].key = key /\ s.voice[seq[m]].on
    <3> HIDE DEF m
    <3>1. m \in fitting
      BY <2>1 DEF m
    <3>2. QED BY <1>2, <3>1
  <2>3. GetVoice(s, c, key) = seq[m]
    BY <1>1, <1>5
  <2> HIDE DEF m
  <2>4. QED BY <1>2, <1>3, <2>2, <2>3
<1>6. QED BY <1>4, <1>5

\* A voice is released, or what holds it is forgotten; the chip is told nothing of it.
LEMMA ReleaseDoes ==
    ASSUME NEW s, NEW L, Well(s, L), NEW v \in Voices, NEW r, DOMAIN r = DOMAIN Fresh,
           r.on \in BOOLEAN, SameNote(s.voice[v], r), r.on => s.voice[v].on
    PROVE  LET t == [s EXCEPT !.voice[v] = r]
           IN /\ Well(t, L) /\ Fades(s, t) /\ t.lists = s.lists /\ t.channel = s.channel
              /\ t.opl3 = s.opl3 /\ t.chip = s.chip /\ t.voice[v] = r
              /\ \A u \in Voices \ {v} : t.voice[u] = s.voice[u]
<1> DEFINE t == [s EXCEPT !.voice[v] = r]
<1>1. IsAl(s) /\ Placed(s, L) /\ Sounds(s)
  BY DEF Well
<1>2. r.age = s.voice[v].age /\ r.timbre = s.voice[v].timbre /\ r.channel = s.voice[v].channel
  BY DEF Fresh, SameNote
<1>3. r.age \in 0..MaxAge
  BY <1>1, <1>2 DEF IsAl
<1>4. /\ IsAl(t) /\ t.lists = s.lists /\ t.channel = s.channel /\ t.opl3 = s.opl3
      /\ t.chip = s.chip /\ t.voice[v] = r
      /\ \A u \in Voices \ {v} : t.voice[u] = s.voice[u]
  BY <1>1, <1>2, <1>3, VoiceSet
<1> HIDE DEF t
<1>5. \A u : u \in Playing(t) <=> u \in Playing(s)
  BY <1>4, WhoPlays
<1>6. \A u \in Playing(s) : u \in Voices
  BY <1>1, Listed
<1>7. ASSUME NEW u \in Voices
      PROVE  /\ t.voice[u].on => s.voice[u].on
             /\ SameNote(s.voice[u], t.voice[u]) /\ t.voice[u].channel = s.voice[u].channel
             /\ t.voice[u].timbre = s.voice[u].timbre
  <2>1. CASE u = v
    BY <1>2, <1>4, <2>1
  <2>2. CASE u # v
    BY <1>4, <2>2 DEF SameNote
  <2>3. QED BY <2>1, <2>2
<1>8. Placed(t, L)
  <2>1. \A c \in Channels : \A u \in InList(s.lists, c) : u \in Voices
    BY <1>1, Listed, PoolApart
  <2>2. QED BY <1>1, <1>4, <1>7, <2>1 DEF Placed
<1>9. Sounds(t)
  BY <1>1, <1>4, <1>5, <1>6, <1>7 DEF Sounds
<1>10. Fades(s, t)
  <2>1. \A c \in Channels : SameChannel(s.channel[c], t.channel[c])
    BY <1>4 DEF SameChannel
  <2>2. \A x \in Cells : SameTone(s.chip[x], t.chip[x])
    BY <1>4 DEF SameTone
  <2>3. QED BY <1>4, <1>5, <1>6, <1>7, <2>1, <2>2 DEF Fades
<1>11. QED BY <1>2, <1>4, <1>8, <1>9, <1>10 DEF Well, t

\* AL_NoteOff fades, and of the voices whose key is down it takes one.
LEMMA NoteOffDoes ==
    ASSUME NEW s, NEW L, Well(s, L), NEW c \in Channels, NEW key, NEW down
    PROVE  LET t == NoteOff(s, c, key, down)
           IN /\ Well(t, L) /\ Fades(s, t)
              /\ \/ Pressed(s, c, key) = {} /\ t = s
                 \/ \E v \in Pressed(s, c, key) : v \notin Pressed(t, c, key)
<1> DEFINE v == GetVoice(s, c, key)
           sustain == s.voice[v].sustain \cup {p \in {"pedal"} : down}
           r == [s.voice[v] EXCEPT !.on = FALSE, !.sustain = sustain]
           off == [s EXCEPT !.voice[v] = r]
           t == NoteOff(s, c, key, down)
<1>1. IsAl(s) /\ Placed(s, L) /\ Sounds(s) /\ Kept(s.lists)
  BY DEF Well, Placed
<1>2. (v = None /\ Pressed(s, c, key) = {}) \/ v \in Pressed(s, c, key)
  BY <1>1, VoiceGot
<1>3. CASE v = None /\ Pressed(s, c, key) = {}
  <2>1. t = s
    BY <1>3 DEF NoteOff
  <2>2. QED BY <1>3, <2>1, FadesNot
<1>4. CASE v \in Pressed(s, c, key)
  <2>1. v \in InList(s.lists, c) /\ v \in Voices
    <3>1. v \in InList(s.lists, c)
      BY <1>4 DEF Pressed, VoicesOf, InList
    <3>2. QED BY <1>1, <3>1, Listed, PoolApart
  <2>2. v # None
    BY <2>1 DEF Voices, None
  <2>3. t = IF sustain # {} THEN off ELSE Free(off, c, v)
    <3>1. off = [s EXCEPT !.voice[v].on = FALSE, !.voice[v].sustain = sustain]
      BY <1>1, <2>1 DEF IsAl, Fresh
    <3> HIDE DEF off
    <3>2. QED BY <2>2, <3>1 DEF NoteOff
  <2> HIDE DEF v, sustain
  <2>4. /\ Well(off, L) /\ Fades(s, off) /\ off.lists = s.lists /\ off.voice[v].on = FALSE
    <3>1. /\ DOMAIN r = DOMAIN Fresh /\ r.on = FALSE /\ SameNote(s.voice[v], r)
      BY <1>1, <2>1 DEF IsAl, Fresh, SameNote
    <3>2. r.on \in BOOLEAN /\ ~r.on
      BY <3>1
    <3> HIDE DEF r
    <3>3. QED BY <2>1, <3>1, <3>2, ReleaseDoes
  <2> HIDE DEF off, t
  <2>5. CASE sustain # {}
    <3>1. v \notin Pressed(off, c, key)
      BY <2>4 DEF Pressed
    <3>2. QED BY <1>4, <2>3, <2>4, <2>5, <3>1 DEF t
  <2>6. CASE sustain = {}
    <3>1. /\ Well(t, L) /\ Fades(off, t)
          /\ InList(t.lists, c) = InList(off.lists, c) \ {v}
      BY <2>1, <2>3, <2>4, <2>6, FreeDoes
    <3>2. v \notin Pressed(t, c, key)
      BY <3>1 DEF Pressed, VoicesOf, InList
    <3>3. Fades(s, t)
      BY <2>4, <3>1, FadesOn
    <3>4. QED BY <1>4, <3>1, <3>2, <3>3 DEF t
  <2>7. QED BY <2>5, <2>6
<1>5. QED BY <1>2, <1>3, <1>4

\* No key goes down where voices only fade.
LEMMA FadesPressed ==
    ASSUME NEW s, NEW t, Fades(s, t), NEW c \in Channels, NEW key
    PROVE  Pressed(t, c, key) \subseteq Pressed(s, c, key)
<1>1. ASSUME NEW v \in Pressed(t, c, key) PROVE v \in Pressed(s, c, key)
  <2>1. v \in InList(t.lists, c) /\ t.voice[v].key = key /\ t.voice[v].on
    BY DEF Pressed, VoicesOf, InList
  <2>2. v \in Playing(t)
    BY <2>1, WhoPlays
  <2>3. v \in InList(s.lists, c) /\ SameNote(s.voice[v], t.voice[v]) /\ s.voice[v].on
    BY <2>1, <2>2 DEF Fades
  <2>4. s.voice[v].key = key
    BY <2>1, <2>3 DEF SameNote, Fresh
  <2>5. QED BY <2>3, <2>4 DEF Pressed, VoicesOf, InList
<1>2. QED BY <1>1

\* AL_KillSustainedVoices, at one voice.
LEMMA KillDoes ==
    ASSUME NEW s, NEW L, Well(s, L), NEW c \in Channels, NEW by, NEW v \in InList(s.lists, c)
    PROVE  LET t == Kill(s, c, by, v)
           IN /\ Well(t, L) /\ Fades(s, t)
              /\ InList(s.lists, c) \ {v} \subseteq InList(t.lists, c)
<1> DEFINE r == [s.voice[v] EXCEPT !.sustain = s.voice[v].sustain \ {by}]
           without == [s EXCEPT !.voice[v] = r]
           t == Kill(s, c, by, v)
<1>1. IsAl(s) /\ Placed(s, L) /\ Sounds(s)
  BY DEF Well
<1>2. v \in Voices
  BY <1>1, Listed, PoolApart
<1>3. without = [s EXCEPT !.voice[v].sustain = @ \ {by}]
  BY <1>1, <1>2 DEF IsAl, Fresh
<1>4. /\ DOMAIN r = DOMAIN Fresh /\ r.on = s.voice[v].on /\ SameNote(s.voice[v], r)
      /\ r.on \in BOOLEAN
  BY <1>1, <1>2 DEF IsAl, Fresh, SameNote
<1> HIDE DEF r
<1>5. Well(without, L) /\ Fades(s, without) /\ without.lists = s.lists
  BY <1>2, <1>4, ReleaseDoes
<1> HIDE DEF without
<1>6. t = s \/ t = without \/ t = Free(without, c, v)
  BY <1>3 DEF Kill
<1> HIDE DEF t
<1>7. CASE t = s
  BY <1>7, FadesNot DEF t
<1>8. CASE t = without
  BY <1>5, <1>8 DEF t
<1>9. CASE t = Free(without, c, v)
  <2>1. /\ Well(t, L) /\ Fades(without, t)
        /\ InList(t.lists, c) = InList(without.lists, c) \ {v}
    BY <1>5, <1>9, FreeDoes
  <2>2. Fades(s, t)
    BY <1>5, <2>1, FadesOn
  <2>3. QED BY <1>5, <2>1, <2>2 DEF t
<1>10. QED BY <1>6, <1>7, <1>8, <1>9

\* ... and at all voices of the channel.
LEMMA KillsDo ==
    ASSUME NEW s, NEW L, Well(s, L), NEW c \in Channels, NEW by
    PROVE  LET t == KillSustained(s, c, by) IN Well(t, L) /\ Fades(s, t)
<1> DEFINE seq == VoicesOf(s, c)
           x == <<"kill", c, by>>
<1>1. c \in K /\ Kept(s.lists)
  BY PoolApart DEF Well, Placed
<1>2. PICK n \in Nat : /\ seq \in [1..n -> Voices] /\ DOMAIN seq = 1..n
                       /\ \A i, j \in 1..n : seq[i] = seq[j] => i = j
                       /\ InList(s.lists, c) = {seq[i] : i \in 1..n}
  BY <1>1, ListSeq DEF VoicesOf
<1>3. PICK g : Passes(x, s, seq, n, g) /\ KillSustained(s, c, by) = g[n]
  BY <1>2, KillFold
<1> HIDE DEF seq
<1>6. \A u, v : Step(x, u, v) = Kill(u, c, by, v)
  BY DEF Step
<1> DEFINE Far(m) == /\ Well(g[m], L) /\ Fades(s, g[m])
                     /\ \A i \in (m + 1)..n : seq[i] \in InList(g[m].lists, c)
           I == {m \in Nat : m <= n => Far(m)}
<1>7. 0 \in I
  <2>1. g[0] = s
    BY <1>3 DEF Passes
  <2>2. \A i \in (0 + 1)..n : seq[i] \in InList(s.lists, c)
    BY <1>2
  <2>3. QED BY <2>1, <2>2, FadesNot
<1>8. ASSUME NEW m \in Nat, m \in I PROVE m + 1 \in I
  <2> SUFFICES ASSUME m + 1 <= n PROVE Far(m + 1)
    OBVIOUS
  <2>1. Far(m) /\ m + 1 \in 1..n /\ m + 1 \in (m + 1)..n
    BY <1>8
  <2>2. g[m + 1] = Kill(g[m], c, by, seq[m + 1])
    <3>1. g[m + 1] = Step(x, g[(m + 1) - 1], seq[m + 1])
      BY <1>3, <2>1 DEF Passes
    <3>2. QED BY <1>6, <3>1
  <2>3. Well(g[m], L) /\ Fades(s, g[m]) /\ seq[m + 1] \in InList(g[m].lists, c)
    BY <2>1
  <2>4. /\ Well(g[m + 1], L) /\ Fades(g[m], g[m + 1])
        /\ InList(g[m].lists, c) \ {seq[m + 1]} \subseteq InList(g[m + 1].lists, c)
    BY <2>2, <2>3, KillDoes
  <2>5. Fades(s, g[m + 1])
    BY <2>3, <2>4, FadesOn
  <2>6. ASSUME NEW i \in (m + 1 + 1)..n PROVE seq[i] \in InList(g[m + 1].lists, c)
    <3>1. i \in (m + 1)..n /\ i \in 1..n /\ i # m + 1
      OBVIOUS
    <3>2. seq[i] \in InList(g[m].lists, c) /\ seq[i] # seq[m + 1]
      BY <1>2, <2>1, <3>1
    <3>3. QED BY <2>4, <3>2
  <2>7. QED BY <2>4, <2>5, <2>6
<1> HIDE DEF I
<1>9. n \in I
  BY <1>7, <1>8, AllNumbers
<1>10. QED BY <1>3, <1>9 DEF I

\* A voice that is taken from its list is silent, and in no list.
LEMMA TakeDoes ==
    ASSUME NEW s, Well(s, {}), NEW k \in K, NEW v \in InList(s.lists, k)
    PROVE  LET t == Taken(IF k = Pool THEN s ELSE VoiceOff(s, v), v, k)
           IN /\ Well(t, {v}) /\ Fades(s, t) /\ v \in Voices /\ Has(s.opl3, v)
              /\ \A c \in Channels : InList(t.lists, c) = InList(s.lists, c) \ {v}
<1> DEFINE o == IF k = Pool THEN s ELSE VoiceOff(s, v)
           x == Cell(s.opl3, v)
           removed == Lists!Remove(s.lists, k, v)
           t == [o EXCEPT !.lists = removed]
<1>1. IsAl(s) /\ Placed(s, {}) /\ Sounds(s) /\ Kept(s.lists) /\ s.opl3 \in BOOLEAN
  BY DEF Well, Placed, IsAl
<1>2. v \in Voices /\ Has(s.opl3, v) /\ x \in Cells
  BY <1>1, Listed, CellIn
<1>3. /\ IsAl(o) /\ OnlyCell(s, o, v) /\ SameTone(s.chip[x], o.chip[x])
      /\ x \notin astray => ~o.chip[x].on
  <2>1. CASE k = Pool
    <3>1. x \notin astray => ~s.chip[x].on
      <4>1. SUFFICES ASSUME s.chip[x].on, x \notin astray PROVE FALSE
        OBVIOUS
      <4>2. PICK u \in Playing(s) : Cell(s.opl3, u) = x
        BY <1>1, <1>2, <4>1 DEF Sounds
      <4>3. u \in Voices /\ Has(s.opl3, u) /\ u \notin InList(s.lists, Pool)
        BY <1>1, Listed
      <4>4. u = v
        BY <1>1, <1>2, <4>2, <4>3, CellApart DEF x
      <4>5. QED BY <2>1, <4>3, <4>4
    <3>2. o = s
      BY <2>1
    <3> HIDE DEF o
    <3>3. QED BY <1>1, <3>1, <3>2 DEF OnlyCell, SameTone
  <2>2. CASE k # Pool
    <3>1. o = VoiceOff(s, v)
      BY <2>2
    <3> HIDE DEF o
    <3>2. QED BY <1>1, <1>2, <3>1, OffSet DEF OffDone, SameTone, Flushed
  <2>3. QED BY <2>1, <2>2
<1>4. /\ Kept(removed) /\ \A m \in K \ {k} : InList(removed, m) = InList(s.lists, m)
      /\ InList(removed, k) = InList(s.lists, k) \ {v}
  BY <1>1, RemoveKept
<1>5. \A m \in K : InList(removed, m) = InList(s.lists, m) \ {v}
  BY <1>1, <1>4, Listed
<1>6. o.lists = s.lists
  BY <1>3 DEF OnlyCell
<1>7. Taken(o, v, k) = t
  BY <1>6 DEF Taken
<1> HIDE DEF o, removed
<1>8. /\ DOMAIN t = {"lists", "voice", "channel", "opl3", "chip"} /\ t.lists = removed
      /\ t.voice = s.voice /\ t.channel = s.channel /\ t.opl3 = s.opl3 /\ t.chip = o.chip
  BY <1>3 DEF IsAl, OnlyCell
<1> HIDE DEF t
<1>9. \A y \in Cells : y # x => t.chip[y] = s.chip[y]
  BY <1>3, <1>8 DEF OnlyCell, x
<1>10. IsAl(t)
  BY <1>1, <1>3, <1>8 DEF IsAl
<1>11. \A u : u \in Playing(t) <=> u \in Playing(s) /\ u # v
  BY <1>5, <1>8, WhoPlays, PoolApart
<1>12. ASSUME NEW u \in Playing(t)
       PROVE  /\ u \in Voices /\ u \in Playing(s) /\ Cell(s.opl3, u) \in Cells
              /\ t.voice[u] = s.voice[u] /\ t.chip[Cell(s.opl3, u)] = s.chip[Cell(s.opl3, u)]
  <2>1. u \in Playing(s) /\ u # v
    BY <1>11
  <2>2. u \in Voices /\ Has(s.opl3, u)
    BY <1>1, <2>1, Listed
  <2>3. Cell(s.opl3, u) \in Cells /\ Cell(s.opl3, u) # x
    BY <1>1, <1>2, <2>1, <2>2, CellIn, CellApart DEF x
  <2>4. QED BY <1>8, <1>9, <2>1, <2>2, <2>3
<1>13. Placed(t, {v})
  <2>1. \A d \in Channels : \A u \in InList(t.lists, d) : t.voice[u].channel = d
    BY <1>1, <1>5, <1>8, PoolApart DEF Placed
  <2>2. ASSUME NEW u \in Voices
        PROVE  (\E m \in K : u \in InList(t.lists, m)) <=> (Has(t.opl3, u) /\ u \notin {v})
    <3>1. (\E m \in K : u \in InList(s.lists, m)) <=> Has(s.opl3, u)
      BY <1>1 DEF Placed
    <3>2. QED BY <1>5, <1>8, <3>1
  <2>3. QED BY <1>4, <1>8, <2>1, <2>2 DEF Placed
<1>14. Sounds(t)
  <2>1. ASSUME NEW u \in Playing(t), t.voice[u].on, Cell(t.opl3, u) \notin astray
        PROVE  t.chip[Cell(t.opl3, u)].on
    <3>1. u \in Playing(s) /\ s.voice[u].on /\ t.opl3 = s.opl3
      BY <1>8, <1>12, <2>1
    <3>2. s.chip[Cell(s.opl3, u)].on
      BY <1>1, <2>1, <3>1 DEF Sounds
    <3>3. QED BY <1>12, <2>1, <3>1, <3>2
  <2>2. ASSUME NEW y \in Cells, t.chip[y].on, y \notin astray
        PROVE  \E u \in Playing(t) : Cell(t.opl3, u) = y
    <3>1. y # x /\ s.chip[y].on
      BY <1>3, <1>8, <1>9, <2>2
    <3>2. PICK u \in Playing(s) : Cell(s.opl3, u) = y
      BY <1>1, <2>2, <3>1 DEF Sounds
    <3>3. u # v
      BY <3>1, <3>2 DEF x
    <3>4. QED BY <1>8, <1>11, <3>2, <3>3
  <2>3. QED BY <2>1, <2>2 DEF Sounds
<1>15. Fades(s, t)
  <2>1. \A d \in Channels : /\ InList(t.lists, d) \subseteq InList(s.lists, d)
                            /\ SameChannel(s.channel[d], t.channel[d])
    BY <1>5, <1>8, PoolApart DEF SameChannel
  <2>2. \A u \in Playing(t) : /\ SameNote(s.voice[u], t.voice[u])
                              /\ t.voice[u].on => s.voice[u].on
                              /\ t.chip[Cell(s.opl3, u)] = s.chip[Cell(s.opl3, u)]
    BY <1>12 DEF SameNote
  <2>3. \A y \in Cells : SameTone(s.chip[y], t.chip[y])
    BY <1>3, <1>8, <1>9 DEF SameTone
  <2>4. QED BY <1>8, <2>1, <2>2, <2>3 DEF Fades
<1>16. QED BY <1>2, <1>5, <1>7, <1>8, <1>10, <1>13, <1>14, <1>15, PoolApart DEF Well, o

\* The oldest voice is one that plays.
LEMMA OldestPlays ==
    ASSUME NEW s, IsAl(s), Placed(s, {}), Oldest(s) # None
    PROVE  Oldest(s) \in Playing(s)
<1> DEFINE aged == {v \in Playing(s) : s.voice[v].age > 0}
           oldest == {v \in aged : \A u \in aged : s.voice[u].age <= s.voice[v].age}
           chans == {c \in Channels : \E v \in oldest : v \in Range(VoicesOf(s, c))}
           first == Min(chans)
           seq == VoicesOf(s, first)
           fitting == {i \in DOMAIN seq : seq[i] \in oldest}
<1>1. Oldest(s) = IF aged = {} THEN None ELSE IF fitting = {} THEN None ELSE seq[Min(fitting)]
  BY DEF Oldest, FirstOf
<1>2. aged # {} /\ fitting # {}
  BY <1>1
<1>3. \A v \in Playing(s) : v \in Voices /\ s.voice[v].age \in 0..MaxAge
  BY Listed DEF IsAl
<1>4. oldest # {}
  <2> DEFINE T == {MaxAge - s.voice[v].age : v \in aged}
  <2>1. T \subseteq Nat /\ T # {}
    <3>1. ASSUME NEW v \in aged PROVE MaxAge - s.voice[v].age \in Nat
      <4>1. s.voice[v].age \in 0..MaxAge /\ MaxAge \in Nat
        BY <1>3, AlAssumption
      <4>2. QED BY <4>1
    <3>2. QED BY <1>2, <3>1
  <2>2. PICK z \in T : \A y \in T : z <= y
    <3> HIDE DEF T
    <3>1. QED BY <2>1, Smallest
  <2>3. PICK v \in aged : z = MaxAge - s.voice[v].age
    OBVIOUS
  <2>4. ASSUME NEW u \in aged PROVE s.voice[u].age <= s.voice[v].age
    <3>1. MaxAge - s.voice[v].age <= MaxAge - s.voice[u].age
      BY <2>2, <2>3
    <3>2. s.voice[v].age \in Int /\ s.voice[u].age \in Int /\ MaxAge \in Int
      BY <1>3, AlAssumption
    <3> HIDE DEF aged
    <3>3. QED BY <3>1, <3>2
  <2>5. v \in oldest
    BY <2>4
  <2>6. QED BY <2>5
<1>5. first \in chans
  <2>1. chans # {}
    <3>1. PICK v \in oldest : TRUE
      BY <1>4
    <3>2. PICK c \in Channels : v \in InList(s.lists, c)
      BY WhoPlays
    <3>3. QED BY <3>2 DEF InList, VoicesOf
  <2>2. chans \subseteq Nat
    <3>1. chans \subseteq Channels
      OBVIOUS
    <3> HIDE DEF chans
    <3>2. QED BY <3>1, AlAssumption
  <2> HIDE DEF chans
  <2>3. QED BY <2>1, <2>2, Least
<1>6. first \in Channels
  BY <1>5
<1> HIDE DEF first, chans
<1>7. PICK n \in Nat : DOMAIN seq = 1..n
  BY <1>6, PoolApart, ListSeq DEF VoicesOf, Placed
<1>8. Min(fitting) \in fitting
  <2>1. fitting \subseteq Nat
    BY <1>7
  <2> HIDE DEF fitting
  <2>2. QED BY <1>2, <2>1, Least
<1>9. seq[Min(fitting)] \in oldest
  <2> DEFINE m == Min(fitting)
  <2> HIDE DEF m
  <2>1. m \in fitting
    BY <1>8 DEF m
  <2>2. seq[m] \in oldest
    BY <2>1
  <2>3. QED BY <2>2 DEF m
<1>10. Oldest(s) \in oldest
  <2> HIDE DEF oldest, aged, fitting
  <2>1. QED BY <1>1, <1>2, <1>9
<1>11. QED BY <1>10

\* What the search for a voice gives: none, or one that is in no list any more.
Found(s, r) ==
    \/ r.voice = None /\ r.to = s
    \/ /\ r.voice \in Voices /\ Has(s.opl3, r.voice) /\ r.voice # None
       /\ Well(r.to, {r.voice}) /\ Fades(s, r.to)

\* AL_AllocVoice.
LEMMA AllocDoes ==
    ASSUME NEW s, Well(s, {})
    PROVE  Found(s, AllocVoice(s))
<1> DEFINE pool == VoicesOf(s, Pool)
           oldest == Oldest(s)
           r == AllocVoice(s)
<1>1. IsAl(s) /\ Placed(s, {}) /\ Sounds(s) /\ Kept(s.lists)
  BY DEF Well, Placed
<1>2. None \notin Voices
  BY DEF None, Voices
<1>3. CASE pool # <<>>
  <2>1. Head(pool) \in InList(s.lists, Pool)
    <3>1. PICK n \in Nat : /\ n > 0 => /\ Head(pool) = pool[1]
                                       /\ Head(pool) \in InList(s.lists, Pool)
                           /\ pool = <<>> <=> n = 0
      BY <1>1, PoolApart, ListSeq DEF VoicesOf
    <3>2. QED BY <1>3, <3>1
  <2>2. r = [to |-> Taken(s, Head(pool), Pool), voice |-> Head(pool)]
    BY <1>3 DEF AllocVoice
  <2> HIDE DEF r, pool
  <2>3. LET t == Taken(s, Head(pool), Pool)
        IN Well(t, {Head(pool)}) /\ Fades(s, t) /\ Head(pool) \in Voices
           /\ Has(s.opl3, Head(pool))
    BY <2>1, PoolApart, TakeDoes
  <2>4. QED BY <1>2, <2>2, <2>3 DEF Found, r
<1>4. CASE pool = <<>> /\ oldest # None
  <2>1. oldest \in Playing(s)
    BY <1>1, <1>4, OldestPlays
  <2> DEFINE c == s.voice[oldest].channel
  <2>2. c \in Channels /\ oldest \in InList(s.lists, c)
    BY <1>1, <2>1, Listed
  <2>3. r = [to |-> Taken(VoiceOff(s, oldest), oldest, c), voice |-> oldest]
    BY <1>4 DEF AllocVoice
  <2> HIDE DEF r, oldest, c
  <2>4. LET t == Taken(VoiceOff(s, oldest), oldest, c)
        IN Well(t, {oldest}) /\ Fades(s, t) /\ oldest \in Voices /\ Has(s.opl3, oldest)
    BY <2>2, PoolApart, TakeDoes
  <2>5. QED BY <1>2, <2>3, <2>4 DEF Found, r
<1>5. CASE pool = <<>> /\ oldest = None
  BY <1>5 DEF AllocVoice, Found
<1>6. QED BY <1>3, <1>4, <1>5

\* AL_AllocVoiceByTimbre.
LEMMA AllocByTimbreDoes ==
    ASSUME NEW s, Well(s, {}), NEW patch
    PROVE  Found(s, AllocVoiceByTimbre(s, patch))
<1> DEFINE seq == VoicesOf(s, Pool)
           fitting == {i \in DOMAIN seq : s.voice[seq[i]].recent = patch}
           v == FirstOf(VoicesOf(s, Pool), LAMBDA u : s.voice[u].recent = patch)
           r == AllocVoiceByTimbre(s, patch)
<1>1. IsAl(s) /\ Placed(s, {}) /\ Sounds(s) /\ Kept(s.lists)
  BY DEF Well, Placed
<1>2. v = IF fitting = {} THEN None ELSE seq[Min(fitting)]
  BY DEF FirstOf
<1>3. r = IF v = None THEN AllocVoice(s) ELSE [to |-> Taken(s, v, Pool), voice |-> v]
  BY DEF AllocVoiceByTimbre
<1> HIDE DEF v, r
<1>4. CASE v = None
  BY <1>3, <1>4, AllocDoes DEF r
<1>5. CASE v # None
  <2>1. PICK n \in Nat : DOMAIN seq = 1..n /\ InList(s.lists, Pool) = {seq[i] : i \in 1..n}
    BY <1>1, PoolApart, ListSeq DEF VoicesOf
  <2>2. fitting # {} /\ v = seq[Min(fitting)]
    BY <1>2, <1>5
  <2>3. fitting \subseteq 1..n
    BY <2>1
  <2>4. Min(fitting) \in fitting
    <3>1. fitting \subseteq Nat
      BY <2>3
    <3> HIDE DEF fitting
    <3>2. QED BY <2>2, <3>1, Least
  <2>5. v \in InList(s.lists, Pool)
    <3> HIDE DEF fitting, seq
    <3>1. QED BY <2>1, <2>2, <2>3, <2>4
  <2>6. LET t == Taken(s, v, Pool)
        IN Well(t, {v}) /\ Fades(s, t) /\ v \in Voices /\ Has(s.opl3, v)
    BY <2>5, PoolApart, TakeDoes
  <2>7. QED BY <1>3, <1>5, <2>6 DEF Found, r
<1>6. QED BY <1>4, <1>5

\* The panning of a register does not depend on what else is there.
LEMMA PannedSame ==
    ASSUME NEW a, NEW b, DOMAIN a = DOMAIN Flushed, DOMAIN b = DOMAIN Flushed, NEW pan
    PROVE  PannedTo(a, pan).pan = PannedTo(b, pan).pan
BY DEF PannedTo, Flushed

\* What the registers of a voice v, of timbre `old' in s, are told when it begins a note in t.
Told(s, t, v, old) ==
    LET voice == t.voice[v]
        ch == t.channel[voice.channel]
        was == s.chip[Cell(s.opl3, v)]
        cell == t.chip[Cell(s.opl3, v)]
        timbre == bank[voice.timbre]
    IN /\ cell.on /\ cell.pitch = PitchOf(ch, voice, bank)
       /\ cell.timbre = IF old = voice.timbre THEN was.timbre ELSE voice.timbre
       /\ cell.level[2] = Loudness(ch, voice, timbre, timbre.level[2])
       /\ cell.level[1] = IF timbre.additive THEN Loudness(ch, voice, timbre, timbre.level[1])
                          ELSE IF old = voice.timbre THEN was.level[1] ELSE timbre.level[1]
       /\ s.opl3 => cell.pan = PannedTo(cell, ch.pan).pan

\* The voice is told its timbre, its volume, its panning and its pitch.
LEMMA ToldAll ==
    ASSUME NEW s, IsAl(s), NEW v \in Voices, s.voice[v].on, s.voice[v].channel \in Channels
    PROVE  LET t == SetVoicePitch(SetVoicePan(SetVoiceVolume(SetVoiceTimbre(s, v), v), v), v)
           IN /\ IsAl(t) /\ t.lists = s.lists /\ t.channel = s.channel /\ t.opl3 = s.opl3
              /\ \A u \in Voices \ {v} : t.voice[u] = s.voice[u]
              /\ \A f \in DOMAIN Fresh \ {"timbre"} : t.voice[v][f] = s.voice[v][f]
              /\ t.voice[v].timbre = PatchOf(s.channel[s.voice[v].channel], s.voice[v].key)
              /\ \A y \in Cells : y # Cell(s.opl3, v) => t.chip[y] = s.chip[y]
              /\ Told(s, t, v, s.voice[v].timbre)
<1> DEFINE x == Cell(s.opl3, v)
           c == s.voice[v].channel
           ch == s.channel[c]
           patch == PatchOf(ch, s.voice[v].key)
           a == SetVoiceTimbre(s, v)
           voice == a.voice[v]
           timbre == bank[patch]
           b == SetVoiceVolume(a, v)
           d == SetVoicePan(b, v)
           t == SetVoicePitch(d, v)
<1>0. x \in Cells /\ s.opl3 \in BOOLEAN
  BY CellIn DEF IsAl
<1>1. /\ IsAl(a) /\ a.lists = s.lists /\ a.channel = s.channel /\ a.opl3 = s.opl3
      /\ \A u \in Voices \ {v} : a.voice[u] = s.voice[u]
      /\ \A y \in Cells : y # x => a.chip[y] = s.chip[y]
      /\ \A f \in DOMAIN Fresh \ {"timbre"} : a.voice[v][f] = s.voice[v][f]
      /\ a.voice[v].timbre = patch
      /\ s.voice[v].timbre = patch => a.chip[x] = s.chip[x]
      /\ s.voice[v].timbre # patch => a.chip[x].timbre = patch
                                      /\ a.chip[x].level = <<timbre.level[1], 0>>
  <2>1. TimbreDone(s, a, v)
    BY TimbreSet
  <2> HIDE DEF a
  <2>2. QED BY <2>1 DEF TimbreDone
<1>2. voice.channel = c /\ voice.on /\ voice.timbre = patch
  <2> HIDE DEF a
  <2>1. QED BY <1>1 DEF Fresh
<1> HIDE DEF a
<1>3. /\ IsAl(b) /\ OnlyCell(a, b, v)
      /\ b.chip[x].level = WithVolume(a.chip[x], ch, voice, timbre).level
      /\ b.chip[x].timbre = a.chip[x].timbre
  <2>1. VolumeDone(a, b, v)
    BY <1>1, VolumeSet
  <2> HIDE DEF b
  <2>2. QED BY <1>1, <1>2, <2>1 DEF VolumeDone
<1>4. /\ b.voice = a.voice /\ b.channel = s.channel /\ b.opl3 = s.opl3 /\ b.lists = s.lists
      /\ \A y \in Cells : y # x => b.chip[y] = s.chip[y]
  BY <1>1, <1>3 DEF OnlyCell
<1> HIDE DEF b
<1>5. /\ IsAl(d) /\ OnlyCell(b, d, v)
      /\ d.chip[x].pan = IF s.opl3 THEN PannedTo(b.chip[x], ch.pan).pan ELSE b.chip[x].pan
      /\ d.chip[x].timbre = b.chip[x].timbre /\ d.chip[x].level = b.chip[x].level
  <2>1. PanDone(b, d, v)
    BY <1>3, PanSet
  <2> HIDE DEF d
  <2>2. QED BY <1>2, <1>4, <2>1 DEF PanDone
<1>6. /\ d.voice = a.voice /\ d.channel = s.channel /\ d.opl3 = s.opl3 /\ d.lists = s.lists
      /\ \A y \in Cells : y # x => d.chip[y] = s.chip[y]
  BY <1>4, <1>5 DEF OnlyCell
<1> HIDE DEF d
<1>7. /\ IsAl(t) /\ OnlyCell(d, t, v) /\ t.chip[x].on = voice.on
      /\ t.chip[x].pitch = PitchOf(ch, voice, bank)
      /\ t.chip[x].timbre = d.chip[x].timbre /\ t.chip[x].level = d.chip[x].level
      /\ t.chip[x].pan = d.chip[x].pan
  <2>1. PitchDone(d, t, v)
    BY <1>5, PitchSet
  <2> HIDE DEF t
  <2>2. QED BY <1>2, <1>6, <2>1 DEF PitchDone
<1>8. /\ t.voice = a.voice /\ t.channel = s.channel /\ t.opl3 = s.opl3 /\ t.lists = s.lists
      /\ \A y \in Cells : y # x => t.chip[y] = s.chip[y]
  BY <1>6, <1>7 DEF OnlyCell
<1> HIDE DEF t
<1>9. DOMAIN a.chip[x] = DOMAIN Flushed /\ DOMAIN b.chip[x] = DOMAIN Flushed
      /\ DOMAIN t.chip[x] = DOMAIN Flushed
  BY <1>0, <1>1, <1>3, <1>7 DEF IsAl
<1>10. s.opl3 => t.chip[x].pan = PannedTo(t.chip[x], ch.pan).pan
  <2>1. t.chip[x].pan = IF s.opl3 THEN PannedTo(b.chip[x], ch.pan).pan ELSE b.chip[x].pan
    BY <1>5, <1>7
  <2>2. PannedTo(b.chip[x], ch.pan).pan = PannedTo(t.chip[x], ch.pan).pan
    BY <1>9, PannedSame
  <2>3. QED BY <2>1, <2>2
<1>11. /\ t.chip[x].level[2] = Loudness(ch, voice, timbre, timbre.level[2])
       /\ t.chip[x].level[1] = IF timbre.additive
                               THEN Loudness(ch, voice, timbre, timbre.level[1])
                               ELSE a.chip[x].level[1]
  <2>1. t.chip[x].level = WithVolume(a.chip[x], ch, voice, timbre).level
    BY <1>3, <1>5, <1>7
  <2> HIDE DEF voice, ch, timbre
  <2>2. WithVolume(a.chip[x], ch, voice, timbre).level =
          <<IF timbre.additive THEN Loudness(ch, voice, timbre, timbre.level[1])
            ELSE a.chip[x].level[1],
            Loudness(ch, voice, timbre, timbre.level[2])>>
    BY <1>9 DEF WithVolume, Flushed
  <2>3. QED BY <2>1, <2>2
<1>12. /\ t.chip[x].timbre = IF s.voice[v].timbre = patch THEN s.chip[x].timbre ELSE patch
       /\ a.chip[x].level[1] = IF s.voice[v].timbre = patch THEN s.chip[x].level[1]
                               ELSE timbre.level[1]
  <2>1. t.chip[x].timbre = a.chip[x].timbre
    BY <1>3, <1>5, <1>7
  <2>2. QED BY <1>1, <2>1
<1>13. t.voice[v] = voice /\ t.channel[voice.channel] = ch /\ bank[voice.timbre] = timbre
  BY <1>2, <1>8
<1>14. Told(s, t, v, s.voice[v].timbre)
  <2> HIDE DEF voice, ch, timbre, x, patch
  <2>1. QED BY <1>2, <1>7, <1>10, <1>11, <1>12, <1>13 DEF Told, x
<1>15. /\ \A u \in Voices \ {v} : t.voice[u] = s.voice[u]
       /\ \A f \in DOMAIN Fresh \ {"timbre"} : t.voice[v][f] = s.voice[v][f]
       /\ t.voice[v].timbre = patch
  BY <1>1, <1>8
<1>16. QED BY <1>7, <1>8, <1>14, <1>15 DEF t, d, b, a

\* The same but for the source of a glide and the number of glides.
SameSettings(a, b) == \A f \in DOMAIN Channel(FALSE) \ {"gliding", "src"} : b[f] = a[f]

\* What AL_NoteOn does with the voice it has found.
StruckDone(s, t, v, c, key) ==
    /\ Well(t, {}) /\ t.opl3 = s.opl3
    /\ InList(t.lists, c) = InList(s.lists, c) \cup {v}
    /\ \A d \in Channels \ {c} : InList(t.lists, d) = InList(s.lists, d)
                                 /\ t.channel[d] = s.channel[d]
    /\ \A u \in Voices \ {v} : t.voice[u] = s.voice[u]
    /\ \A y \in Cells : y # Cell(s.opl3, v) => t.chip[y] = s.chip[y]
    /\ SameSettings(s.channel[c], t.channel[c])
    /\ t.voice[v].channel = c /\ t.voice[v].key = key /\ t.voice[v].on
    /\ t.voice[v].timbre = PatchOf(t.channel[c], key)
    /\ Told(s, t, v, s.voice[v].timbre)

\* The rest of AL_NoteOn, where a voice is found.
LEMMA StruckDoes ==
    ASSUME NEW s, NEW v \in Voices, Well(s, {v}), Has(s.opl3, v), NEW c \in Channels,
           NEW key, NEW velocity
    PROVE  StruckDone(s, Struck(s, v, c, key, velocity), v, c, key)
<1> DEFINE ch == s.channel[c]
           glides == ~ch.isDrum /\ ch.glides /\ ch.src # None /\ ch.portamento > 0
           voice == [Fresh EXCEPT
                     !.channel = c, !.key = key, !.on = TRUE,
                     !.velocity = IF ch.soft THEN (velocity * 80) \div 100 ELSE velocity,
                     !.timbre = s.voice[v].timbre, !.recent = PatchOf(ch, key),
                     !.glides = glides, !.from = IF glides THEN ch.src ELSE key,
                     !.rate = IF glides THEN GlideRate[ch.portamento] ELSE 0]
           lists == Lists!AddToTail(s.lists, c, v)
           new == [[ch EXCEPT !.src = key] EXCEPT !.gliding = IF glides THEN @ + 1 ELSE @]
           set == [s EXCEPT !.lists = lists, !.voice[v] = voice, !.channel[c].src = key,
                            !.channel[c].gliding = IF glides THEN @ + 1 ELSE @]
           t == SetVoicePitch(SetVoicePan(SetVoiceVolume(SetVoiceTimbre(set, v), v), v), v)
           x == Cell(s.opl3, v)
<1>1. IsAl(s) /\ Placed(s, {v}) /\ Sounds(s) /\ Kept(s.lists) /\ s.opl3 \in BOOLEAN
  BY DEF Well, Placed, IsAl
<1>2. Struck(s, v, c, key, velocity) = t
  BY DEF Struck
<1>3. /\ DOMAIN voice = DOMAIN Fresh /\ voice.channel = c /\ voice.key = key /\ voice.on = TRUE
      /\ voice.age = 0 /\ voice.timbre = s.voice[v].timbre
  <2> HIDE DEF glides
  <2>1. QED BY DEF Fresh
<1>4. DOMAIN new = DOMAIN Channel(FALSE) /\ SameSettings(ch, new)
  BY <1>1 DEF IsAl, Channel, SameSettings
<1>5. /\ DOMAIN set = {"lists", "voice", "channel", "opl3", "chip"} /\ set.lists = lists
      /\ set.voice = [s.voice EXCEPT ![v] = voice]
      /\ set.channel = [s.channel EXCEPT ![c] = new] /\ set.opl3 = s.opl3
      /\ set.chip = s.chip
  <2> HIDE DEF voice, lists, glides
  <2>1. set.channel = [s.channel EXCEPT ![c] = new]
    <3>1. set.channel = [[s.channel EXCEPT ![c] = [ch EXCEPT !.src = key]]
                           EXCEPT ![c] = [@ EXCEPT !.gliding = IF glides THEN @ + 1 ELSE @]]
      BY <1>1 DEF IsAl
    <3>2. c \in DOMAIN s.channel
      BY <1>1 DEF IsAl
    <3> DEFINE a == [s.channel EXCEPT ![c] = [ch EXCEPT !.src = key]]
    <3>3. a[c] = [ch EXCEPT !.src = key]
      BY <3>2
    <3>4. set.channel = [a EXCEPT ![c] = new]
      BY <3>1, <3>3
    <3> HIDE DEF set, new
    <3>5. QED BY <3>2, <3>4
  <2>2. QED BY <1>1, <2>1 DEF IsAl
<1> HIDE DEF voice, lists, new, set, ch
<1>6. /\ DOMAIN set.voice = Voices /\ set.voice[v] = voice
      /\ \A u \in Voices \ {v} : set.voice[u] = s.voice[u]
      /\ DOMAIN set.channel = Channels /\ set.channel[c] = new
      /\ \A d \in Channels \ {c} : set.channel[d] = s.channel[d]
  BY <1>1, <1>5 DEF IsAl
<1>7. IsAl(set)
  <2>1. 0 \in 0..MaxAge
    BY AlAssumption
  <2>2. voice.on \in BOOLEAN
    BY <1>3
  <2>3. ASSUME NEW u \in Voices
        PROVE  DOMAIN set.voice[u] = DOMAIN Fresh /\ set.voice[u].on \in BOOLEAN
               /\ set.voice[u].age \in 0..MaxAge
    <3>1. CASE u = v
      BY <1>3, <1>6, <2>1, <2>2, <3>1
    <3>2. CASE u # v
      BY <1>1, <1>6, <3>2 DEF IsAl
    <3>3. QED BY <3>1, <3>2
  <2>4. \A d \in Channels : DOMAIN set.channel[d] = DOMAIN Channel(FALSE)
    BY <1>1, <1>4, <1>6 DEF IsAl
  <2>5. QED BY <1>1, <1>5, <1>6, <2>3, <2>4 DEF IsAl
<1>8. \A k \in K : v \notin InList(s.lists, k)
  BY <1>1 DEF Placed
<1>9. /\ Kept(lists) /\ InList(lists, c) = InList(s.lists, c) \cup {v}
      /\ \A k \in K \ {c} : InList(lists, k) = InList(s.lists, k)
  BY <1>1, <1>8, PoolApart, TailKept DEF lists
<1>10. set.voice[v].on /\ set.voice[v].channel \in Channels
  BY <1>3, <1>6
<1> DEFINE After == /\ IsAl(t) /\ t.lists = set.lists /\ t.channel = set.channel
                    /\ t.opl3 = set.opl3
                    /\ \A u \in Voices \ {v} : t.voice[u] = set.voice[u]
                    /\ \A f \in DOMAIN Fresh \ {"timbre"} : t.voice[v][f] = set.voice[v][f]
                    /\ t.voice[v].timbre = PatchOf(set.channel[set.voice[v].channel],
                                                   set.voice[v].key)
                    /\ \A y \in Cells : y # Cell(set.opl3, v) => t.chip[y] = set.chip[y]
                    /\ Told(set, t, v, set.voice[v].timbre)
<1>11. After
  BY <1>7, <1>10, ToldAll
<1> HIDE DEF t
<1>12. /\ IsAl(t) /\ t.lists = lists /\ t.channel = set.channel /\ t.opl3 = s.opl3
       /\ \A u \in Voices \ {v} : t.voice[u] = s.voice[u]
       /\ \A y \in Cells : y # x => t.chip[y] = s.chip[y]
       /\ t.voice[v].channel = c /\ t.voice[v].key = key /\ t.voice[v].on
       /\ t.voice[v].timbre = PatchOf(new, key)
       /\ t.channel[c] = new /\ \A d \in Channels \ {c} : t.channel[d] = s.channel[d]
  <2>1. t.voice[v].channel = c /\ t.voice[v].key = key /\ t.voice[v].on
    BY <1>3, <1>6, <1>11 DEF Fresh
  <2>2. t.voice[v].timbre = PatchOf(new, key)
    BY <1>3, <1>6, <1>11
  <2>3. QED BY <1>5, <1>6, <1>11, <2>1, <2>2 DEF x
<1>13. Told(s, t, v, s.voice[v].timbre)
  BY <1>3, <1>5, <1>6, <1>11 DEF Told
<1> HIDE DEF After
<1>14. t.chip[x].on /\ x \in Cells
  BY <1>1, <1>13, CellIn DEF Told, x
<1>15. \A u : u \in Playing(t) <=> u \in Playing(s) \/ u = v
  BY <1>9, <1>12, WhoPlays, PoolApart
<1>16. ASSUME NEW u \in Playing(s)
       PROVE  /\ u \in Voices \ {v} /\ Has(s.opl3, u) /\ Cell(s.opl3, u) \in Cells
              /\ Cell(s.opl3, u) # x
  <2>1. u \in Voices /\ Has(s.opl3, u) /\ u # v
    BY <1>1, Listed
  <2>2. Cell(s.opl3, u) \in Cells /\ Cell(s.opl3, u) # x
    BY <1>1, <2>1, CellIn, CellApart DEF x
  <2>3. QED BY <2>1, <2>2
<1>17. Placed(t, {})
  <2>1. ASSUME NEW d \in Channels, NEW u \in InList(t.lists, d) PROVE t.voice[u].channel = d
    <3>1. CASE u = v
      <4>1. d = c
        BY <1>8, <1>9, <1>12, <2>1, <3>1, PoolApart
      <4>2. QED BY <1>12, <3>1, <4>1
    <3>2. CASE u # v
      <4>1. u \in InList(s.lists, d)
        BY <1>9, <1>12, <2>1, <3>2, PoolApart
      <4>2. u \in Voices
        BY <1>1, <4>1, Listed, PoolApart
      <4>3. QED BY <1>1, <1>12, <3>2, <4>1, <4>2 DEF Placed
    <3>3. QED BY <3>1, <3>2
  <2>2. ASSUME NEW u \in Voices
        PROVE  (\E k \in K : u \in InList(t.lists, k)) <=> (Has(t.opl3, u) /\ u \notin {})
    <3>1. (\E k \in K : u \in InList(s.lists, k)) <=> (Has(s.opl3, u) /\ u \notin {v})
      BY <1>1 DEF Placed
    <3>2. CASE u = v
      BY <1>9, <1>12, <3>2, PoolApart
    <3>3. CASE u # v
      BY <1>9, <1>12, <3>1, <3>3, PoolApart
    <3>4. QED BY <3>2, <3>3
  <2>3. QED BY <1>9, <1>12, <2>1, <2>2 DEF Placed
<1>18. Sounds(t)
  <2>1. ASSUME NEW u \in Playing(t), t.voice[u].on, Cell(t.opl3, u) \notin astray
        PROVE  t.chip[Cell(t.opl3, u)].on
    <3>1. CASE u = v
      BY <1>12, <1>14, <3>1 DEF x
    <3>2. CASE u # v
      <4>1. u \in Playing(s) /\ s.voice[u].on
        BY <1>12, <1>15, <1>16, <2>1, <3>2
      <4>2. s.chip[Cell(s.opl3, u)].on
        BY <1>1, <1>12, <2>1, <4>1 DEF Sounds
      <4>3. QED BY <1>12, <1>16, <4>1, <4>2
    <3>3. QED BY <3>1, <3>2
  <2>2. ASSUME NEW y \in Cells, t.chip[y].on, y \notin astray
        PROVE  \E u \in Playing(t) : Cell(t.opl3, u) = y
    <3>1. CASE y = x
      BY <1>12, <1>15, <3>1 DEF x
    <3>2. CASE y # x
      <4>1. s.chip[y].on
        BY <1>12, <2>2, <3>2
      <4>2. PICK u \in Playing(s) : Cell(s.opl3, u) = y
        BY <1>1, <2>2, <4>1 DEF Sounds
      <4>3. QED BY <1>12, <1>15, <4>2
    <3>3. QED BY <3>1, <3>2
  <2>3. QED BY <2>1, <2>2 DEF Sounds
<1>19. InList(t.lists, c) = InList(s.lists, c) \cup {v}
       /\ \A d \in Channels \ {c} : InList(t.lists, d) = InList(s.lists, d)
                                    /\ t.channel[d] = s.channel[d]
  BY <1>9, <1>12, PoolApart
<1>20. SameSettings(s.channel[c], t.channel[c])
  BY <1>4, <1>12 DEF ch
<1>21. QED BY <1>2, <1>12, <1>13, <1>17, <1>18, <1>19, <1>20 DEF Well, StruckDone, x

-----------------------------------------------------------------------------
(* AL_RunTimers: ages, glides and vibratos.                                *)

\* From s to t time has passed: no voice moved, and only the tone of a voice that wavers or
\* glides was told anew, which ends it if its key is up.
Drifts(s, t) ==
    /\ t.lists = s.lists /\ t.opl3 = s.opl3
    /\ \A c \in Channels : \A f \in DOMAIN Channel(FALSE) \ {"gliding", "wave"} :
           t.channel[c][f] = s.channel[c][f]
    /\ \A v \in Voices : /\ \A f \in DOMAIN Fresh \ {"age", "from", "glides"} :
                                t.voice[v][f] = s.voice[v][f]
                         /\ t.voice[v].glides => s.voice[v].glides
    /\ \A x \in Cells : \A f \in DOMAIN Flushed \ {"on", "pitch"} : t.chip[x][f] = s.chip[x][f]
    /\ \A v \in Playing(s) : LET x == Cell(s.opl3, v) IN
           /\ t.chip[x] = s.chip[x] \/ t.chip[x].on = t.voice[v].on
           /\ \/ t.chip[x] = s.chip[x] \/ s.voice[v].glides
              \/ Wavers(s.channel[s.voice[v].channel])

\* Nothing has to drift, ...
LEMMA DriftsNot == \A s : Drifts(s, s)
BY DEF Drifts

\* Who plays, and what channels do to the tone, stays as it was.
LEMMA DriftsPlays ==
    ASSUME NEW s, NEW t, Drifts(s, t)
    PROVE  /\ \A v : v \in Playing(t) <=> v \in Playing(s)
           /\ \A c \in Channels : Wavers(t.channel[c]) <=> Wavers(s.channel[c])
           /\ \A v \in Voices : /\ t.voice[v].channel = s.voice[v].channel
                                /\ t.voice[v].on = s.voice[v].on
                                /\ t.voice[v].key = s.voice[v].key
                                /\ t.voice[v].timbre = s.voice[v].timbre
<1>1. \A v : v \in Playing(t) <=> v \in Playing(s)
  BY WhoPlays DEF Drifts
<1>2. \A c \in Channels : t.channel[c].vibrato = s.channel[c].vibrato
                          /\ t.channel[c].aftertouch = s.channel[c].aftertouch
  BY DEF Drifts, Channel
<1>3. \A v \in Voices : /\ t.voice[v].channel = s.voice[v].channel
                        /\ t.voice[v].on = s.voice[v].on
                        /\ t.voice[v].key = s.voice[v].key
                        /\ t.voice[v].timbre = s.voice[v].timbre
  BY DEF Drifts, Fresh
<1>4. QED BY <1>1, <1>2, <1>3 DEF Wavers

\* ... and what has drifted can drift further.
LEMMA DriftsOn ==
    ASSUME NEW s, IsAl(s), NEW L, Placed(s, L), NEW t, NEW u, Drifts(s, t), Drifts(t, u)
    PROVE  Drifts(s, u)
<1>1. u.lists = s.lists /\ u.opl3 = s.opl3 /\ t.opl3 = s.opl3
  BY DEF Drifts
<1>2. ASSUME NEW c \in Channels, NEW f \in DOMAIN Channel(FALSE) \ {"gliding", "wave"}
      PROVE  u.channel[c][f] = s.channel[c][f]
  <2>1. t.channel[c][f] = s.channel[c][f]
    BY DEF Drifts
  <2>2. u.channel[c][f] = t.channel[c][f]
    BY DEF Drifts
  <2>3. QED BY <2>1, <2>2
<1>3. \A v \in Voices : \A f \in DOMAIN Fresh \ {"age", "from", "glides"} :
         u.voice[v][f] = s.voice[v][f]
  BY DEF Drifts
<1>4. \A v \in Voices : u.voice[v].glides => t.voice[v].glides
                        /\ (t.voice[v].glides => s.voice[v].glides)
  BY DEF Drifts
<1>5. \A x \in Cells : \A f \in DOMAIN Flushed \ {"on", "pitch"} : u.chip[x][f] = s.chip[x][f]
  BY DEF Drifts
<1>6. ASSUME NEW v \in Playing(s)
      PROVE  LET x == Cell(s.opl3, v) IN
             /\ u.chip[x] = s.chip[x] \/ u.chip[x].on = u.voice[v].on
             /\ \/ u.chip[x] = s.chip[x] \/ s.voice[v].glides
                \/ Wavers(s.channel[s.voice[v].channel])
  <2> DEFINE x == Cell(s.opl3, v)
             c == s.voice[v].channel
  <2>1. v \in Voices /\ c \in Channels /\ v \in Playing(t) /\ t.voice[v].channel = c
        /\ u.voice[v].on = t.voice[v].on
        /\ (Wavers(t.channel[c]) <=> Wavers(s.channel[c]))
    BY Listed, DriftsPlays
  <2>2. /\ t.chip[x] = s.chip[x] \/ t.chip[x].on = t.voice[v].on
        /\ t.chip[x] = s.chip[x] \/ s.voice[v].glides \/ Wavers(s.channel[c])
    BY DEF Drifts
  <2>3. /\ u.chip[x] = t.chip[x] \/ u.chip[x].on = u.voice[v].on
        /\ u.chip[x] = t.chip[x] \/ t.voice[v].glides \/ Wavers(t.channel[c])
    BY <1>1, <2>1 DEF Drifts
  <2>4. t.voice[v].glides => s.voice[v].glides
    BY <2>1 DEF Drifts
  <2> HIDE DEF x, c
  <2>5. /\ u.chip[x] = s.chip[x] \/ u.chip[x].on = u.voice[v].on
        /\ u.chip[x] = s.chip[x] \/ s.voice[v].glides \/ Wavers(s.channel[c])
    BY <2>1, <2>2, <2>3, <2>4
  <2>6. QED BY <2>5 DEF x, c
<1>7. QED BY <1>1, <1>2, <1>3, <1>4, <1>5, <1>6 DEF Drifts

\* What drifts stays in its place, and sounds as before.
LEMMA DriftsWell ==
    ASSUME NEW s, NEW L, Well(s, L), NEW t, IsAl(t), Drifts(s, t),
           \A x \in Cells : (\A v \in Playing(s) : x # Cell(s.opl3, v))
                               => t.chip[x] = s.chip[x]
    PROVE  Well(t, L)
<1>1. IsAl(s) /\ Placed(s, L) /\ Sounds(s)
  BY DEF Well
<1>2. t.lists = s.lists /\ t.opl3 = s.opl3
  BY DEF Drifts
<1>3. Placed(t, L)
  <2>1. \A c \in Channels : \A v \in InList(s.lists, c) : v \in Voices
    BY <1>1, Listed, PoolApart
  <2>2. QED BY <1>1, <1>2, <2>1, DriftsPlays DEF Placed
<1>4. Sounds(t)
  <2>1. ASSUME NEW v \in Playing(t), t.voice[v].on, Cell(t.opl3, v) \notin astray
        PROVE  t.chip[Cell(t.opl3, v)].on
    <3>1. v \in Playing(s) /\ v \in Voices /\ s.voice[v].on
      BY <1>1, <2>1, DriftsPlays, Listed
    <3>2. s.chip[Cell(s.opl3, v)].on
      BY <1>1, <1>2, <2>1, <3>1 DEF Sounds
    <3>3. QED BY <1>2, <2>1, <3>1, <3>2 DEF Drifts
  <2>2. ASSUME NEW x \in Cells, t.chip[x].on, x \notin astray
        PROVE  \E v \in Playing(t) : Cell(t.opl3, v) = x
    <3>1. CASE \E v \in Playing(s) : x = Cell(s.opl3, v)
      BY <1>2, <3>1, DriftsPlays
    <3>2. CASE \A v \in Playing(s) : x # Cell(s.opl3, v)
      <4>1. s.chip[x].on
        BY <2>2, <3>2
      <4>2. QED BY <1>1, <2>2, <3>2, <4>1 DEF Sounds
    <3>3. QED BY <3>1, <3>2
  <2>3. QED BY <2>1, <2>2 DEF Sounds
<1>5. QED BY <1>3, <1>4 DEF Well

\* The ages of the voices.
LEMMA OlderDoes ==
    ASSUME NEW s, NEW L, Well(s, L)
    PROVE  LET t == [s EXCEPT !.voice = [v \in Voices |-> Older(@[v])]]
           IN Well(t, L) /\ Drifts(s, t)
<1> DEFINE t == [s EXCEPT !.voice = [v \in Voices |-> Older(@[v])]]
<1>1. IsAl(s)
  BY DEF Well
<1>2. /\ DOMAIN t = {"lists", "voice", "channel", "opl3", "chip"} /\ t.lists = s.lists
      /\ t.voice = [v \in Voices |-> Older(s.voice[v])] /\ t.channel = s.channel
      /\ t.opl3 = s.opl3 /\ t.chip = s.chip
  BY <1>1 DEF IsAl
<1>3. ASSUME NEW v \in Voices
      PROVE  /\ DOMAIN Older(s.voice[v]) = DOMAIN Fresh /\ Older(s.voice[v]).age \in 0..MaxAge
             /\ \A f \in DOMAIN Fresh \ {"age"} : Older(s.voice[v])[f] = s.voice[v][f]
  BY <1>1, AlAssumption DEF Older, IsAl, Fresh
<1> HIDE DEF t
<1>4. \A v \in Voices : t.voice[v] = Older(s.voice[v]) /\ Older(s.voice[v]).on = s.voice[v].on
                        /\ Older(s.voice[v]).glides = s.voice[v].glides
  BY <1>2, <1>3 DEF Fresh
<1>5. IsAl(t)
  BY <1>1, <1>2, <1>3, <1>4 DEF IsAl
<1>6. Drifts(s, t)
  <2>1. \A v \in Voices : /\ \A f \in DOMAIN Fresh \ {"age", "from", "glides"} :
                                t.voice[v][f] = s.voice[v][f]
                          /\ t.voice[v].glides => s.voice[v].glides
    BY <1>3, <1>4
  <2>2. QED BY <1>2, <2>1 DEF Drifts
<1>7. QED BY <1>2, <1>5, <1>6, DriftsWell DEF t

\* A glide goes on, or it ends.
LEMMA GlidedDoes ==
    ASSUME NEW s, NEW L, Well(s, L), NEW v \in Playing(s)
    PROVE  /\ Well(Glided(s, v), L) /\ Drifts(s, Glided(s, v))
           /\ Glided(s, v).chip = s.chip
           /\ ~s.voice[v].glides => Glided(s, v) = s
<1> DEFINE voice == s.voice[v]
           c == voice.channel
           up == voice.from < voice.key
           now == IF up THEN voice.from + voice.rate ELSE voice.from - voice.rate
           ends == ~(IF up THEN now < voice.key ELSE now > voice.key)
           r == [[voice EXCEPT !.from = now] EXCEPT !.glides = ~ends]
           ch == [s.channel[c] EXCEPT !.gliding = IF ends THEN @ - 1 ELSE @]
           t == [s EXCEPT !.voice[v].from = now, !.voice[v].glides = ~ends,
                          !.channel[c].gliding = IF ends THEN @ - 1 ELSE @]
<1>1. IsAl(s) /\ Placed(s, L) /\ v \in Voices /\ c \in Channels
  BY Listed DEF Well
<1>2. Glided(s, v) = IF ~s.voice[v].glides THEN s ELSE t
  BY DEF Glided
<1>3. CASE ~s.voice[v].glides
  BY <1>2, <1>3, DriftsNot
<1>4. CASE s.voice[v].glides
  <2>1. Glided(s, v) = t
    BY <1>2, <1>4
  <2> HIDE DEF ends, now
  <2>2. /\ DOMAIN r = DOMAIN Fresh
        /\ \A f \in DOMAIN Fresh \ {"from", "glides"} : r[f] = s.voice[v][f]
    BY <1>1 DEF IsAl, Fresh
  <2>3. r.on = s.voice[v].on /\ r.age = s.voice[v].age
    BY <2>2 DEF Fresh
  <2>4. /\ DOMAIN ch = DOMAIN Channel(FALSE)
        /\ \A f \in DOMAIN Channel(FALSE) \ {"gliding"} : ch[f] = s.channel[c][f]
    BY <1>1 DEF IsAl, Channel
  <2>5. /\ DOMAIN t = {"lists", "voice", "channel", "opl3", "chip"} /\ t.lists = s.lists
        /\ t.voice = [s.voice EXCEPT ![v] = r] /\ t.channel = [s.channel EXCEPT ![c] = ch]
        /\ t.opl3 = s.opl3 /\ t.chip = s.chip
    <3> HIDE DEF c
    <3>1. t.voice = [[s.voice EXCEPT ![v] = [@ EXCEPT !.from = now]]
                       EXCEPT ![v] = [@ EXCEPT !.glides = ~ends]]
      BY <1>1 DEF IsAl
    <3>2. t.voice = [s.voice EXCEPT ![v] = r]
      <4> DEFINE a == [s.voice EXCEPT ![v] = [@ EXCEPT !.from = now]]
      <4>1. DOMAIN s.voice = Voices /\ a[v] = [s.voice[v] EXCEPT !.from = now]
        BY <1>1 DEF IsAl
      <4>2. t.voice = [a EXCEPT ![v] = r]
        BY <3>1, <4>1
      <4> HIDE DEF r, t
      <4>3. QED BY <1>1, <4>1, <4>2
    <3>3. QED BY <1>1, <3>2 DEF IsAl
  <2> HIDE DEF t, r, ch, c, voice
  <2>6. /\ DOMAIN t.voice = Voices /\ t.voice[v] = r
        /\ \A u \in Voices \ {v} : t.voice[u] = s.voice[u]
        /\ DOMAIN t.channel = Channels /\ t.channel[c] = ch
        /\ \A d \in Channels \ {c} : t.channel[d] = s.channel[d]
    BY <1>1, <2>5 DEF IsAl
  <2>7. IsAl(t)
    <3>1. ASSUME NEW u \in Voices
          PROVE  DOMAIN t.voice[u] = DOMAIN Fresh /\ t.voice[u].on \in BOOLEAN
                 /\ t.voice[u].age \in 0..MaxAge
      <4>1. CASE u = v
        BY <1>1, <2>2, <2>3, <2>6, <4>1 DEF IsAl
      <4>2. CASE u # v
        BY <1>1, <2>6, <4>2 DEF IsAl
      <4>3. QED BY <4>1, <4>2
    <3>2. \A d \in Channels : DOMAIN t.channel[d] = DOMAIN Channel(FALSE)
      BY <1>1, <2>4, <2>6 DEF IsAl
    <3>3. QED BY <1>1, <2>5, <2>6, <3>1, <3>2 DEF IsAl
  <2>8. Drifts(s, t)
    <3>1. ASSUME NEW u \in Voices
          PROVE  /\ \A f \in DOMAIN Fresh \ {"age", "from", "glides"} :
                       t.voice[u][f] = s.voice[u][f]
                 /\ t.voice[u].glides => s.voice[u].glides
      BY <1>4, <2>2, <2>6
    <3>2. \A d \in Channels : \A f \in DOMAIN Channel(FALSE) \ {"gliding", "wave"} :
             t.channel[d][f] = s.channel[d][f]
      BY <2>4, <2>6
    <3>3. QED BY <2>5, <3>1, <3>2 DEF Drifts
  <2>9. QED BY <1>4, <2>1, <2>5, <2>7, <2>8, DriftsWell
<1>5. QED BY <1>3, <1>4

\* A voice that wavers, as its channel does, or glides.
LEMMA WaveDoes ==
    ASSUME NEW s, NEW L, Well(s, L), NEW c \in Channels, NEW v \in InList(s.lists, c),
           NEW w, w <=> Wavers(s.channel[c])
    PROVE  Well(Wave(s, w, v), L) /\ Drifts(s, Wave(s, w, v))
<1> DEFINE g == Glided(s, v)
           t == SetVoicePitch(g, v)
           x == Cell(s.opl3, v)
<1>1. IsAl(s) /\ Placed(s, L) /\ v \in Voices /\ v \in Playing(s) /\ s.voice[v].channel = c
      /\ Has(s.opl3, v) /\ s.opl3 \in BOOLEAN
  BY WhoPlays, Listed, PoolApart DEF Well, Placed, IsAl
<1>2. Well(g, L) /\ Drifts(s, g) /\ g.chip = s.chip /\ IsAl(g) /\ Placed(g, L)
  BY <1>1, GlidedDoes DEF Well
<1> HIDE DEF g
<1>3. Wave(s, w, v) = IF w \/ g.voice[v].glides THEN t ELSE g
  BY DEF Wave, g
<1>4. CASE ~(w \/ g.voice[v].glides)
  BY <1>2, <1>3, <1>4
<1>5. CASE w \/ g.voice[v].glides
  <2>1. PitchDone(g, t, v) /\ g.opl3 = s.opl3
    BY <1>1, <1>2, PitchSet DEF Drifts
  <2>2. /\ IsAl(t) /\ t.lists = g.lists /\ t.voice = g.voice /\ t.channel = g.channel
        /\ t.opl3 = g.opl3 /\ \A y \in Cells : y # x => t.chip[y] = g.chip[y]
        /\ t.chip[x].on = g.voice[v].on /\ t.chip[x].timbre = g.chip[x].timbre
        /\ t.chip[x].level = g.chip[x].level /\ t.chip[x].pan = g.chip[x].pan
    BY <2>1 DEF PitchDone, OnlyCell
  <2> HIDE DEF t
  <2>3. \A y \in Cells : \A f \in DOMAIN Flushed \ {"on", "pitch"} :
           t.chip[y][f] = g.chip[y][f]
    BY <2>2 DEF Flushed
  <2>4. \A u \in Playing(g) : u \in Voices /\ Has(g.opl3, u) /\ Cell(g.opl3, u) \in Cells
    BY <1>1, <1>2, <2>1, Listed, CellIn
  <2>5. ASSUME NEW u \in Playing(g)
        PROVE  LET y == Cell(g.opl3, u) IN
               /\ t.chip[y] = g.chip[y] \/ t.chip[y].on = t.voice[u].on
               /\ \/ t.chip[y] = g.chip[y] \/ g.voice[u].glides
                  \/ Wavers(g.channel[g.voice[u].channel])
    <3>1. CASE u = v
      <4>1. g.voice[v].channel = c /\ (Wavers(g.channel[c]) <=> Wavers(s.channel[c]))
        BY <1>1, <1>2, DriftsPlays
      <4>2. t.chip[x].on = t.voice[v].on /\ x = Cell(g.opl3, v)
        BY <2>1, <2>2
      <4>3. QED BY <1>5, <3>1, <4>1, <4>2
    <3>2. CASE u # v
      <4>1. Cell(g.opl3, u) # x
        BY <1>1, <2>1, <2>4, <3>2, CellApart DEF x
      <4>2. QED BY <2>2, <2>4, <4>1
    <3>3. QED BY <3>1, <3>2
  <2>6. Drifts(g, t)
    BY <2>2, <2>3, <2>5 DEF Drifts
  <2>7. \A y \in Cells : (\A u \in Playing(g) : y # Cell(g.opl3, u)) => t.chip[y] = g.chip[y]
    <3>1. v \in Playing(g)
      BY <1>1, <1>2, DriftsPlays
    <3>2. QED BY <2>1, <2>2, <3>1 DEF x
  <2>8. Well(t, L)
    BY <1>2, <2>2, <2>6, <2>7, DriftsWell
  <2>9. Drifts(s, t)
    BY <1>1, <1>2, <2>6, DriftsOn
  <2>10. QED BY <1>3, <1>5, <2>8, <2>9
<1>6. QED BY <1>4, <1>5

\* All voices of a channel.
LEMMA WavesDo ==
    ASSUME NEW s, NEW L, Well(s, L), NEW c \in Channels, NEW w, w <=> Wavers(s.channel[c])
    PROVE  LET t == WaveAll(s, c, w) IN Well(t, L) /\ Drifts(s, t)
<1> DEFINE seq == VoicesOf(s, c)
           x == <<"wave", w>>
<1>1. c \in K /\ Kept(s.lists) /\ IsAl(s) /\ Placed(s, L)
  BY PoolApart DEF Well, Placed
<1>2. PICK n \in Nat : /\ seq \in [1..n -> Voices] /\ DOMAIN seq = 1..n
                       /\ \A i, j \in 1..n : seq[i] = seq[j] => i = j
                       /\ InList(s.lists, c) = {seq[i] : i \in 1..n}
  BY <1>1, ListSeq DEF VoicesOf
<1>3. PICK g : Passes(x, s, seq, n, g) /\ WaveAll(s, c, w) = g[n]
  BY <1>2, WaveFold
<1> HIDE DEF seq
<1>4. \A u, v : Step(x, u, v) = Wave(u, w, v)
  BY DEF Step
<1> DEFINE Far(m) == Well(g[m], L) /\ Drifts(s, g[m])
           I == {m \in Nat : m <= n => Far(m)}
<1>5. 0 \in I
  <2>1. g[0] = s
    BY <1>3 DEF Passes
  <2>2. QED BY <2>1, DriftsNot
<1>6. ASSUME NEW m \in Nat, m \in I PROVE m + 1 \in I
  <2> SUFFICES ASSUME m + 1 <= n PROVE Far(m + 1)
    OBVIOUS
  <2>1. Far(m) /\ m + 1 \in 1..n
    BY <1>6
  <2>2. g[m + 1] = Wave(g[m], w, seq[m + 1])
    <3>1. g[m + 1] = Step(x, g[(m + 1) - 1], seq[m + 1])
      BY <1>3, <2>1 DEF Passes
    <3>2. QED BY <1>4, <3>1
  <2>3. Well(g[m], L) /\ Drifts(s, g[m])
    BY <2>1
  <2>4. seq[m + 1] \in InList(g[m].lists, c)
    BY <1>2, <2>1, <2>3 DEF Drifts
  <2>5. w <=> Wavers(g[m].channel[c])
    BY <2>3, DriftsPlays
  <2>6. Well(g[m + 1], L) /\ Drifts(g[m], g[m + 1])
    BY <2>2, <2>3, <2>4, <2>5, WaveDoes
  <2>7. Drifts(s, g[m + 1])
    BY <1>1, <2>3, <2>6, DriftsOn
  <2>8. QED BY <2>6, <2>7
<1> HIDE DEF I
<1>7. n \in I
  BY <1>5, <1>6, AllNumbers
<1>8. QED BY <1>3, <1>7 DEF I

\* A channel is changed.
Put(s, c, r) == [s EXCEPT !.channel[c] = r]

\* Channel c becomes r.
PutDone(s, t, c, r) ==
    /\ IsAl(t) /\ t.lists = s.lists /\ t.voice = s.voice /\ t.opl3 = s.opl3
    /\ t.chip = s.chip /\ t.channel[c] = r
    /\ \A d \in Channels \ {c} : t.channel[d] = s.channel[d]

\* A channel is written.
LEMMA PutDoes ==
    ASSUME NEW s, IsAl(s), NEW c \in Channels, NEW r, DOMAIN r = DOMAIN Channel(FALSE)
    PROVE  PutDone(s, Put(s, c, r), c, r)
<1> DEFINE t == Put(s, c, r)
<1>1. t = [s EXCEPT !.channel = [s.channel EXCEPT ![c] = r]]
  BY DEF IsAl, Put
<1> HIDE DEF t
<1>2. /\ DOMAIN t = {"lists", "voice", "channel", "opl3", "chip"}
      /\ t.lists = s.lists /\ t.voice = s.voice /\ t.opl3 = s.opl3 /\ t.chip = s.chip
      /\ t.channel = [s.channel EXCEPT ![c] = r]
  BY <1>1 DEF IsAl
<1>3. t.channel[c] = r /\ DOMAIN t.channel = Channels
      /\ \A d \in Channels \ {c} : t.channel[d] = s.channel[d]
  BY <1>2 DEF IsAl
<1>4. IsAl(t)
  BY <1>2, <1>3 DEF IsAl
<1>5. QED BY <1>2, <1>3, <1>4 DEF t, PutDone

\* The channel is told where its vibrato stands.
LEMMA WaveKept ==
    ASSUME NEW s, NEW L, Well(s, L), NEW c \in Channels, NEW wave
    PROVE  LET t == [s EXCEPT !.channel[c].wave = wave] IN Well(t, L) /\ Drifts(s, t)
<1> DEFINE r == [s.channel[c] EXCEPT !.wave = wave]
           t == Put(s, c, r)
<1>1. IsAl(s)
  BY DEF Well
<1>2. [s EXCEPT !.channel[c].wave = wave] = t
  BY <1>1 DEF IsAl, Put
<1>3. \A f \in DOMAIN Channel(FALSE) \ {"gliding", "wave"} : r[f] = s.channel[c][f]
  BY <1>1 DEF IsAl, Channel
<1>7. DOMAIN r = DOMAIN Channel(FALSE)
  BY <1>1 DEF IsAl
<1> HIDE DEF r
<1>4. /\ IsAl(t) /\ t.lists = s.lists /\ t.voice = s.voice /\ t.opl3 = s.opl3
      /\ t.chip = s.chip /\ t.channel[c] = r
      /\ \A d \in Channels \ {c} : t.channel[d] = s.channel[d]
  <2>1. PutDone(s, t, c, r)
    BY <1>1, <1>7, PutDoes
  <2>2. QED BY <2>1 DEF PutDone
<1> HIDE DEF t
<1>5. Drifts(s, t)
  <2>1. \A d \in Channels : \A f \in DOMAIN Channel(FALSE) \ {"gliding", "wave"} :
           t.channel[d][f] = s.channel[d][f]
    BY <1>3, <1>4
  <2>2. QED BY <1>4, <2>1 DEF Drifts
<1>6. Well(t, L)
  BY <1>4, <1>5, DriftsWell
<1>8. QED BY <1>2, <1>5, <1>6

\* A channel in a tick.
LEMMA WavedDoes ==
    ASSUME NEW s, NEW L, Well(s, L), NEW c \in Channels, NEW wave
    PROVE  Well(Waved(s, c, wave), L) /\ Drifts(s, Waved(s, c, wave))
<1> DEFINE a == WaveAll(s, c, Wavers(s.channel[c]))
           t == Waved(s, c, wave)
<1>1. t = [a EXCEPT !.channel[c].wave = wave] \/ t = [s EXCEPT !.channel[c].wave = 0]
  BY DEF Waved
<1>2. Well(a, L) /\ Drifts(s, a) /\ IsAl(s) /\ Placed(s, L)
  BY WavesDo DEF Well
<1> HIDE DEF a, t
<1>3. CASE t = [a EXCEPT !.channel[c].wave = wave]
  <2>1. Well(t, L) /\ Drifts(a, t)
    BY <1>2, <1>3, WaveKept
  <2>2. QED BY <1>2, <2>1, DriftsOn DEF t
<1>4. CASE t = [s EXCEPT !.channel[c].wave = 0]
  BY <1>4, WaveKept DEF t
<1>5. QED BY <1>1, <1>3, <1>4

\* The channels in some order.
LEMMA ChannelSeq ==
    \E n \in Nat : /\ DOMAIN SetToSeq(Channels) = 1..n
                   /\ \A i \in 1..n : SetToSeq(Channels)[i] \in Channels
                   /\ \A c \in Channels : \E i \in 1..n : SetToSeq(Channels)[i] = c
<1> DEFINE n == Cardinality(Channels)
<1>1. IsFiniteSet(Channels)
  <2>1. 0 \in Int /\ 15 \in Int /\ Channels \in SUBSET (0..15)
    BY AlAssumption
  <2>2. IsFiniteSet(0..15)
    BY <2>1, FS_Interval
  <2>3. QED BY <2>1, <2>2, FS_Subset
<1>2. n \in Nat /\ ExistsBijection(1..n, Channels)
  BY <1>1, FS_CardinalityType
<1>3. \E f \in [1..n -> Channels] : IsInjective(f)
  BY <1>2 DEF ExistsBijection, Bijection, Injection, IsInjective
<1>4. SetToSeq(Channels) \in [1..n -> Channels] /\ IsInjective(SetToSeq(Channels))
  <2> DEFINE P(f) == f \in [1..n -> Channels] /\ IsInjective(f)
  <2> HIDE DEF n
  <2>1. SetToSeq(Channels) = CHOOSE f \in [1..n -> Channels] : IsInjective(f)
    BY DEF SetToSeq, n
  <2>2. QED BY <1>3, <2>1
<1>5. \A c \in Channels : \E i \in 1..n : SetToSeq(Channels)[i] = c
  <2> DEFINE q == SetToSeq(Channels)
  <2>1. IsFiniteSet(1..n) /\ Cardinality(1..n) = n
    <3>1. IsFiniteSet(1..n) /\ Cardinality(1..n) = IF 1 > n THEN 0 ELSE n - 1 + 1
      BY <1>2, FS_Interval
    <3>2. QED BY <1>2, <3>1
  <2>2. q \in Injection(1..n, Channels)
    BY <1>4 DEF Injection, IsInjective
  <2> HIDE DEF q
  <2>3. Cardinality(1..n) = Cardinality(Channels)
    BY <2>1
  <2> HIDE DEF n
  <2>4. q \in Surjection(1..n, Channels)
    BY <1>1, <2>2, <2>3, FS_Injection
  <2>5. QED BY <2>4 DEF Surjection, q
<1>6. QED BY <1>2, <1>4, <1>5

\* AL_RunTimers.
LEMMA TicksDo ==
    ASSUME NEW s, NEW L, Well(s, L), NEW wave
    PROVE  LET t == Ticked(s, wave) IN Well(t, L) /\ Drifts(s, t)
<1> DEFINE seq == SetToSeq(Channels)
           x == <<"waved", wave>>
<1>1. IsAl(s) /\ Placed(s, L)
  BY DEF Well
<1>2. PICK n \in Nat : DOMAIN seq = 1..n /\ \A i \in 1..n : seq[i] \in Channels
  BY ChannelSeq
<1>3. PICK g : Passes(x, s, seq, n, g) /\ Ticked(s, wave) = g[n]
  BY <1>2, WavedFold
<1> HIDE DEF seq
<1>4. \A u, v : Step(x, u, v) = Waved(u, v, wave)
  BY DEF Step
<1> DEFINE Far(m) == Well(g[m], L) /\ Drifts(s, g[m])
           I == {m \in Nat : m <= n => Far(m)}
<1>5. 0 \in I
  <2>1. g[0] = s
    BY <1>3 DEF Passes
  <2>2. QED BY <2>1, DriftsNot
<1>6. ASSUME NEW m \in Nat, m \in I PROVE m + 1 \in I
  <2> SUFFICES ASSUME m + 1 <= n PROVE Far(m + 1)
    OBVIOUS
  <2>1. Far(m) /\ m + 1 \in 1..n
    BY <1>6
  <2>2. g[m + 1] = Waved(g[m], seq[m + 1], wave)
    <3>1. g[m + 1] = Step(x, g[(m + 1) - 1], seq[m + 1])
      BY <1>3, <2>1 DEF Passes
    <3>2. QED BY <1>4, <3>1
  <2>3. Well(g[m], L) /\ Drifts(s, g[m]) /\ seq[m + 1] \in Channels
    BY <1>2, <2>1
  <2>4. Well(g[m + 1], L) /\ Drifts(g[m], g[m + 1])
    BY <2>2, <2>3, WavedDoes
  <2>5. Drifts(s, g[m + 1])
    BY <1>1, <2>3, <2>4, DriftsOn
  <2>6. QED BY <2>4, <2>5
<1> HIDE DEF I
<1>7. n \in I
  BY <1>5, <1>6, AllNumbers
<1>8. QED BY <1>3, <1>7 DEF I

\* What AL_RunTimers does in all.
LEMMA RunDoes ==
    ASSUME NEW s, NEW L, Well(s, L), NEW wave
    PROVE  LET t == Ticked([s EXCEPT !.voice = [v \in Voices |-> Older(@[v])]], wave)
           IN Well(t, L) /\ Drifts(s, t)
<1> DEFINE a == [s EXCEPT !.voice = [v \in Voices |-> Older(@[v])]]
<1>1. Well(a, L) /\ Drifts(s, a) /\ IsAl(s) /\ Placed(s, L)
  BY OlderDoes DEF Well
<1> HIDE DEF a
<1>2. Well(Ticked(a, wave), L) /\ Drifts(a, Ticked(a, wave))
  BY <1>1, TicksDo
<1>3. Drifts(s, Ticked(a, wave))
  BY <1>1, <1>2, DriftsOn
<1>4. QED BY <1>2, <1>3 DEF a

\* The first voices are put into the pool.
LEMMA PoolFilled ==
    ASSUME NEW n \in Nat, n <= 2 * NumVoices
    PROVE  /\ Kept(Pooled(n)) /\ InList(Pooled(n), Pool) = 0..(n - 1)
           /\ \A c \in Channels : InList(Pooled(n), c) = {}
<1> DEFINE seq == [i \in 1..n |-> i - 1]
           x == <<"add">>
<1>1. PICK g : Passes(x, Lists!Empty, seq, n, g) /\ Pooled(n) = g[n]
  BY AddFold
<1>2. \A i \in 1..n : seq[i] = i - 1
  OBVIOUS
<1>3. \A u, v : Step(x, u, v) = Lists!AddToTail(u, Pool, v)
  BY DEF Step
<1> DEFINE Far(m) == /\ Kept(g[m]) /\ InList(g[m], Pool) = 0..(m - 1)
                     /\ \A c \in Channels : InList(g[m], c) = {}
           I == {m \in Nat : m <= n => Far(m)}
<1> HIDE DEF seq
<1>4. 0 \in I
  <2>1. g[0] = Lists!Empty
    BY <1>1 DEF Passes
  <2>2. 0..(0 - 1) = {}
    OBVIOUS
  <2>3. QED BY <2>1, <2>2, EmptyKept, PoolApart
<1>5. ASSUME NEW m \in Nat, m \in I PROVE m + 1 \in I
  <2> SUFFICES ASSUME m + 1 <= n PROVE Far(m + 1)
    OBVIOUS
  <2>1. Far(m) /\ m + 1 \in 1..n
    BY <1>5
  <2>2. g[m + 1] = Lists!AddToTail(g[m], Pool, m)
    <3>1. g[m + 1] = Step(x, g[(m + 1) - 1], seq[m + 1])
      BY <1>1, <2>1 DEF Passes
    <3>2. (m + 1) - 1 = m /\ seq[m + 1] = m
      BY <1>2, <2>1
    <3>3. QED BY <1>3, <3>1, <3>2
  <2>3. m \in Voices /\ m \notin 0..(m - 1)
    BY AlAssumption DEF Voices
  <2>4. \A k \in K : k = Pool \/ k \in Channels
    BY DEF K
  <2>5. \A k \in K : m \notin InList(g[m], k)
    BY <2>1, <2>3, <2>4
  <2>6. Kept(g[m]) /\ Pool \in K
    BY <2>1, PoolApart
  <2>7. /\ Kept(g[m + 1]) /\ InList(g[m + 1], Pool) = InList(g[m], Pool) \cup {m}
        /\ \A k \in K \ {Pool} : InList(g[m + 1], k) = InList(g[m], k)
    BY <2>2, <2>3, <2>5, <2>6, TailKept
  <2>8. 0..(m + 1 - 1) = 0..(m - 1) \cup {m}
    OBVIOUS
  <2>9. \A c \in Channels : c \in K \ {Pool}
    BY PoolApart
  <2>10. QED BY <2>1, <2>7, <2>8, <2>9
<1> HIDE DEF I
<1>6. n \in I
  BY <1>4, <1>5, AllNumbers
<1>7. QED BY <1>1, <1>6 DEF I

\* AL_ResetVoices: all voices of the card are free, and nothing sounds.
LEMMA ResetDoes ==
    ASSUME NEW opl3 \in BOOLEAN, NEW voice, NEW chip, DOMAIN chip = Cells,
           \A x \in Cells : DOMAIN chip[x] = DOMAIN Flushed /\ chip[x].on \in BOOLEAN
                            /\ (x \notin astray => ~chip[x].on)
    PROVE  LET t == ResetVoices(opl3, voice, chip)
           IN /\ Well(t, {}) /\ Playing(t) = {}
              /\ \A v \in Voices : t.voice[v].timbre = None
              /\ \A c \in Channels : InList(t.lists, c) = {}
                                     /\ t.channel[c] = Channel(c = Drums)
<1> DEFINE n == IF opl3 THEN 2 * NumVoices ELSE NumVoices
           t == ResetVoices(opl3, voice, chip)
<1>1. /\ DOMAIN t = {"lists", "voice", "channel", "opl3", "chip"} /\ t.lists = Pooled(n)
      /\ t.voice = [v \in Voices |-> Forgotten(voice[v])]
      /\ t.channel = [c \in Channels |-> Channel(c = Drums)]
      /\ t.opl3 = opl3 /\ t.chip = chip
  BY DEF ResetVoices
<1> HIDE DEF t
<1>2. \A v \in Voices : /\ DOMAIN t.voice[v] = DOMAIN Fresh /\ t.voice[v].on = FALSE
                        /\ t.voice[v].age = 0 /\ t.voice[v].timbre = None
  BY <1>1 DEF Forgotten, Fresh
<1>3. \A c \in Channels : t.channel[c] = Channel(c = Drums)
  BY <1>1
<1>4. IsAl(t)
  <2>1. \A c \in Channels : DOMAIN t.channel[c] = DOMAIN Channel(FALSE)
    BY <1>3 DEF Channel
  <2>2. 0 \in 0..MaxAge
    BY AlAssumption
  <2>3. \A v \in Voices : t.voice[v].on \in BOOLEAN
    BY <1>2
  <2>4. QED BY <1>1, <1>2, <2>1, <2>2, <2>3 DEF IsAl
<1>5. n \in Nat /\ n <= 2 * NumVoices
  BY AlAssumption
<1>6. /\ Kept(t.lists) /\ InList(t.lists, Pool) = 0..(n - 1)
      /\ \A c \in Channels : InList(t.lists, c) = {}
  BY <1>1, <1>5, PoolFilled
<1>7. \A v \in Voices : v \in 0..(n - 1) <=> Has(t.opl3, v)
  BY <1>1, AlAssumption DEF Voices, Has
<1>8. Placed(t, {})
  <2>1. \A k \in K : k = Pool \/ k \in Channels
    BY DEF K
  <2>2. QED BY <1>6, <1>7, <2>1, PoolApart DEF Placed
<1>9. Playing(t) = {}
  BY <1>6, WhoPlays
<1>10. Sounds(t)
  BY <1>1, <1>9 DEF Sounds
<1>11. QED BY <1>2, <1>3, <1>4, <1>6, <1>8, <1>9, <1>10 DEF Well, t

-----------------------------------------------------------------------------
(* What the chip was told, and still holds.                                *)

\* No call of the program may have missed the voice.
Reached(s, v) == Cell(s.opl3, v) \notin late /\ v \notin call.left

\* A voice has the volume and the panning that its channel asks for.
Heard(s, v) ==
    LET voice == s.voice[v]
        ch == s.channel[voice.channel]
        cell == s.chip[Cell(s.opl3, v)]
        timbre == bank[voice.timbre]
    IN Cell(s.opl3, v) \notin astray =>
       /\ Reached(s, v) =>
             /\ cell.level[2] = Loudness(ch, voice, timbre, timbre.level[2])
             /\ timbre.additive
                   => cell.level[1] = Loudness(ch, voice, timbre, timbre.level[1])
       /\ s.opl3 => cell.pan = PannedTo(cell, ch.pan).pan

\* The registers of a voice hold its timbre, though it may be free by now.
Holds(s, v) ==
    LET cell == s.chip[Cell(s.opl3, v)]
        timbre == s.voice[v].timbre
    IN Cell(s.opl3, v) \notin astray /\ timbre # None =>
          /\ cell.timbre = timbre
          /\ ~bank[timbre].additive => cell.level[1] = bank[timbre].level[1]

\* All that holds, and what plays is heard.
Asked(s) ==
    /\ \A v \in Voices : Has(s.opl3, v) => Holds(s, v)
    /\ \A v \in Playing(s) : s.voice[v].timbre # None /\ Heard(s, v)

\* From s to t what it takes for a voice to be heard as it was remains.
StillHeard(s, t) ==
    /\ t.opl3 = s.opl3
    /\ \A v \in Voices : t.voice[v].timbre = s.voice[v].timbre
    /\ \A x \in Cells : \A f \in {"timbre", "level", "pan"} : t.chip[x][f] = s.chip[x][f]
    /\ \A v \in Playing(t) :
          /\ v \in Playing(s)
          /\ \A f \in {"channel", "velocity"} : t.voice[v][f] = s.voice[v][f]
          /\ \A f \in {"volume", "expression"} :
                t.channel[s.voice[v].channel][f] = s.channel[s.voice[v].channel][f]
          /\ s.opl3 => t.channel[s.voice[v].channel].pan = s.channel[s.voice[v].channel].pan

\* Then what the chip was told remains as it was asked for.
LEMMA HeardStill ==
    ASSUME NEW s, NEW t, NEW L, NEW M, Placed(s, L), Placed(t, M), s.opl3 \in BOOLEAN,
           IsAl(s), IsAl(t), StillHeard(s, t), Asked(s)
    PROVE  Asked(t)
<1>1. \A v \in Voices : Cell(s.opl3, v) \in Cells
  BY CellIn
<1>2. t.opl3 = s.opl3 /\ \A v \in Voices : t.voice[v].timbre = s.voice[v].timbre
  BY DEF StillHeard
<1>3. \A x \in Cells : /\ t.chip[x].timbre = s.chip[x].timbre
                       /\ t.chip[x].level = s.chip[x].level /\ t.chip[x].pan = s.chip[x].pan
  BY DEF StillHeard
<1>4. ASSUME NEW v \in Voices, Has(t.opl3, v) PROVE Holds(t, v)
  <2>1. Holds(s, v)
    BY <1>2, <1>4 DEF Asked
  <2>2. Cell(t.opl3, v) = Cell(s.opl3, v) /\ Cell(s.opl3, v) \in Cells
    BY <1>1, <1>2
  <2>3. QED BY <1>2, <1>3, <2>1, <2>2 DEF Holds
<1>5. ASSUME NEW v \in Playing(t) PROVE t.voice[v].timbre # None /\ Heard(t, v)
  <2> DEFINE c == s.voice[v].channel
  <2>1. v \in Playing(s) /\ v \in Voices
    BY <1>5, Listed DEF StillHeard
  <2>2. s.voice[v].timbre # None /\ Heard(s, v)
    BY <2>1 DEF Asked
  <2>3. t.voice[v].channel = c /\ t.voice[v].velocity = s.voice[v].velocity
    BY <1>5 DEF StillHeard
  <2>4. /\ t.channel[c].volume = s.channel[c].volume
        /\ t.channel[c].expression = s.channel[c].expression
        /\ s.opl3 => t.channel[c].pan = s.channel[c].pan
    BY <1>5 DEF StillHeard
  <2>5. \A b, l : Loudness(t.channel[c], t.voice[v], b, l)
                     = Loudness(s.channel[c], s.voice[v], b, l)
    BY <2>3, <2>4 DEF Loudness
  <2>6. Cell(t.opl3, v) = Cell(s.opl3, v) /\ Cell(s.opl3, v) \in Cells
    BY <1>1, <1>2, <2>1
  <2>7. PannedTo(t.chip[Cell(s.opl3, v)], s.channel[c].pan).pan
           = PannedTo(s.chip[Cell(s.opl3, v)], s.channel[c].pan).pan
    BY <2>6, PannedSame DEF IsAl
  <2>8. Heard(t, v)
    <3> DEFINE x == Cell(s.opl3, v)
               ch == s.channel[c]
               timbre == bank[s.voice[v].timbre]
    <3>1. x \notin astray =>
          /\ Reached(s, v) =>
                /\ s.chip[x].level[2] = Loudness(ch, s.voice[v], timbre, timbre.level[2])
                /\ timbre.additive
                     => s.chip[x].level[1] = Loudness(ch, s.voice[v], timbre, timbre.level[1])
          /\ s.opl3 => s.chip[x].pan = PannedTo(s.chip[x], ch.pan).pan
      BY <2>2 DEF Heard
    <3>2. /\ t.chip[x].level = s.chip[x].level /\ t.chip[x].pan = s.chip[x].pan
          /\ t.opl3 = s.opl3 /\ t.voice[v].timbre = s.voice[v].timbre
      BY <1>2, <1>3, <2>1, <2>6
    <3> DEFINE th == t.channel[c]
    <3>3. x \notin astray /\ Reached(s, v) =>
          /\ t.chip[x].level[2] = Loudness(th, t.voice[v], timbre, timbre.level[2])
          /\ timbre.additive
               => t.chip[x].level[1] = Loudness(th, t.voice[v], timbre, timbre.level[1])
      <4> HIDE DEF timbre, x
      <4>1. QED BY <2>5, <3>1, <3>2
    <3>4. x \notin astray /\ t.opl3 => t.chip[x].pan = PannedTo(t.chip[x], th.pan).pan
      <4> HIDE DEF timbre
      <4>1. QED BY <2>4, <2>7, <3>1, <3>2
    <3>5. /\ x = Cell(t.opl3, v) /\ t.voice[v].channel = c /\ timbre = bank[t.voice[v].timbre]
          /\ Reached(t, v) = Reached(s, v)
      BY <2>3, <2>6, <3>2 DEF Reached
    <3> HIDE DEF x, timbre, c
    <3>6. QED BY <3>3, <3>4, <3>5 DEF Heard
  <2>9. QED BY <1>2, <2>1, <2>2, <2>8
<1>6. QED BY <1>4, <1>5 DEF Asked

\* It remains where voices fade, and where time passes.
LEMMA FadesHeard ==
    ASSUME NEW s, NEW t, NEW L, Fades(s, t), Placed(t, L)
    PROVE  StillHeard(s, t)
<1>1. \A x \in Cells : \A f \in {"timbre", "level", "pan"} : t.chip[x][f] = s.chip[x][f]
  BY DEF Fades, SameTone, Flushed
<1>2. ASSUME NEW v \in Playing(t)
      PROVE  /\ v \in Playing(s)
             /\ \A f \in {"channel", "velocity"} : t.voice[v][f] = s.voice[v][f]
             /\ \A f \in {"volume", "expression"} :
                   t.channel[s.voice[v].channel][f] = s.channel[s.voice[v].channel][f]
             /\ t.channel[s.voice[v].channel].pan = s.channel[s.voice[v].channel].pan
  <2>1. v \in Playing(s)
    BY <1>2, WhoPlays DEF Fades
  <2>2. \A f \in {"channel", "velocity"} : t.voice[v][f] = s.voice[v][f]
    BY <1>2 DEF Fades, SameNote, Fresh
  <2>3. s.voice[v].channel \in Channels
    <3>1. t.voice[v].channel \in Channels
      BY <1>2, Listed
    <3>2. QED BY <2>2, <3>1
  <2>4. SameChannel(s.channel[s.voice[v].channel], t.channel[s.voice[v].channel])
    BY <2>3 DEF Fades
  <2>5. QED BY <2>1, <2>2, <2>4 DEF SameChannel, Channel
<1>3. QED BY <1>1, <1>2 DEF Fades, StillHeard

\* Time changes no volume, panning or timbre.
LEMMA DriftsHeard ==
    ASSUME NEW s, NEW t, NEW L, Drifts(s, t), Placed(s, L)
    PROVE  StillHeard(s, t)
<1>1. \A x \in Cells : \A f \in {"timbre", "level", "pan"} : t.chip[x][f] = s.chip[x][f]
  BY DEF Drifts, Flushed
<1>2. \A v \in Voices : t.voice[v].timbre = s.voice[v].timbre
  BY DriftsPlays
<1>3. ASSUME NEW v \in Playing(t)
      PROVE  /\ v \in Playing(s)
             /\ \A f \in {"channel", "velocity"} : t.voice[v][f] = s.voice[v][f]
             /\ \A f \in {"volume", "expression"} :
                   t.channel[s.voice[v].channel][f] = s.channel[s.voice[v].channel][f]
             /\ t.channel[s.voice[v].channel].pan = s.channel[s.voice[v].channel].pan
  <2>1. v \in Playing(s) /\ v \in Voices /\ s.voice[v].channel \in Channels
    <3>1. v \in Playing(s)
      BY <1>3, DriftsPlays
    <3>2. QED BY <3>1, Listed
  <2>2. \A f \in {"channel", "velocity"} : t.voice[v][f] = s.voice[v][f]
    BY <2>1 DEF Drifts, Fresh
  <2>3. /\ \A f \in {"volume", "expression"} :
              t.channel[s.voice[v].channel][f] = s.channel[s.voice[v].channel][f]
        /\ t.channel[s.voice[v].channel].pan = s.channel[s.voice[v].channel].pan
    BY <2>1 DEF Drifts, Channel
  <2>4. QED BY <2>1, <2>2, <2>3
<1>4. QED BY <1>1, <1>2, <1>3 DEF Drifts, StillHeard

-----------------------------------------------------------------------------
(* The controllers.                                                        *)

\* From s to t the controllers of the channel c did something: no voice began to play, and
\* what was told to those that play was their volume and panning, at most.
Turns(s, t, c) ==
    /\ t.opl3 = s.opl3
    /\ \A d \in Channels : InList(t.lists, d) \subseteq InList(s.lists, d)
    /\ \A d \in Channels \ {c} : SameChannel(s.channel[d], t.channel[d])
    /\ \A v \in Playing(t) : /\ SameNote(s.voice[v], t.voice[v])
                             /\ t.voice[v].on => s.voice[v].on
                             /\ t.chip[Cell(s.opl3, v)].on = s.chip[Cell(s.opl3, v)].on
                             /\ t.chip[Cell(s.opl3, v)].pitch = s.chip[Cell(s.opl3, v)].pitch

\* Where voices fade the controllers stay, ...
LEMMA FadesTurns ==
    ASSUME NEW s, NEW t, Fades(s, t), NEW c \in Channels
    PROVE  Turns(s, t, c)
BY DEF Fades, Turns

\* ... and they may turn twice.
LEMMA TurnsOn ==
    ASSUME NEW s, NEW t, NEW u, NEW c \in Channels, Turns(s, t, c), Turns(t, u, c)
    PROVE  Turns(s, u, c)
<1>1. \A v : v \in Playing(u) => v \in Playing(t)
  BY WhoPlays DEF Turns
<1>2. \A d \in Channels \ {c} : SameChannel(s.channel[d], u.channel[d])
  BY DEF Turns, SameChannel
<1>3. \A v \in Playing(u) : /\ SameNote(s.voice[v], u.voice[v])
                            /\ u.voice[v].on => s.voice[v].on
  BY <1>1 DEF Turns, SameNote
<1>4. QED BY <1>1, <1>2, <1>3 DEF Turns

\* Only the channel differs.
LEMMA PutTurns ==
    ASSUME NEW s, Well(s, {}), NEW c \in Channels, NEW r, DOMAIN r = DOMAIN Channel(FALSE)
    PROVE  /\ PutDone(s, Put(s, c, r), c, r) /\ Well(Put(s, c, r), {})
           /\ Turns(s, Put(s, c, r), c)
<1> DEFINE t == Put(s, c, r)
<1>1. IsAl(s) /\ Placed(s, {}) /\ Sounds(s)
  BY DEF Well
<1>2. PutDone(s, t, c, r)
  BY <1>1, PutDoes
<1> HIDE DEF t
<1>3. /\ IsAl(t) /\ t.lists = s.lists /\ t.voice = s.voice /\ t.opl3 = s.opl3
      /\ t.chip = s.chip /\ t.channel[c] = r
      /\ \A d \in Channels \ {c} : t.channel[d] = s.channel[d]
  BY <1>2 DEF PutDone
<1>4. Placed(t, {})
  BY <1>1, <1>3 DEF Placed
<1>5. \A v : v \in Playing(t) <=> v \in Playing(s)
  BY <1>3, WhoPlays
<1>6. Sounds(t)
  BY <1>1, <1>3, <1>5 DEF Sounds
<1>7. Turns(s, t, c)
  BY <1>3, <1>5 DEF Turns, SameChannel, SameNote
<1>8. QED BY <1>2, <1>3, <1>4, <1>6, <1>7 DEF Well, t

\* ... and if it has the same volume and panning, all voices are as they were asked to be.
LEMMA PutAsked ==
    ASSUME NEW s, Well(s, {}), NEW c \in Channels, NEW r, DOMAIN r = DOMAIN Channel(FALSE),
           r.volume = s.channel[c].volume, r.expression = s.channel[c].expression,
           s.opl3 => r.pan = s.channel[c].pan, Asked(s)
    PROVE  Asked(Put(s, c, r))
<1> DEFINE t == Put(s, c, r)
<1>1. PutDone(s, t, c, r) /\ Well(t, {}) /\ Turns(s, t, c)
  BY PutTurns
<1> HIDE DEF t
<1>2. /\ IsAl(t) /\ Placed(t, {}) /\ IsAl(s) /\ Placed(s, {}) /\ s.opl3 \in BOOLEAN
  BY <1>1 DEF Well, IsAl
<1>3. StillHeard(s, t)
  <2>1. /\ t.lists = s.lists /\ t.voice = s.voice /\ t.opl3 = s.opl3
        /\ t.chip = s.chip /\ t.channel[c] = r
        /\ \A d \in Channels \ {c} : t.channel[d] = s.channel[d]
    BY <1>1 DEF PutDone
  <2>2. \A v : v \in Playing(t) => v \in Playing(s) /\ s.voice[v].channel \in Channels
    BY <1>2, <2>1, WhoPlays, Listed
  <2>3. \A d \in Channels : /\ \A f \in {"volume", "expression"} :
                                 t.channel[d][f] = s.channel[d][f]
                           /\ s.opl3 => t.channel[d].pan = s.channel[d].pan
    BY <2>1
  <2>4. QED BY <2>1, <2>2, <2>3 DEF StillHeard
<1>4. Asked(t)
  BY <1>2, <1>3, HeardStill
<1>5. QED BY <1>4 DEF t

\* All voices of a channel are told their volume, or their panning.
LEMMA TellTurns ==
    ASSUME NEW x \in {<<"volume">>, <<"pan">>}, NEW s, Well(s, {}), NEW c \in Channels,
           NEW t, AllSet(x, s, c, t)
    PROVE  Well(t, {}) /\ Turns(s, t, c)
<1>1. IsAl(s) /\ Placed(s, {}) /\ Sounds(s)
  BY DEF Well
<1>2. /\ IsAl(t) /\ t.lists = s.lists /\ t.voice = s.voice /\ t.channel = s.channel
      /\ t.opl3 = s.opl3
  BY DEF AllSet, SameMusic
<1>3. \A v : v \in Playing(t) <=> v \in Playing(s)
  BY <1>2, WhoPlays
<1>4. \A v \in Playing(s) : v \in Voices /\ Cell(s.opl3, v) \in Cells
  BY <1>1, Listed, CellIn DEF IsAl
<1>5. ASSUME NEW v \in InList(s.lists, c)
      PROVE  /\ t.chip[Cell(s.opl3, v)].on = s.chip[Cell(s.opl3, v)].on
             /\ t.chip[Cell(s.opl3, v)].pitch = s.chip[Cell(s.opl3, v)].pitch
  <2>1. v \in Voices
    BY <1>1, Listed, PoolApart
  <2>2. t.chip[Cell(s.opl3, v)] = Step(x, s, v).chip[Cell(s.opl3, v)]
    BY DEF AllSet
  <2>3. CASE x = <<"volume">>
    <3>1. Step(x, s, v) = SetVoiceVolume(s, v)
      BY <2>3 DEF Step
    <3>2. VolumeDone(s, Step(x, s, v), v)
      BY <1>1, <2>1, <3>1, VolumeSet
    <3>3. QED BY <2>2, <3>2 DEF VolumeDone
  <2>4. CASE x = <<"pan">>
    <3>1. Step(x, s, v) = SetVoicePan(s, v)
      BY <2>4 DEF Step
    <3>2. PanDone(s, Step(x, s, v), v)
      BY <1>1, <2>1, <3>1, PanSet
    <3>3. QED BY <2>2, <3>2 DEF PanDone
  <2>5. QED BY <2>3, <2>4
<1>6. ASSUME NEW y \in Cells
      PROVE  t.chip[y].on = s.chip[y].on /\ t.chip[y].pitch = s.chip[y].pitch
  <2>1. CASE \E v \in InList(s.lists, c) : y = Cell(s.opl3, v)
    BY <1>5, <2>1
  <2>2. CASE \A v \in InList(s.lists, c) : y # Cell(s.opl3, v)
    <3>1. t.chip[y] = s.chip[y]
      BY <2>2 DEF AllSet
    <3>2. QED BY <3>1
  <2>3. QED BY <2>1, <2>2
<1>7. Placed(t, {})
  BY <1>1, <1>2 DEF Placed
<1>8. Sounds(t)
  BY <1>1, <1>2, <1>3, <1>4, <1>6 DEF Sounds
<1>9. Turns(s, t, c)
  BY <1>2, <1>3, <1>4, <1>6 DEF Turns, SameChannel, SameNote
<1>10. QED BY <1>2, <1>7, <1>8, <1>9 DEF Well

\* If the voices of the channel are told, the others are as they were.
LEMMA OthersAsked ==
    ASSUME NEW x, NEW s, Well(s, {}), Asked(s), NEW c \in Channels, NEW r, NEW a, NEW t,
           PutDone(s, a, c, r), AllSet(x, a, c, t), Well(t, {}),
           \A v \in InList(s.lists, c) : Holds(t, v) /\ Heard(t, v)
    PROVE  Asked(t)
<1>1. IsAl(s) /\ Placed(s, {}) /\ s.opl3 \in BOOLEAN
  BY DEF Well, IsAl
<1>2. /\ a.lists = s.lists /\ a.voice = s.voice /\ a.opl3 = s.opl3 /\ a.chip = s.chip
      /\ \A d \in Channels \ {c} : a.channel[d] = s.channel[d]
  BY DEF PutDone
<1>3. /\ t.lists = s.lists /\ t.voice = s.voice /\ t.opl3 = s.opl3 /\ t.channel = a.channel
      /\ \A y \in Cells : (\A v \in InList(s.lists, c) : y # Cell(s.opl3, v))
                              => t.chip[y] = s.chip[y]
  BY <1>2 DEF AllSet, SameMusic
<1>4. ASSUME NEW v \in Voices, v \notin InList(s.lists, c), Has(s.opl3, v)
      PROVE  t.chip[Cell(s.opl3, v)] = s.chip[Cell(s.opl3, v)]
  <2>1. \A u \in InList(s.lists, c) : u \in Voices /\ Has(s.opl3, u) /\ u # v
    BY <1>1, <1>4, Listed, PoolApart
  <2>2. \A u \in InList(s.lists, c) : Cell(s.opl3, v) # Cell(s.opl3, u)
    BY <1>1, <1>4, <2>1, CellApart
  <2>3. Cell(s.opl3, v) \in Cells
    BY <1>1, <1>4, CellIn
  <2>4. QED BY <1>3, <2>2, <2>3
<1>5. ASSUME NEW v \in Voices, Has(t.opl3, v) PROVE Holds(t, v)
  <2>1. CASE v \in InList(s.lists, c)
    BY <2>1
  <2>2. CASE v \notin InList(s.lists, c)
    <3>1. t.chip[Cell(s.opl3, v)] = s.chip[Cell(s.opl3, v)] /\ Holds(s, v)
      BY <1>3, <1>4, <1>5, <2>2 DEF Asked
    <3>2. QED BY <1>3, <3>1 DEF Holds
  <2>3. QED BY <2>1, <2>2
<1>6. ASSUME NEW v \in Playing(t) PROVE t.voice[v].timbre # None /\ Heard(t, v)
  <2>1. v \in Playing(s) /\ v \in Voices /\ Has(s.opl3, v) /\ s.voice[v].channel \in Channels
        /\ v \in InList(s.lists, s.voice[v].channel)
    <3>1. v \in Playing(s)
      BY <1>3, <1>6, WhoPlays
    <3>2. QED BY <1>1, <3>1, Listed
  <2>2. s.voice[v].timbre # None /\ Heard(s, v)
    BY <2>1 DEF Asked
  <2>3. CASE v \in InList(s.lists, c)
    BY <1>3, <2>2, <2>3
  <2>4. CASE v \notin InList(s.lists, c)
    <3>1. t.chip[Cell(s.opl3, v)] = s.chip[Cell(s.opl3, v)]
      BY <1>4, <2>1, <2>4
    <3>2. s.voice[v].channel # c
      BY <2>1, <2>4
    <3>3. t.channel[s.voice[v].channel] = s.channel[s.voice[v].channel]
      BY <1>2, <1>3, <2>1, <3>2
    <3>4. Heard(t, v)
      BY <1>3, <2>2, <3>1, <3>3 DEF Heard, Reached
    <3>5. QED BY <1>3, <2>2, <3>4
  <2>5. QED BY <2>3, <2>4
<1>7. QED BY <1>5, <1>6 DEF Asked

\* AL_SetVoiceVolume writes both volumes of a timbre that has two.
LEMMA LevelsSet ==
    ASSUME NEW cell, DOMAIN cell = DOMAIN Flushed, NEW ch, NEW voice, NEW timbre
    PROVE  LET level == WithVolume(cell, ch, voice, timbre).level
           IN /\ level[2] = Loudness(ch, voice, timbre, timbre.level[2])
              /\ timbre.additive => level[1] = Loudness(ch, voice, timbre, timbre.level[1])
              /\ ~timbre.additive => level[1] = cell.level[1]
BY DEF WithVolume, Flushed

\* The volume of a channel.
LEMMA VolumeAsked ==
    ASSUME NEW s, Well(s, {}), Asked(s), NEW c \in Channels, NEW r,
           r.pan = s.channel[c].pan, NEW a, NEW t, PutDone(s, a, c, r), Well(a, {}),
           AllSet(<<"volume">>, a, c, t), Well(t, {})
    PROVE  Asked(t)
<1>1. IsAl(s) /\ Placed(s, {}) /\ s.opl3 \in BOOLEAN /\ IsAl(a) /\ IsAl(t)
  BY DEF Well, IsAl
<1>2. /\ a.lists = s.lists /\ a.voice = s.voice /\ a.opl3 = s.opl3 /\ a.chip = s.chip
      /\ a.channel[c] = r
  BY DEF PutDone
<1>3. t.voice = s.voice /\ t.opl3 = s.opl3 /\ t.channel[c] = r
  BY <1>2 DEF AllSet, SameMusic
<1>4. ASSUME NEW v \in InList(s.lists, c) PROVE Holds(t, v) /\ Heard(t, v)
  <2> DEFINE y == Cell(s.opl3, v)
             voice == s.voice[v]
             timbre == bank[voice.timbre]
  <2>1. v \in Voices /\ Has(s.opl3, v) /\ voice.channel = c /\ v \in Playing(s)
    <3>1. v \in Voices /\ Has(s.opl3, v)
      BY <1>1, <1>4, Listed, PoolApart
    <3>2. v \in Playing(s)
      BY <1>4, WhoPlays
    <3>3. s.voice[v].channel = c
      BY <1>1, <1>4 DEF Placed
    <3>4. QED BY <3>1, <3>2, <3>3
  <2>2. y \in Cells
    BY <1>1, <2>1, CellIn
  <2>3. Holds(s, v) /\ Heard(s, v) /\ voice.timbre # None
    BY <2>1 DEF Asked
  <2>4. /\ t.chip[y] = Step(<<"volume">>, a, v).chip[y]
        /\ Step(<<"volume">>, a, v) = SetVoiceVolume(a, v)
    BY <1>2, <1>4 DEF AllSet, Step
  <2>5. VolumeDone(a, SetVoiceVolume(a, v), v)
    BY <1>1, <2>1, VolumeSet
  <2>6. /\ t.chip[y].level = WithVolume(s.chip[y], r, voice, timbre).level
        /\ t.chip[y].timbre = s.chip[y].timbre /\ t.chip[y].pan = s.chip[y].pan
    BY <1>2, <2>1, <2>4, <2>5 DEF VolumeDone
  <2>7. DOMAIN s.chip[y] = DOMAIN Flushed /\ DOMAIN t.chip[y] = DOMAIN Flushed
    BY <1>1, <2>2 DEF IsAl
  <2>8. /\ t.chip[y].level[2] = Loudness(r, voice, timbre, timbre.level[2])
        /\ timbre.additive => t.chip[y].level[1] = Loudness(r, voice, timbre, timbre.level[1])
        /\ ~timbre.additive => t.chip[y].level[1] = s.chip[y].level[1]
    BY <2>6, <2>7, LevelsSet
  <2>9. y \notin astray /\ s.opl3 => t.chip[y].pan = PannedTo(t.chip[y], r.pan).pan
    <3>1. y \notin astray /\ s.opl3 => s.chip[y].pan = PannedTo(s.chip[y], r.pan).pan
      BY <2>1, <2>3 DEF Heard
    <3>2. PannedTo(t.chip[y], r.pan).pan = PannedTo(s.chip[y], r.pan).pan
      BY <2>7, PannedSame
    <3>3. QED BY <2>6, <3>1, <3>2
  <2>10. Holds(t, v)
    <3>1. y \notin astray => s.chip[y].timbre = voice.timbre
          /\ (~timbre.additive => s.chip[y].level[1] = timbre.level[1])
      BY <2>3 DEF Holds
    <3>2. y \notin astray => t.chip[y].timbre = voice.timbre
          /\ (~timbre.additive => t.chip[y].level[1] = timbre.level[1])
      BY <2>6, <2>8, <3>1
    <3>3. QED BY <1>3, <3>2 DEF Holds
  <2>11. Heard(t, v)
    BY <1>3, <2>1, <2>8, <2>9 DEF Heard
  <2>12. QED BY <2>10, <2>11
<1>5. QED BY <1>4, OthersAsked

\* The panning of a channel.
LEMMA PanAsked ==
    ASSUME NEW s, Well(s, {}), Asked(s), NEW c \in Channels, NEW r,
           r.volume = s.channel[c].volume, r.expression = s.channel[c].expression,
           NEW a, NEW t, PutDone(s, a, c, r), Well(a, {}),
           AllSet(<<"pan">>, a, c, t), Well(t, {})
    PROVE  Asked(t)
<1>1. IsAl(s) /\ Placed(s, {}) /\ s.opl3 \in BOOLEAN /\ IsAl(a) /\ IsAl(t)
  BY DEF Well, IsAl
<1>2. /\ a.lists = s.lists /\ a.voice = s.voice /\ a.opl3 = s.opl3 /\ a.chip = s.chip
      /\ a.channel[c] = r
  BY DEF PutDone
<1>3. t.voice = s.voice /\ t.opl3 = s.opl3 /\ t.channel[c] = r
  BY <1>2 DEF AllSet, SameMusic
<1>4. ASSUME NEW v \in InList(s.lists, c) PROVE Holds(t, v) /\ Heard(t, v)
  <2> DEFINE y == Cell(s.opl3, v)
             voice == s.voice[v]
             timbre == bank[voice.timbre]
             ch == s.channel[c]
  <2>1. v \in Voices /\ Has(s.opl3, v) /\ voice.channel = c /\ v \in Playing(s)
    <3>1. v \in Voices /\ Has(s.opl3, v)
      BY <1>1, <1>4, Listed, PoolApart
    <3>2. v \in Playing(s)
      BY <1>4, WhoPlays
    <3>3. s.voice[v].channel = c
      BY <1>1, <1>4 DEF Placed
    <3>4. QED BY <3>1, <3>2, <3>3
  <2>2. y \in Cells
    BY <1>1, <2>1, CellIn
  <2>3. Holds(s, v) /\ Heard(s, v) /\ voice.timbre # None
    BY <2>1 DEF Asked
  <2>4. t.chip[y] = Step(<<"pan">>, a, v).chip[y] /\ Step(<<"pan">>, a, v) = SetVoicePan(a, v)
    BY <1>2, <1>4 DEF AllSet, Step
  <2>5. PanDone(a, SetVoicePan(a, v), v)
    BY <1>1, <2>1, PanSet
  <2>6. /\ s.opl3 => t.chip[y].pan = PannedTo(s.chip[y], r.pan).pan
        /\ t.chip[y].timbre = s.chip[y].timbre /\ t.chip[y].level = s.chip[y].level
    BY <1>2, <2>1, <2>4, <2>5 DEF PanDone
  <2>7. DOMAIN s.chip[y] = DOMAIN Flushed /\ DOMAIN t.chip[y] = DOMAIN Flushed
    BY <1>1, <2>2 DEF IsAl
  <2>8. \A b, l : Loudness(r, voice, b, l) = Loudness(ch, voice, b, l)
    BY DEF Loudness
  <2>9. y \notin astray /\ Reached(s, v) =>
        /\ t.chip[y].level[2] = Loudness(r, voice, timbre, timbre.level[2])
        /\ timbre.additive => t.chip[y].level[1] = Loudness(r, voice, timbre, timbre.level[1])
    <3>1. y \notin astray /\ Reached(s, v) =>
          /\ s.chip[y].level[2] = Loudness(ch, voice, timbre, timbre.level[2])
          /\ timbre.additive
                => s.chip[y].level[1] = Loudness(ch, voice, timbre, timbre.level[1])
      BY <2>1, <2>3 DEF Heard
    <3> HIDE DEF timbre, voice, ch, y
    <3>2. QED BY <2>6, <2>8, <3>1
  <2>10. s.opl3 => t.chip[y].pan = PannedTo(t.chip[y], r.pan).pan
    <3>1. PannedTo(t.chip[y], r.pan).pan = PannedTo(s.chip[y], r.pan).pan
      BY <2>7, PannedSame
    <3>2. QED BY <2>6, <3>1
  <2>11. Holds(t, v)
    <3>1. y \notin astray => s.chip[y].timbre = voice.timbre
          /\ (~timbre.additive => s.chip[y].level[1] = timbre.level[1])
      BY <2>3 DEF Holds
    <3>2. QED BY <1>3, <2>6, <3>1 DEF Holds
  <2>12. Heard(t, v)
    BY <1>3, <2>1, <2>9, <2>10 DEF Heard, Reached
  <2>13. QED BY <2>11, <2>12
<1>5. QED BY <1>4, OthersAsked

\* The numbers of a channel that come from bytes of the song.
Ranged(ch) == ch.program \in 0..127 /\ ch.vibrato \in Nat /\ ch.aftertouch \in Nat

\* The wheel and its range are as they were.
SameWheel(a, b) == b.bend = a.bend /\ b.msb = a.msb /\ b.lsb = a.lsb

\* What any controller leaves as it should be.
ControlDone(s, t, c, type) ==
    /\ Well(t, {}) /\ Turns(s, t, c)
    /\ Asked(s) => Asked(t)
    /\ Ranged(s.channel[c]) => Ranged(t.channel[c])
    /\ type \notin {"reset", "dataMsb", "dataLsb"}
          => SameWheel(s.channel[c], t.channel[c])

\* The new settings r of a channel that had ch, if its volume and panning remain.
Mild(opl3, ch, r, type) ==
    /\ DOMAIN r = DOMAIN Channel(FALSE)
    /\ r.volume = ch.volume /\ r.expression = ch.expression
    /\ opl3 => r.pan = ch.pan
    /\ Ranged(ch) => Ranged(r)
    /\ type \notin {"reset", "dataMsb", "dataLsb"} => SameWheel(ch, r)

\* Such a change of a channel is a change of controllers.
LEMMA MildDone ==
    ASSUME NEW s, Well(s, {}), NEW c \in Channels, NEW r, NEW type,
           Mild(s.opl3, s.channel[c], r, type)
    PROVE  ControlDone(s, Put(s, c, r), c, type)
<1>1. /\ DOMAIN r = DOMAIN Channel(FALSE)
      /\ r.volume = s.channel[c].volume /\ r.expression = s.channel[c].expression
      /\ s.opl3 => r.pan = s.channel[c].pan
  BY DEF Mild
<1>2. /\ PutDone(s, Put(s, c, r), c, r) /\ Well(Put(s, c, r), {}) /\ Turns(s, Put(s, c, r), c)
  BY <1>1, PutTurns
<1>3. Asked(s) => Asked(Put(s, c, r))
  BY <1>1, PutAsked
<1>4. Put(s, c, r).channel[c] = r
  BY <1>2 DEF PutDone
<1>5. QED BY <1>2, <1>3, <1>4 DEF ControlDone, Mild

\* AL_SetChannelVolume, AL_SetChannelExpression: the volume, and all voices are told.
LEMMA LouderDone ==
    ASSUME NEW s, Well(s, {}), NEW c \in Channels, NEW r, NEW type,
           DOMAIN r = DOMAIN Channel(FALSE), r.pan = s.channel[c].pan,
           Ranged(s.channel[c]) => Ranged(r),
           type \notin {"reset", "dataMsb", "dataLsb"} => SameWheel(s.channel[c], r)
    PROVE  ControlDone(s, ForVoices(Put(s, c, r), c, SetVoiceVolume), c, type)
<1> DEFINE a == Put(s, c, r)
           t == ForVoices(a, c, SetVoiceVolume)
<1>1. PutDone(s, a, c, r) /\ Well(a, {}) /\ Turns(s, a, c)
  BY PutTurns
<1> HIDE DEF a
<1>2. AllSet(<<"volume">>, a, c, t)
  BY <1>1, AllVoicesSet DEF Well
<1> HIDE DEF t
<1>3. Well(t, {}) /\ Turns(a, t, c)
  BY <1>1, <1>2, TellTurns
<1>4. Turns(s, t, c)
  BY <1>1, <1>3, TurnsOn
<1>5. Asked(s) => Asked(t)
  BY <1>1, <1>2, <1>3, VolumeAsked
<1>6. t.channel[c] = r
  BY <1>1, <1>2 DEF AllSet, SameMusic, PutDone
<1>7. QED BY <1>3, <1>4, <1>5, <1>6 DEF ControlDone, t, a

\* AL_SetChannelPan on an OPL3.
LEMMA PannedDone ==
    ASSUME NEW s, Well(s, {}), NEW c \in Channels, NEW r, NEW type,
           DOMAIN r = DOMAIN Channel(FALSE), r.volume = s.channel[c].volume,
           r.expression = s.channel[c].expression,
           Ranged(s.channel[c]) => Ranged(r), SameWheel(s.channel[c], r)
    PROVE  ControlDone(s, ForVoices(Put(s, c, r), c, SetVoicePan), c, type)
<1> DEFINE a == Put(s, c, r)
           t == ForVoices(a, c, SetVoicePan)
<1>1. PutDone(s, a, c, r) /\ Well(a, {}) /\ Turns(s, a, c)
  BY PutTurns
<1> HIDE DEF a
<1>2. AllSet(<<"pan">>, a, c, t)
  BY <1>1, AllVoicesSet DEF Well
<1> HIDE DEF t
<1>3. Well(t, {}) /\ Turns(a, t, c)
  BY <1>1, <1>2, TellTurns
<1>4. Turns(s, t, c)
  BY <1>1, <1>3, TurnsOn
<1>5. Asked(s) => Asked(t)
  BY <1>1, <1>2, <1>3, PanAsked
<1>6. t.channel[c] = r
  BY <1>1, <1>2 DEF AllSet, SameMusic, PutDone
<1>7. QED BY <1>3, <1>4, <1>5, <1>6 DEF ControlDone, t, a

\* Where voices fade.
LEMMA FadesDone ==
    ASSUME NEW s, Well(s, {}), NEW t, Well(t, {}), Fades(s, t), NEW c \in Channels, NEW type
    PROVE  ControlDone(s, t, c, type)
<1>1. Turns(s, t, c)
  BY FadesTurns
<1>2. Asked(s) => Asked(t)
  BY FadesHeard, HeardStill DEF Well, IsAl
<1>3. Ranged(s.channel[c]) => Ranged(t.channel[c])
  BY DEF Fades, SameChannel, Ranged, Channel
<1>4. SameWheel(s.channel[c], t.channel[c])
  BY DEF Fades, SameChannel, SameWheel, Channel
<1>5. QED BY <1>1, <1>2, <1>3, <1>4 DEF ControlDone

\* Two changes are one.
LEMMA DoneOn ==
    ASSUME NEW s, NEW t, NEW u, NEW c \in Channels, NEW type,
           ControlDone(s, t, c, type), ControlDone(t, u, c, type)
    PROVE  ControlDone(s, u, c, type)
<1>1. Turns(s, u, c)
  BY TurnsOn DEF ControlDone
<1>2. QED BY <1>1 DEF ControlDone, SameWheel

\* AL_SetChannelSostenuto: the voices of the channel are held.
LEMMA SostenutoDone ==
    ASSUME NEW s, Well(s, {}), NEW c \in Channels, NEW type
    PROVE  ControlDone(s, SetChannelSostenuto(s, c), c, type)
<1> DEFINE t == SetChannelSostenuto(s, c)
           S == InList(s.lists, c)
           r == [v \in Voices |-> Sustained(s.voice[v])]
<1>1. IsAl(s) /\ Placed(s, {}) /\ Sounds(s)
  BY DEF Well
<1>2. /\ DOMAIN t = {"lists", "voice", "channel", "opl3", "chip"}
      /\ t.lists = s.lists /\ t.channel = s.channel /\ t.opl3 = s.opl3 /\ t.chip = s.chip
      /\ t.voice = [v \in Voices |-> IF v \in S THEN r[v] ELSE s.voice[v]]
  BY <1>1 DEF SetChannelSostenuto, IsAl, VoicesOf, InList
<1>3. \A v \in Voices : /\ DOMAIN r[v] = DOMAIN Fresh
                        /\ \A f \in DOMAIN Fresh \ {"sustain"} : r[v][f] = s.voice[v][f]
  BY <1>1 DEF IsAl, Fresh, Sustained
<1> HIDE DEF t, r, S
<1>4. \A v \in Voices : /\ DOMAIN t.voice[v] = DOMAIN Fresh
                        /\ \A f \in DOMAIN Fresh \ {"sustain"} : t.voice[v][f] = s.voice[v][f]
  BY <1>1, <1>2, <1>3 DEF IsAl
<1>5. \A v \in Voices : /\ t.voice[v].on = s.voice[v].on /\ t.voice[v].age = s.voice[v].age
                        /\ t.voice[v].channel = s.voice[v].channel
                        /\ t.voice[v].timbre = s.voice[v].timbre
                        /\ SameNote(s.voice[v], t.voice[v])
  BY <1>4 DEF Fresh, SameNote
<1>6. IsAl(t)
  BY <1>1, <1>2, <1>4, <1>5 DEF IsAl
<1>7. \A v : v \in Playing(t) <=> v \in Playing(s)
  BY <1>2, WhoPlays
<1>8. \A v \in Playing(s) : v \in Voices
  BY <1>1, Listed
<1>9. Placed(t, {})
  <2>1. \A d \in Channels : \A v \in InList(s.lists, d) : v \in Voices
    BY <1>1, Listed, PoolApart
  <2>2. QED BY <1>1, <1>2, <1>5, <2>1 DEF Placed
<1>10. Sounds(t)
  BY <1>1, <1>2, <1>5, <1>7, <1>8 DEF Sounds
<1>11. Fades(s, t)
  BY <1>2, <1>5, <1>7, <1>8 DEF Fades, SameChannel, SameTone
<1>12. ControlDone(s, t, c, type)
  BY <1>6, <1>9, <1>10, <1>11, FadesDone DEF Well
<1>13. QED BY <1>12 DEF t

\* The settings that only take a place in the channel.
PutControls == {"modulation", "bankLsb", "bankMsb", "portamento", "portamentoOn", 
                "soft", "nrpnLsb", "rpnLsb", "dataMsb", "dataLsb"}

\* ... are mild.
LEMMA MildControls ==
    ASSUME NEW s, NEW c \in Channels, DOMAIN s.channel[c] = DOMAIN Channel(FALSE),
           NEW type \in PutControls, NEW data \in Nat
    PROVE  \E r : /\ Mild(s.opl3, s.channel[c], r, type)
                  /\ Controlled(s, c, type, data) = Put(s, c, r)
<1> DEFINE ch == s.channel[c]
<1>1. CASE type = "modulation"
  <2> DEFINE r == [ch EXCEPT !.vibrato = data]
  <2>1. Controlled(s, c, type, data) = Put(s, c, r)
    BY <1>1 DEF Controlled, Put
  <2>2. Mild(s.opl3, ch, r, type)
    BY <1>1 DEF Mild, Channel, Ranged, SameWheel
  <2> HIDE DEF r
  <2>3. QED BY <2>1, <2>2
<1>2. CASE type = "bankLsb"
  <2> DEFINE q == [ch EXCEPT !.bankLo = data]
             r == UpdateBanks(q, c)
  <2>1. Controlled(s, c, type, data) = Put(s, c, r)
    BY <1>2 DEF Controlled, Put
  <2>2. Mild(s.opl3, ch, q, type) /\ DOMAIN q = DOMAIN Channel(FALSE)
    BY <1>2 DEF Mild, Channel, Ranged, SameWheel
  <2>3. r = q \/ r = [q EXCEPT !.isDrum = q.bankLo = 0 /\ q.bankHi = 127]
    BY DEF UpdateBanks
  <2> HIDE DEF q
  <2>4. CASE r = q
    BY <2>1, <2>2, <2>4
  <2>5. CASE r = [q EXCEPT !.isDrum = q.bankLo = 0 /\ q.bankHi = 127]
    <3>1. Mild(s.opl3, ch, r, type)
      BY <2>2, <2>5 DEF Mild, Channel, Ranged, SameWheel
    <3>2. QED BY <2>1, <3>1
  <2>6. QED BY <2>3, <2>4, <2>5
<1>3. CASE type = "bankMsb"
  <2> DEFINE q == [ch EXCEPT !.bankHi = data]
             r == UpdateBanks(q, c)
  <2>1. Controlled(s, c, type, data) = Put(s, c, r)
    BY <1>3 DEF Controlled, Put
  <2>2. Mild(s.opl3, ch, q, type) /\ DOMAIN q = DOMAIN Channel(FALSE)
    BY <1>3 DEF Mild, Channel, Ranged, SameWheel
  <2>3. r = q \/ r = [q EXCEPT !.isDrum = q.bankLo = 0 /\ q.bankHi = 127]
    BY DEF UpdateBanks
  <2> HIDE DEF q
  <2>4. CASE r = q
    BY <2>1, <2>2, <2>4
  <2>5. CASE r = [q EXCEPT !.isDrum = q.bankLo = 0 /\ q.bankHi = 127]
    <3>1. Mild(s.opl3, ch, r, type)
      BY <2>2, <2>5 DEF Mild, Channel, Ranged, SameWheel
    <3>2. QED BY <2>1, <3>1
  <2>6. QED BY <2>3, <2>4, <2>5
<1>4. CASE type = "portamento"
  <2> DEFINE r == [ch EXCEPT !.portamento = data]
  <2>1. Controlled(s, c, type, data) = Put(s, c, r)
    BY <1>4 DEF Controlled, Put
  <2>2. Mild(s.opl3, ch, r, type)
    BY <1>4 DEF Mild, Channel, Ranged, SameWheel
  <2> HIDE DEF r
  <2>3. QED BY <2>1, <2>2
<1>5. CASE type = "portamentoOn"
  <2> DEFINE r == [ch EXCEPT !.glides = data >= 64]
  <2>1. Controlled(s, c, type, data) = Put(s, c, r)
    BY <1>5 DEF Controlled, Put
  <2>2. Mild(s.opl3, ch, r, type)
    BY <1>5 DEF Mild, Channel, Ranged, SameWheel
  <2> HIDE DEF r
  <2>3. QED BY <2>1, <2>2
<1>6. CASE type = "soft"
  <2> DEFINE r == [ch EXCEPT !.soft = data >= 64]
  <2>1. Controlled(s, c, type, data) = Put(s, c, r)
    BY <1>6 DEF Controlled, Put
  <2>2. Mild(s.opl3, ch, r, type)
    BY <1>6 DEF Mild, Channel, Ranged, SameWheel
  <2> HIDE DEF r
  <2>3. QED BY <2>1, <2>2
<1>7. CASE type = "nrpnLsb"
  <2> DEFINE r == [ch EXCEPT !.rpn = data, !.nrpn = TRUE]
  <2>1. Controlled(s, c, type, data) = Put(s, c, r)
    BY <1>7 DEF Controlled, Put
  <2>2. Mild(s.opl3, ch, r, type)
    BY <1>7 DEF Mild, Channel, Ranged, SameWheel
  <2> HIDE DEF r
  <2>3. QED BY <2>1, <2>2
<1>8. CASE type = "rpnLsb"
  <2> DEFINE r == [ch EXCEPT !.rpn = data, !.nrpn = FALSE]
  <2>1. Controlled(s, c, type, data) = Put(s, c, r)
    BY <1>8 DEF Controlled, Put
  <2>2. Mild(s.opl3, ch, r, type)
    BY <1>8 DEF Mild, Channel, Ranged, SameWheel
  <2> HIDE DEF r
  <2>3. QED BY <2>1, <2>2
<1>9. CASE type = "dataMsb"
  <2> DEFINE r == [ch EXCEPT !.msb = IF SetsRange(ch) THEN data ELSE @]
  <2>1. Controlled(s, c, type, data) = Put(s, c, r)
    BY <1>9 DEF Controlled, Put
  <2>2. Mild(s.opl3, ch, r, type)
    BY <1>9 DEF Mild, Channel, Ranged, SameWheel
  <2> HIDE DEF r
  <2>3. QED BY <2>1, <2>2
<1>10. CASE type = "dataLsb"
  <2> DEFINE r == [ch EXCEPT !.lsb = IF SetsRange(ch) THEN data ELSE @]
  <2>1. Controlled(s, c, type, data) = Put(s, c, r)
    BY <1>10 DEF Controlled, Put
  <2>2. Mild(s.opl3, ch, r, type)
    BY <1>10 DEF Mild, Channel, Ranged, SameWheel
  <2> HIDE DEF r
  <2>3. QED BY <2>1, <2>2
<1>11. QED BY <1>1, <1>2, <1>3, <1>4, <1>5, <1>6, <1>7, <1>8, <1>9, <1>10 DEF PutControls

\* A controller of a channel does what it should, and no more.
LEMMA ControlDoes ==
    ASSUME NEW s, Well(s, {}), NEW c \in Channels, NEW type \in Controls, NEW data \in Nat
    PROVE  ControlDone(s, Controlled(s, c, type, data), c, type)
<1> DEFINE ch == s.channel[c]
           t == Controlled(s, c, type, data)
<1>1. DOMAIN ch = DOMAIN Channel(FALSE) /\ IsAl(s)
  BY DEF Well, IsAl
<1>2. CASE type \in PutControls
  <2>1. PICK r : Mild(s.opl3, ch, r, type) /\ t = Put(s, c, r)
    BY <1>1, <1>2, MildControls
  <2> HIDE DEF t
  <2>2. QED BY <2>1, MildDone DEF t
<1>3. CASE type = "volume"
  <2> DEFINE r == [ch EXCEPT !.volume = Clamped(data)]
  <2>1. t = ForVoices(Put(s, c, r), c, SetVoiceVolume)
    <3>1. t = SetChannelVolume(s, c, data)
      BY <1>3 DEF Controlled
    <3>2. [s EXCEPT !.channel[c].volume = Clamped(data)] = Put(s, c, r)
      BY <1>1 DEF IsAl, Put
    <3>3. QED BY <3>1, <3>2 DEF SetChannelVolume
  <2>2. /\ DOMAIN r = DOMAIN Channel(FALSE) /\ r.pan = ch.pan
        /\ Ranged(ch) => Ranged(r)
        /\ SameWheel(ch, r)
    BY <1>1 DEF Channel, Ranged, SameWheel
  <2> HIDE DEF r, t
  <2>3. QED BY <2>1, <2>2, LouderDone DEF t
<1>4. CASE type = "expression"
  <2> DEFINE r == [ch EXCEPT !.expression = Clamped(data)]
  <2>1. t = ForVoices(Put(s, c, r), c, SetVoiceVolume)
    <3>1. t = SetChannelExpression(s, c, data)
      BY <1>4 DEF Controlled
    <3>2. [s EXCEPT !.channel[c].expression = Clamped(data)] = Put(s, c, r)
      BY <1>1 DEF IsAl, Put
    <3>3. QED BY <3>1, <3>2 DEF SetChannelExpression
  <2>2. /\ DOMAIN r = DOMAIN Channel(FALSE) /\ r.pan = ch.pan
        /\ Ranged(ch) => Ranged(r)
        /\ SameWheel(ch, r)
    BY <1>1 DEF Channel, Ranged, SameWheel
  <2> HIDE DEF r, t
  <2>3. QED BY <2>1, <2>2, LouderDone DEF t
<1>5. CASE type = "pan"
  <2> DEFINE r == [ch EXCEPT !.pan = data]
             set == IF s.opl3 \/ c # Drums THEN [s EXCEPT !.channel[c].pan = data] ELSE s
  <2>1. t = IF s.opl3 THEN ForVoices(set, c, SetVoicePan) ELSE set
    <3>1. t = SetChannelPan(s, c, data)
      BY <1>5 DEF Controlled
    <3>2. QED BY <3>1 DEF SetChannelPan
  <2>2. set = IF s.opl3 \/ c # Drums THEN Put(s, c, r) ELSE s
    BY <1>1 DEF IsAl, Put
  <2>3. /\ DOMAIN r = DOMAIN Channel(FALSE) /\ r.volume = ch.volume
        /\ r.expression = ch.expression
        /\ Ranged(ch) => Ranged(r)
        /\ SameWheel(ch, r)
    BY <1>1 DEF Channel, Ranged, SameWheel
  <2> HIDE DEF r, t, set
  <2>4. CASE s.opl3
    <3>1. t = ForVoices(Put(s, c, r), c, SetVoicePan)
      BY <2>1, <2>2, <2>4
    <3>2. QED BY <2>3, <3>1, PannedDone DEF t
  <2>5. CASE ~s.opl3 /\ c # Drums
    <3>1. t = Put(s, c, r) /\ Mild(s.opl3, ch, r, type)
      BY <2>1, <2>2, <2>3, <2>5 DEF Mild
    <3>2. QED BY <3>1, MildDone DEF t
  <2>6. CASE ~s.opl3 /\ c = Drums
    <3>1. t = s
      BY <2>1, <2>2, <2>6
    <3>2. QED BY <3>1, FadesNot, FadesDone DEF t
  <2>7. QED BY <2>4, <2>5, <2>6
<1>6. CASE type = "pedal"
  <2>1. CASE data >= 64
    <3> DEFINE r == [ch EXCEPT !.pedal = TRUE]
    <3>1. t = Put(s, c, r)
      BY <1>6, <2>1 DEF Controlled, Put
    <3>2. Mild(s.opl3, ch, r, type)
      BY <1>1 DEF Mild, Channel, Ranged, SameWheel
    <3> HIDE DEF r, t
    <3>3. QED BY <3>1, <3>2, MildDone DEF t
  <2>2. CASE ~(data >= 64)
    <3> DEFINE r == [ch EXCEPT !.pedal = FALSE]
               a == Put(s, c, r)
    <3>1. t = KillSustained(a, c, "pedal")
      BY <1>6, <2>2 DEF Controlled, Put
    <3>2. Mild(s.opl3, ch, r, type)
      BY <1>1 DEF Mild, Channel, Ranged, SameWheel
    <3> HIDE DEF r, t
    <3>3. ControlDone(s, a, c, type)
      BY <3>2, MildDone
    <3> HIDE DEF a
    <3>4. Well(a, {})
      BY <3>3 DEF ControlDone
    <3>5. Well(t, {}) /\ Fades(a, t)
      BY <3>1, <3>4, KillsDo
    <3>6. ControlDone(a, t, c, type)
      BY <3>4, <3>5, FadesDone
    <3>7. QED BY <3>3, <3>6, DoneOn DEF t
  <2>3. QED BY <2>1, <2>2
<1>7. CASE type = "sostenuto"
  <2>1. CASE data >= 64
    <3>1. t = SetChannelSostenuto(s, c)
      BY <1>7, <2>1 DEF Controlled
    <3>2. QED BY <3>1, SostenutoDone
  <2>2. CASE ~(data >= 64)
    <3>1. t = KillSustained(s, c, "sostenuto")
      BY <1>7, <2>2 DEF Controlled
    <3> HIDE DEF t
    <3>2. Well(t, {}) /\ Fades(s, t)
      BY <3>1, KillsDo
    <3>3. QED BY <3>2, FadesDone DEF t
  <2>3. QED BY <2>1, <2>2
<1>8. CASE type = "reset"
  <2> DEFINE q == ResetControllers(ch)
             r == [q EXCEPT !.expression = Clamped(127)]
             a == Put(s, c, q)
  <2>1. t = SetChannelExpression(a, c, 127)
    BY <1>8 DEF Controlled, Put
  <2>2. /\ DOMAIN q = DOMAIN Channel(FALSE) /\ q.pan = ch.pan
        /\ q.program = ch.program /\ q.vibrato = 0 /\ q.aftertouch = 0
    BY <1>1 DEF ResetControllers, Channel
  <2>3. /\ DOMAIN r = DOMAIN Channel(FALSE) /\ r.pan = ch.pan
        /\ Ranged(ch) => Ranged(r)
    <3> HIDE DEF q
    <3>1. QED BY <2>2 DEF Channel, Ranged
  <2> HIDE DEF t, q
  <2>4. [a EXCEPT !.channel[c].expression = Clamped(127)] = Put(s, c, r)
    BY <1>1 DEF IsAl, Put
  <2>5. t = ForVoices(Put(s, c, r), c, SetVoiceVolume)
    BY <2>1, <2>4 DEF SetChannelExpression
  <2> HIDE DEF r, a
  <2>6. QED BY <1>8, <2>3, <2>5, LouderDone DEF t
<1>9. QED BY <1>2, <1>3, <1>4, <1>5, <1>6, <1>7, <1>8 DEF Controls, PutControls

-----------------------------------------------------------------------------
(* A new note, and the wheel.                                              *)

\* A timbre that a channel asks for.
LEMMA PatchIs ==
    ASSUME NEW ch, Ranged(ch), NEW key \in Nat
    PROVE  PatchOf(ch, key) # None /\ (PatchOf(ch, key) > 127 <=> ch.isDrum)
BY DEF PatchOf, Ranged, None

\* A voice that is struck is told all, and no other voice is touched.
LEMMA StruckAsked ==
    ASSUME NEW s, NEW v \in Voices, Well(s, {v}), Has(s.opl3, v), Asked(s),
           NEW c \in Channels, NEW key \in Nat, NEW t, StruckDone(s, t, v, c, key),
           Ranged(s.channel[c])
    PROVE  Asked(t)
<1>1. IsAl(s) /\ Placed(s, {v}) /\ s.opl3 \in BOOLEAN /\ IsAl(t) /\ Placed(t, {})
  BY DEF Well, IsAl, StruckDone
<1>2. /\ t.opl3 = s.opl3
      /\ \A u \in Voices \ {v} : t.voice[u] = s.voice[u]
      /\ \A y \in Cells : y # Cell(s.opl3, v) => t.chip[y] = s.chip[y]
      /\ SameSettings(s.channel[c], t.channel[c])
      /\ \A d \in Channels \ {c} : InList(t.lists, d) = InList(s.lists, d)
                                   /\ t.channel[d] = s.channel[d]
      /\ InList(t.lists, c) = InList(s.lists, c) \cup {v}
      /\ t.voice[v].channel = c /\ t.voice[v].timbre = PatchOf(t.channel[c], key)
      /\ Told(s, t, v, s.voice[v].timbre)
  BY DEF StruckDone
<1>3. \A u \in Voices \ {v} : Has(s.opl3, u) =>
         t.chip[Cell(s.opl3, u)] = s.chip[Cell(s.opl3, u)]
  BY <1>1, <1>2, CellApart, CellIn
<1>4. t.voice[v].timbre # None
  <2>1. Ranged(t.channel[c])
    BY <1>2 DEF SameSettings, Channel, Ranged
  <2>2. QED BY <1>2, <2>1, PatchIs
<1>5. Holds(t, v)
  <2> DEFINE timbre == t.voice[v].timbre
             x == Cell(s.opl3, v)
  <2>1. /\ t.chip[x].timbre = IF s.voice[v].timbre = timbre THEN s.chip[x].timbre ELSE timbre
        /\ t.chip[x].level[1] = IF bank[timbre].additive
                                THEN Loudness(t.channel[t.voice[v].channel], t.voice[v],
                                              bank[timbre], bank[timbre].level[1])
                                ELSE IF s.voice[v].timbre = timbre THEN s.chip[x].level[1]
                                ELSE bank[timbre].level[1]
    <3>1. Told(s, t, v, s.voice[v].timbre) /\ Cell(t.opl3, v) = x
      BY <1>2
    <3>2. QED BY <3>1 DEF Told
  <2>2. Holds(s, v)
    BY DEF Asked
  <2>3. x \notin astray /\ s.voice[v].timbre = timbre =>
           s.chip[x].timbre = timbre
           /\ (~bank[timbre].additive => s.chip[x].level[1] = bank[timbre].level[1])
    BY <1>4, <2>2 DEF Holds
  <2>4. x \notin astray => t.chip[x].timbre = timbre
        /\ (~bank[timbre].additive => t.chip[x].level[1] = bank[timbre].level[1])
    <3> HIDE DEF timbre, x
    <3>1. QED BY <2>1, <2>3
  <2>5. QED BY <1>2, <2>4 DEF Holds
<1>6. Heard(t, v)
  <2>1. Told(s, t, v, s.voice[v].timbre) /\ Cell(t.opl3, v) = Cell(s.opl3, v)
    BY <1>2
  <2>2. QED BY <1>2, <2>1 DEF Told, Heard
<1>7. ASSUME NEW u \in Voices, Has(t.opl3, u) PROVE Holds(t, u)
  <2>1. CASE u = v
    BY <1>5, <2>1
  <2>2. CASE u # v
    <3>1. Holds(s, u)
      BY <1>2, <1>7 DEF Asked
    <3>2. QED BY <1>2, <1>3, <1>7, <2>2, <3>1 DEF Holds
  <2>3. QED BY <2>1, <2>2
<1>8. ASSUME NEW u \in Playing(t) PROVE t.voice[u].timbre # None /\ Heard(t, u)
  <2>1. CASE u = v
    BY <1>4, <1>6, <2>1
  <2>2. CASE u # v
    <3>1. u \in Playing(s)
      BY <1>2, <1>8, <2>2, WhoPlays
    <3>2. u \in Voices /\ Has(s.opl3, u) /\ s.voice[u].channel \in Channels
      BY <1>1, <3>1, Listed
    <3>3. s.voice[u].timbre # None /\ Heard(s, u)
      BY <3>1 DEF Asked
    <3> DEFINE d == s.voice[u].channel
               ch == s.channel[d]
               th == t.channel[d]
               x == Cell(s.opl3, u)
               voice == s.voice[u]
               timbre == bank[voice.timbre]
    <3>4. th.volume = ch.volume /\ th.expression = ch.expression /\ th.pan = ch.pan
      <4>1. CASE d = c
        BY <1>2, <4>1 DEF SameSettings, Channel
      <4>2. CASE d # c
        BY <1>2, <3>2, <4>2
      <4>3. QED BY <4>1, <4>2
    <3>5. t.voice[u] = voice /\ t.chip[x] = s.chip[x]
      BY <1>2, <1>3, <2>2, <3>2
    <3>6. \A b, l : Loudness(th, voice, b, l) = Loudness(ch, voice, b, l)
      BY <3>4 DEF Loudness
    <3>7. x \notin astray =>
          /\ Reached(s, u) =>
                /\ s.chip[x].level[2] = Loudness(ch, voice, timbre, timbre.level[2])
                /\ timbre.additive
                      => s.chip[x].level[1] = Loudness(ch, voice, timbre, timbre.level[1])
          /\ s.opl3 => s.chip[x].pan = PannedTo(s.chip[x], ch.pan).pan
      BY <3>3 DEF Heard
    <3>8. x \notin astray =>
          /\ Reached(s, u) =>
                /\ s.chip[x].level[2] = Loudness(th, voice, timbre, timbre.level[2])
                /\ timbre.additive
                      => s.chip[x].level[1] = Loudness(th, voice, timbre, timbre.level[1])
          /\ s.opl3 => s.chip[x].pan = PannedTo(s.chip[x], th.pan).pan
      <4> HIDE DEF timbre, voice, th, ch, x
      <4>1. QED BY <3>4, <3>6, <3>7
    <3>9. Heard(t, u)
      BY <1>2, <3>5, <3>8 DEF Heard, Reached
    <3>10. QED BY <3>3, <3>5, <3>9
  <2>3. QED BY <2>1, <2>2
<1>9. QED BY <1>7, <1>8 DEF Asked

\* The wheel: the pitches of the voices of the channel, which end if their key is up.
BendDone(s, t, c) ==
    /\ Well(t, {}) /\ t.lists = s.lists /\ t.voice = s.voice /\ t.opl3 = s.opl3
    /\ \A d \in Channels : \A f \in DOMAIN Channel(FALSE) \ {"bend"} :
          t.channel[d][f] = s.channel[d][f]
    /\ \A d \in Channels \ {c} : t.channel[d] = s.channel[d]
    /\ \A v \in InList(s.lists, c) :
          LET cell == t.chip[Cell(s.opl3, v)]
          IN cell.on = s.voice[v].on /\ cell.pitch = PitchOf(t.channel[c], s.voice[v], bank)
    /\ \A v \in Playing(s) : v \notin InList(s.lists, c)
          => t.chip[Cell(s.opl3, v)] = s.chip[Cell(s.opl3, v)]
    /\ Asked(s) => Asked(t)

\* AL_SetPitchBend.
LEMMA BendDoes ==
    ASSUME NEW s, Well(s, {}), NEW c \in Channels, NEW bend
    PROVE  BendDone(s, ForVoices([s EXCEPT !.channel[c].bend = bend], c, SetVoicePitch), c)
<1> DEFINE r == [s.channel[c] EXCEPT !.bend = bend]
           a == Put(s, c, r)
           t == ForVoices(a, c, SetVoicePitch)
<1>1. IsAl(s) /\ Placed(s, {}) /\ Sounds(s)
  BY DEF Well
<1>2. [s EXCEPT !.channel[c].bend = bend] = a
  BY <1>1 DEF IsAl, Put
<1>3. DOMAIN r = DOMAIN Channel(FALSE)
      /\ \A f \in DOMAIN Channel(FALSE) \ {"bend"} : r[f] = s.channel[c][f]
  BY <1>1 DEF IsAl, Channel
<1> HIDE DEF r
<1>4. PutDone(s, a, c, r) /\ Well(a, {})
  BY <1>3, PutTurns
<1> HIDE DEF a
<1>5. IsAl(a) /\ Placed(a, {})
  BY <1>4 DEF Well
<1>6. AllSet(<<"pitch">>, a, c, t)
  BY <1>5, AllVoicesSet
<1> HIDE DEF t
<1>7. /\ a.lists = s.lists /\ a.voice = s.voice /\ a.opl3 = s.opl3 /\ a.chip = s.chip
      /\ a.channel[c] = r /\ \A d \in Channels \ {c} : a.channel[d] = s.channel[d]
  BY <1>4 DEF PutDone
<1>8. /\ IsAl(t) /\ t.lists = s.lists /\ t.voice = s.voice /\ t.opl3 = s.opl3
      /\ t.channel = a.channel
      /\ \A y \in Cells : (\A v \in InList(s.lists, c) : y # Cell(s.opl3, v))
                              => t.chip[y] = s.chip[y]
  BY <1>6, <1>7 DEF AllSet, SameMusic
<1>9. ASSUME NEW v \in InList(s.lists, c)
      PROVE  LET x == Cell(s.opl3, v) IN
             /\ t.chip[x].on = s.voice[v].on
             /\ t.chip[x].pitch = PitchOf(t.channel[c], s.voice[v], bank)
             /\ t.chip[x].timbre = s.chip[x].timbre /\ t.chip[x].level = s.chip[x].level
             /\ t.chip[x].pan = s.chip[x].pan
  <2>1. v \in Voices /\ s.voice[v].channel = c
    <3>1. v \in Voices
      BY <1>1, Listed, PoolApart
    <3>2. QED BY <1>1, <3>1 DEF Placed
  <2>2. t.chip[Cell(s.opl3, v)] = Step(<<"pitch">>, a, v).chip[Cell(s.opl3, v)]
    BY <1>6, <1>7 DEF AllSet
  <2>3. Step(<<"pitch">>, a, v) = SetVoicePitch(a, v)
    BY DEF Step
  <2>4. PitchDone(a, SetVoicePitch(a, v), v)
    BY <1>5, <2>1, PitchSet
  <2>5. QED BY <1>7, <1>8, <2>1, <2>2, <2>3, <2>4 DEF PitchDone
<1>10. ASSUME NEW y \in Cells, NEW f \in {"timbre", "level", "pan"}
       PROVE  t.chip[y][f] = s.chip[y][f]
  <2>1. CASE \E v \in InList(s.lists, c) : y = Cell(s.opl3, v)
    BY <1>9, <2>1
  <2>2. CASE \A v \in InList(s.lists, c) : y # Cell(s.opl3, v)
    <3>1. t.chip[y] = s.chip[y]
      BY <1>8, <2>2
    <3>2. QED BY <3>1
  <2>3. QED BY <2>1, <2>2
<1>11. \A d \in Channels : \A f \in DOMAIN Channel(FALSE) \ {"bend"} :
          t.channel[d][f] = s.channel[d][f]
  BY <1>3, <1>7, <1>8
<1>12. \A v : v \in Playing(t) <=> v \in Playing(s)
  BY <1>8, WhoPlays
<1>13. ASSUME NEW v \in Playing(s), v \notin InList(s.lists, c)
       PROVE  t.chip[Cell(s.opl3, v)] = s.chip[Cell(s.opl3, v)]
  <2>1. v \in Voices /\ Has(s.opl3, v) /\ s.opl3 \in BOOLEAN
    BY <1>1, Listed DEF IsAl
  <2>2. \A u \in InList(s.lists, c) : u \in Voices /\ Has(s.opl3, u) /\ u # v
    BY <1>1, <1>13, Listed, PoolApart
  <2>3. \A u \in InList(s.lists, c) : Cell(s.opl3, v) # Cell(s.opl3, u)
    BY <2>1, <2>2, CellApart
  <2>4. Cell(s.opl3, v) \in Cells
    BY <2>1, CellIn
  <2>5. QED BY <1>8, <2>3, <2>4
<1>14. Placed(t, {})
  BY <1>1, <1>8 DEF Placed
<1>15. Sounds(t)
  <2>1. ASSUME NEW v \in Playing(t), t.voice[v].on, Cell(t.opl3, v) \notin astray
        PROVE  t.chip[Cell(t.opl3, v)].on
    <3>1. v \in Playing(s) /\ s.voice[v].on
      BY <1>8, <1>12, <2>1
    <3>2. CASE v \in InList(s.lists, c)
      BY <1>8, <1>9, <3>1, <3>2
    <3>3. CASE v \notin InList(s.lists, c)
      BY <1>1, <1>8, <1>13, <2>1, <3>1, <3>3 DEF Sounds
    <3>4. QED BY <3>2, <3>3
  <2>2. ASSUME NEW y \in Cells, t.chip[y].on, y \notin astray
        PROVE  \E v \in Playing(t) : Cell(t.opl3, v) = y
    <3>1. CASE \E v \in InList(s.lists, c) : y = Cell(s.opl3, v)
      BY <1>8, <1>12, <3>1, WhoPlays
    <3>2. CASE \A v \in InList(s.lists, c) : y # Cell(s.opl3, v)
      <4>1. s.chip[y].on
        BY <1>8, <2>2, <3>2
      <4>2. QED BY <1>1, <1>8, <1>12, <2>2, <4>1 DEF Sounds
    <3>3. QED BY <3>1, <3>2
  <2>3. QED BY <2>1, <2>2 DEF Sounds
<1>16. Asked(s) => Asked(t)
  <2> SUFFICES ASSUME Asked(s) PROVE Asked(t)
    OBVIOUS
  <2>1. \A v \in Playing(t) : v \in Playing(s) /\ s.voice[v].channel \in Channels
    BY <1>1, <1>12, Listed
  <2>2. \A d \in Channels : \A f \in {"volume", "expression", "pan"} :
           t.channel[d][f] = s.channel[d][f]
    BY <1>11 DEF Channel
  <2>3. StillHeard(s, t)
    BY <1>8, <1>10, <2>1, <2>2 DEF StillHeard
  <2>4. QED BY <1>1, <1>8, <1>14, <2>3, HeardStill DEF IsAl
<1>17. BendDone(s, t, c)
  <2>1. \A v \in InList(s.lists, c) :
           LET cell == t.chip[Cell(s.opl3, v)]
           IN cell.on = s.voice[v].on /\ cell.pitch = PitchOf(t.channel[c], s.voice[v], bank)
    BY <1>9
  <2>2. \A d \in Channels \ {c} : t.channel[d] = s.channel[d]
    BY <1>7, <1>8
  <2>3. QED BY <1>8, <1>11, <1>13, <1>14, <1>15, <1>16, <2>1, <2>2 DEF BendDone, Well
<1>18. QED BY <1>2, <1>17 DEF t

\* A voice that has just been told its pitch is in tune, if nothing untunes it.
LEMMA ToldInTune ==
    ASSUME NEW s, NEW v, Ranged(s.channel[s.voice[v].channel]), s.voice[v].key \in Nat,
           ~Wavers(s.channel[s.voice[v].channel]), ~s.voice[v].glides,
           PatchOf(s.channel[s.voice[v].channel], s.voice[v].key) = s.voice[v].timbre,
           s.chip[Cell(s.opl3, v)].pitch
              = PitchOf(s.channel[s.voice[v].channel], s.voice[v], bank)
    PROVE  InTune(s, v)
<1> DEFINE voice == s.voice[v]
           ch == s.channel[voice.channel]
<1>1. ch.vibrato = 0 /\ ch.aftertouch = 0
  <2>1. Ranged(ch) /\ ~Wavers(ch)
    OBVIOUS
  <2> HIDE DEF ch, voice
  <2>2. ch.vibrato \in Nat /\ ch.aftertouch \in Nat
    BY <2>1 DEF Ranged
  <2>3. ~(ch.vibrato > 0) /\ ~(ch.aftertouch > 0)
    BY <2>1 DEF Wavers
  <2>4. QED BY <2>2, <2>3
<1>2. voice.timbre > 127 <=> ch.isDrum
  BY PatchIs
<1>3. QED BY <1>1, <1>2 DEF InTune, PitchOf

\* A voice that played is as well in tune, and sounds as well, as it did.
Remains(s, t, v) ==
    /\ v \in Playing(s)
    /\ InTune(s, v) => InTune(t, v)
    /\ s.chip[Cell(s.opl3, v)].on => t.chip[Cell(t.opl3, v)].on

\* A voice remains as it was where nothing of it is changed, ...
LEMMA RemainsSo ==
    ASSUME NEW s, NEW t, NEW v \in Playing(s), t.opl3 = s.opl3,
           t.voice[v].channel = s.voice[v].channel, t.voice[v].key = s.voice[v].key,
           t.voice[v].timbre = s.voice[v].timbre,
           t.chip[Cell(s.opl3, v)].pitch = s.chip[Cell(s.opl3, v)].pitch,
           t.chip[Cell(s.opl3, v)].on = s.chip[Cell(s.opl3, v)].on,
           SameWheel(s.channel[s.voice[v].channel], t.channel[s.voice[v].channel])
    PROVE  Remains(s, t, v)
<1>1. BendMult(t.channel[s.voice[v].channel]) = BendMult(s.channel[s.voice[v].channel])
  BY DEF SameWheel, BendMult
<1>2. QED BY <1>1 DEF Remains, InTune, SameWheel

\* The numbers of the voices and of the channels come from bytes.
Ranges(s) ==
    /\ \A c \in Channels : Ranged(s.channel[c])
    /\ \A v \in Playing(s) : s.voice[v].key \in Nat

\* ... as where voices fade.
LEMMA FadesRemains ==
    ASSUME NEW s, NEW t, NEW L, Fades(s, t), Placed(t, L), NEW v \in Playing(t)
    PROVE  Remains(s, t, v)
<1>1. v \in Playing(s) /\ t.opl3 = s.opl3
  BY WhoPlays DEF Fades
<1>2. SameNote(s.voice[v], t.voice[v])
  BY DEF Fades
<1>3. /\ t.voice[v].channel = s.voice[v].channel /\ t.voice[v].key = s.voice[v].key
      /\ t.voice[v].timbre = s.voice[v].timbre
  BY <1>2 DEF SameNote, Fresh
<1>4. s.voice[v].channel \in Channels
  BY <1>3, Listed
<1>5. SameWheel(s.channel[s.voice[v].channel], t.channel[s.voice[v].channel])
  BY <1>4 DEF Fades, SameChannel, SameWheel, Channel
<1>6. t.chip[Cell(s.opl3, v)] = s.chip[Cell(s.opl3, v)]
  BY DEF Fades
<1>7. QED BY <1>1, <1>3, <1>5, <1>6, RemainsSo

\* The ranges remain where voices fade.
LEMMA FadesRanges ==
    ASSUME NEW s, NEW t, Fades(s, t), Ranges(s)
    PROVE  Ranges(t)
<1>1. \A c \in Channels : Ranged(t.channel[c])
  BY DEF Ranges, Fades, SameChannel, Ranged, Channel
<1>2. \A v \in Playing(t) : v \in Playing(s) /\ t.voice[v].key = s.voice[v].key
  BY WhoPlays DEF Fades, SameNote, Fresh
<1>3. QED BY <1>1, <1>2 DEF Ranges

\* What AL_NoteOn does: it frees voices, and it strikes one of them or none.
StruckFrom(s, t, c, key) ==
    \/ Well(t, {}) /\ Fades(s, t)
    \/ \E v \in Voices : \E r : /\ Well(r, {v}) /\ Has(r.opl3, v) /\ Fades(s, r)
                                /\ StruckDone(r, t, v, c, key)

\* AL_NoteOn.
LEMMA NoteOnDoes ==
    ASSUME Well(al, {}), NEW c \in Channels, NEW key, NEW velocity, NoteOn(c, key, velocity)
    PROVE  StruckFrom(al, al', c, key)
<1> DEFINE drums == IF Drums \in Channels THEN VoicesOf(al, Drums) ELSE <<>>
           first == IF mode THEN AllocVoiceByTimbre(al, PatchOf(al.channel[c], key))
                    ELSE AllocVoice(al)
           off == NoteOff(al, Drums, al.voice[Head(drums)].key, al.channel[Drums].pedal)
           found == IF first.voice = None /\ drums # <<>> THEN AllocVoice(off) ELSE first
<1>1. al' = IF found.voice = None THEN found.to
            ELSE Struck(found.to, found.voice, c, key, velocity)
  BY DEF NoteOn
<1>2. Found(al, first)
  BY AllocDoes, AllocByTimbreDoes
<1> HIDE DEF first
<1>3. \E s : Well(s, {}) /\ Fades(al, s) /\ Found(s, found)
  <2>1. CASE first.voice = None /\ drums # <<>>
    <3>1. Drums \in Channels
      BY <2>1
    <3> HIDE DEF drums
    <3>2. Well(off, {}) /\ Fades(al, off)
      BY <3>1, NoteOffDoes
    <3> HIDE DEF off
    <3>3. Found(off, AllocVoice(off))
      BY <3>2, AllocDoes
    <3>4. found = AllocVoice(off)
      BY <2>1
    <3> HIDE DEF found
    <3>5. QED BY <3>2, <3>3, <3>4
  <2>2. CASE ~(first.voice = None /\ drums # <<>>)
    <3>1. found = first
      BY <2>2
    <3> HIDE DEF found
    <3>2. QED BY <1>2, <3>1, FadesNot
  <2>3. QED BY <2>1, <2>2
<1> HIDE DEF found
<1>4. PICK s : Well(s, {}) /\ Fades(al, s) /\ Found(s, found)
  BY <1>3
<1>5. CASE found.voice = None
  <2>1. found.to = s
    BY <1>4, <1>5 DEF Found, Voices, None
  <2>2. al' = s
    BY <1>1, <1>5, <2>1
  <2>3. QED BY <1>4, <2>2 DEF StruckFrom
<1>6. CASE found.voice # None
  <2> DEFINE v == found.voice
             r == found.to
  <2>1. v \in Voices /\ Has(s.opl3, v) /\ Well(r, {v}) /\ Fades(s, r)
    BY <1>4, <1>6 DEF Found
  <2>2. al' = Struck(r, v, c, key, velocity)
    BY <1>1, <1>6
  <2> HIDE DEF v, r
  <2>3. Fades(al, r) /\ Has(r.opl3, v)
    BY <1>4, <2>1, FadesOn DEF Fades
  <2>4. StruckDone(r, al', v, c, key)
    BY <2>1, <2>2, <2>3, StruckDoes
  <2>5. QED BY <2>1, <2>3, <2>4 DEF StruckFrom
<1>7. QED BY <1>5, <1>6

\* ... and what becomes of the voices.
StruckSo(s, t, c, key) ==
    /\ Well(t, {}) /\ Ranges(t) /\ Asked(t) /\ t.opl3 = s.opl3
    /\ \A d \in Channels : \A k :
          <<d, k>> # <<c, key>> => Pressed(t, d, k) \subseteq Pressed(s, d, k)
    /\ \E v : Pressed(t, c, key) \subseteq Pressed(s, c, key) \cup {v}
    /\ \A v \in Playing(t) :
          \/ Remains(s, t, v)
          \/ /\ t.chip[Cell(t.opl3, v)].on
             /\ \/ InTune(t, v) \/ t.voice[v].glides
                \/ Wavers(t.channel[t.voice[v].channel])

\* What AL_NoteOn does to the keys, the chip, and the voices.
LEMMA StruckAll ==
    ASSUME NEW s, NEW t, NEW c \in Channels, NEW key \in Nat, Well(s, {}), Ranges(s), Asked(s),
           StruckFrom(s, t, c, key)
    PROVE  StruckSo(s, t, c, key)
<1>0. IsAl(s) /\ Placed(s, {}) /\ s.opl3 \in BOOLEAN
  BY DEF Well, IsAl
<1>1. CASE Well(t, {}) /\ Fades(s, t)
  <2>1. Asked(t)
    BY <1>0, <1>1, FadesHeard, HeardStill DEF Well
  <2>2. Ranges(t)
    BY <1>1, FadesRanges
  <2>3. \A d \in Channels : \A k : Pressed(t, d, k) \subseteq Pressed(s, d, k)
    BY <1>1, FadesPressed
  <2>4. Pressed(t, c, key) \subseteq Pressed(s, c, key) \cup {None}
    BY <2>3
  <2>5. \A v \in Playing(t) : Remains(s, t, v)
    BY <1>1, FadesRemains DEF Well
  <2>6. t.opl3 = s.opl3
    BY <1>1 DEF Fades
  <2>7. QED BY <1>1, <2>1, <2>2, <2>3, <2>4, <2>5, <2>6 DEF StruckSo
<1>2. ASSUME NEW v \in Voices, NEW r, Well(r, {v}), Has(r.opl3, v), Fades(s, r),
             StruckDone(r, t, v, c, key)
      PROVE  StruckSo(s, t, c, key)
  <2>1. IsAl(r) /\ Placed(r, {v}) /\ r.opl3 \in BOOLEAN /\ Well(t, {}) /\ Placed(t, {})
    BY <1>2 DEF Well, IsAl, StruckDone
  <2>2. Asked(r) /\ Ranges(r)
    BY <1>0, <1>2, <2>1, FadesHeard, HeardStill, FadesRanges
  <2>3. Ranged(r.channel[c])
    BY <2>2 DEF Ranges
  <2>4. Asked(t)
    BY <1>2, <2>2, <2>3, StruckAsked
  <2>5. /\ t.opl3 = r.opl3
        /\ \A u \in Voices \ {v} : t.voice[u] = r.voice[u]
        /\ \A y \in Cells : y # Cell(r.opl3, v) => t.chip[y] = r.chip[y]
        /\ SameSettings(r.channel[c], t.channel[c])
        /\ \A d \in Channels \ {c} : InList(t.lists, d) = InList(r.lists, d)
                                     /\ t.channel[d] = r.channel[d]
        /\ InList(t.lists, c) = InList(r.lists, c) \cup {v}
        /\ t.voice[v].channel = c /\ t.voice[v].key = key
        /\ t.voice[v].timbre = PatchOf(t.channel[c], key)
        /\ Told(r, t, v, r.voice[v].timbre)
    BY <1>2 DEF StruckDone
  <2>6. \A d \in Channels : /\ Ranged(t.channel[d]) /\ SameWheel(r.channel[d], t.channel[d])
    <3>1. ASSUME NEW d \in Channels
          PROVE  Ranged(t.channel[d]) /\ SameWheel(r.channel[d], t.channel[d])
      <4>1. CASE d = c
        BY <2>3, <2>5, <4>1 DEF SameSettings, Channel, Ranged, SameWheel
      <4>2. CASE d # c
        BY <2>2, <2>5, <4>2 DEF Ranges, SameWheel
      <4>3. QED BY <4>1, <4>2
    <3>2. QED BY <3>1
  <2>7. ASSUME NEW u \in Playing(t), u # v
        PROVE  /\ u \in Playing(r) /\ u \in Voices \ {v} /\ Has(r.opl3, u)
               /\ r.voice[u].channel \in Channels
    <3>1. u \in Playing(r)
      BY <2>5, <2>7, WhoPlays
    <3>2. QED BY <2>1, <2>7, <3>1, Listed
  <2>8. Ranges(t)
    BY <2>2, <2>5, <2>6, <2>7 DEF Ranges
  <2>9. ASSUME NEW d \in Channels, NEW k
        PROVE  /\ <<d, k>> # <<c, key>> => Pressed(t, d, k) \subseteq Pressed(s, d, k)
               /\ Pressed(t, d, k) \subseteq Pressed(s, d, k) \cup {v}
    <3>1. Pressed(r, d, k) \subseteq Pressed(s, d, k)
      BY <1>2, FadesPressed
    <3>2. ASSUME NEW u \in Pressed(t, d, k)
          PROVE  u \in Pressed(r, d, k) \/ (u = v /\ d = c /\ k = key)
      <4>1. u \in InList(t.lists, d) /\ t.voice[u].key = k /\ t.voice[u].on
        BY <3>2 DEF Pressed, VoicesOf, InList
      <4>2. CASE u = v
        <5>1. d = c
          BY <2>1, <2>5, <4>1, <4>2 DEF Placed
        <5>2. QED BY <2>5, <4>1, <4>2, <5>1
      <4>3. CASE u # v
        <5>1. u \in InList(r.lists, d)
          BY <2>5, <4>1, <4>3
        <5>2. u \in Voices
          BY <2>1, <4>1, Listed, PoolApart
        <5>3. r.voice[u] = t.voice[u]
          BY <2>5, <4>3, <5>2
        <5>4. u \in InList(r.lists, d) /\ r.voice[u].key = k /\ r.voice[u].on
          BY <4>1, <5>1, <5>3
        <5>5. u \in Pressed(r, d, k)
          BY <5>4 DEF Pressed, VoicesOf, InList
        <5>6. QED BY <5>5
      <4>4. QED BY <4>2, <4>3
    <3>3. QED BY <3>1, <3>2
  <2>10. ASSUME NEW u \in Playing(t)
         PROVE  \/ Remains(s, t, u)
                \/ /\ t.chip[Cell(t.opl3, u)].on
                   /\ \/ InTune(t, u) \/ t.voice[u].glides
                      \/ Wavers(t.channel[t.voice[u].channel])
    <3>1. CASE u = v
      <4>1. t.chip[Cell(r.opl3, v)].on
            /\ t.chip[Cell(r.opl3, v)].pitch = PitchOf(t.channel[c], t.voice[v], bank)
        BY <2>5 DEF Told
      <4>2. Ranged(t.channel[c])
        BY <2>6
      <4>3. InTune(t, v) \/ t.voice[v].glides \/ Wavers(t.channel[c])
        BY <2>5, <4>1, <4>2, ToldInTune
      <4>4. QED BY <2>5, <3>1, <4>1, <4>3
    <3>2. CASE u # v
      <4>1. u \in Playing(r) /\ u \in Voices \ {v} /\ Has(r.opl3, u)
            /\ r.voice[u].channel \in Channels
        BY <2>7, <2>10, <3>2
      <4>2. Cell(r.opl3, u) \in Cells /\ Cell(r.opl3, u) # Cell(r.opl3, v)
        BY <1>2, <2>1, <4>1, CellIn, CellApart
      <4>3. t.chip[Cell(r.opl3, u)] = r.chip[Cell(r.opl3, u)] /\ t.voice[u] = r.voice[u]
        BY <2>5, <4>1, <4>2
      <4>4. SameWheel(r.channel[r.voice[u].channel], t.channel[r.voice[u].channel])
        BY <2>6, <4>1
      <4>5. Remains(r, t, u)
        BY <2>5, <4>1, <4>3, <4>4, RemainsSo
      <4>6. Remains(s, r, u)
        BY <1>2, <2>1, <4>1, FadesRemains
      <4>7. QED BY <4>5, <4>6 DEF Remains
    <3>3. QED BY <3>1, <3>2
  <2>11. t.opl3 = s.opl3
    BY <1>2, <2>5 DEF Fades
  <2>12. QED BY <2>1, <2>4, <2>8, <2>9, <2>10, <2>11 DEF StruckSo
<1>3. QED BY <1>1, <1>2 DEF StruckFrom

-----------------------------------------------------------------------------
(* The invariant of the music on the FM chip.                              *)

\* Most of what happens presses no key.
Goes(s, t) ==
    /\ Well(t, {}) /\ Ranges(t) /\ Asked(t) /\ t.opl3 = s.opl3
    /\ \A c \in Channels : \A key : Pressed(t, c, key) \subseteq Pressed(s, c, key)

\* ... as where voices fade, ...
LEMMA FadesGo ==
    ASSUME NEW s, Well(s, {}), Ranges(s), Asked(s), NEW t, Well(t, {}), Fades(s, t)
    PROVE  Goes(s, t)
<1>1. Asked(t)
  BY FadesHeard, HeardStill DEF Well, IsAl
<1>2. Ranges(t)
  BY FadesRanges
<1>3. \A c \in Channels : \A key : Pressed(t, c, key) \subseteq Pressed(s, c, key)
  BY FadesPressed
<1>4. t.opl3 = s.opl3
  BY DEF Fades
<1>5. QED BY <1>1, <1>2, <1>3, <1>4 DEF Goes

\* ... as where it plays what played, with the same keys.
LEMMA NonePressed ==
    ASSUME NEW s, NEW t, NEW c \in Channels, NEW key,
           InList(t.lists, c) \subseteq InList(s.lists, c),
           \A v \in InList(t.lists, c) : /\ t.voice[v].key = s.voice[v].key
                                         /\ t.voice[v].on => s.voice[v].on
    PROVE  Pressed(t, c, key) \subseteq Pressed(s, c, key)
<1>1. ASSUME NEW v \in Pressed(t, c, key) PROVE v \in Pressed(s, c, key)
  <2>1. v \in InList(t.lists, c) /\ t.voice[v].key = key /\ t.voice[v].on
    BY <1>1 DEF Pressed, VoicesOf, InList
  <2>2. v \in InList(s.lists, c) /\ s.voice[v].key = key /\ s.voice[v].on
    BY <2>1
  <2>3. QED BY <2>2 DEF Pressed, VoicesOf, InList
<1>2. QED BY <1>1

\* ... where a controller changes, ...
LEMMA ControlGoes ==
    ASSUME NEW s, Well(s, {}), Ranges(s), Asked(s), NEW t, NEW c \in Channels, NEW type,
           ControlDone(s, t, c, type)
    PROVE  Goes(s, t)
<1>1. Well(t, {}) /\ Turns(s, t, c) /\ Asked(t) /\ Ranged(t.channel[c])
  BY DEF ControlDone, Ranges
<1>2. \A v \in Playing(t) : v \in Playing(s) /\ t.voice[v].key = s.voice[v].key
                            /\ (t.voice[v].on => s.voice[v].on)
  BY <1>1, WhoPlays DEF Turns, SameNote, Fresh
<1>3. Ranges(t)
  <2>1. \A d \in Channels \ {c} : Ranged(t.channel[d])
    BY <1>1 DEF Ranges, Turns, SameChannel, Ranged, Channel
  <2>2. QED BY <1>1, <1>2, <2>1 DEF Ranges
<1>4. ASSUME NEW d \in Channels, NEW key PROVE Pressed(t, d, key) \subseteq Pressed(s, d, key)
  <2>1. \A v \in InList(t.lists, d) : v \in Playing(t)
    BY WhoPlays
  <2>2. InList(t.lists, d) \subseteq InList(s.lists, d)
    BY <1>1 DEF Turns
  <2>3. QED BY <1>2, <2>1, <2>2, NonePressed
<1>5. t.opl3 = s.opl3
  BY <1>1 DEF Turns
<1>6. QED BY <1>1, <1>3, <1>4, <1>5 DEF Goes

\* ... where time passes, ...
LEMMA DriftsGo ==
    ASSUME NEW s, Well(s, {}), Ranges(s), Asked(s), NEW t, Well(t, {}), Drifts(s, t)
    PROVE  Goes(s, t)
<1>1. Asked(t)
  BY DriftsHeard, HeardStill DEF Well, IsAl
<1>2. \A v \in Playing(t) : v \in Playing(s) /\ v \in Voices
  BY DriftsPlays, Listed DEF Well
<1>3. Ranges(t)
  <2>1. \A d \in Channels : Ranged(t.channel[d])
    BY DEF Ranges, Drifts, Ranged, Channel
  <2>2. QED BY <1>2, <2>1, DriftsPlays DEF Ranges
<1>4. ASSUME NEW d \in Channels, NEW key PROVE Pressed(t, d, key) \subseteq Pressed(s, d, key)
  <2>1. \A v \in InList(t.lists, d) : v \in Voices
    BY Listed, PoolApart DEF Well
  <2>2. t.lists = s.lists
    BY DEF Drifts
  <2>3. QED BY <2>1, <2>2, DriftsPlays, NonePressed
<1>5. t.opl3 = s.opl3
  BY DEF Drifts
<1>6. QED BY <1>1, <1>3, <1>4, <1>5 DEF Goes

\* ... and where the wheel turns.
LEMMA BendGoes ==
    ASSUME NEW s, Well(s, {}), Ranges(s), Asked(s), NEW t, NEW c \in Channels,
           BendDone(s, t, c)
    PROVE  Goes(s, t)
<1>1. /\ Well(t, {}) /\ Asked(t) /\ t.lists = s.lists /\ t.voice = s.voice
      /\ t.opl3 = s.opl3
      /\ \A d \in Channels : \A f \in DOMAIN Channel(FALSE) \ {"bend"} :
            t.channel[d][f] = s.channel[d][f]
  BY DEF BendDone
<1>2. Ranges(t)
  <2>1. \A d \in Channels : Ranged(t.channel[d])
    BY <1>1 DEF Ranges, Ranged, Channel
  <2>2. QED BY <1>1, <2>1, WhoPlays DEF Ranges
<1>3. \A d \in Channels : \A key : Pressed(t, d, key) \subseteq Pressed(s, d, key)
  BY <1>1, NonePressed
<1>4. QED BY <1>1, <1>2, <1>3 DEF Goes

\* AL_ResetVoices.
LEMMA ResetGoes ==
    ASSUME NEW opl3 \in BOOLEAN, NEW voice, NEW chip, DOMAIN chip = Cells,
           \A x \in Cells : DOMAIN chip[x] = DOMAIN Flushed /\ chip[x].on \in BOOLEAN
                            /\ (x \notin astray => ~chip[x].on)
    PROVE  LET t == ResetVoices(opl3, voice, chip)
           IN /\ Well(t, {}) /\ Ranges(t) /\ Asked(t) /\ Playing(t) = {}
              /\ \A c \in Channels : \A key : Pressed(t, c, key) = {}
<1> DEFINE t == ResetVoices(opl3, voice, chip)
<1>1. /\ Well(t, {}) /\ Playing(t) = {}
      /\ \A v \in Voices : t.voice[v].timbre = None
      /\ \A c \in Channels : InList(t.lists, c) = {} /\ t.channel[c] = Channel(c = Drums)
  BY ResetDoes
<1> HIDE DEF t
<1>2. Asked(t)
  BY <1>1 DEF Asked, Holds
<1>3. Ranges(t)
  <2>1. \A b \in BOOLEAN : Ranged(Channel(b))
    BY DEF Ranged, Channel
  <2>2. \A c \in Channels : Ranged(t.channel[c])
    BY <1>1, <2>1
  <2>3. QED BY <1>1, <2>2 DEF Ranges
<1>4. \A c \in Channels : \A key : Pressed(t, c, key) = {}
  BY <1>1 DEF Pressed, VoicesOf, InList
<1>5. QED BY <1>1, <1>2, <1>3, <1>4 DEF t

\* The step of AL_AllNotesOff frees the first voice of the channel.
LEMMA EndingDoes ==
    ASSUME Well(al, {}), AllNotesOffStep, al' # al
    PROVE  Well(al', {}) /\ Fades(al, al')
<1> DEFINE c == ending
           voices == VoicesOf(al, c)
           v == Head(voices)
           r == [al.voice[v] EXCEPT !.sustain = {}]
           a == [al EXCEPT !.voice[v] = r]
<1>1. /\ c \in Channels /\ voices # <<>>
      /\ al' = NoteOff([al EXCEPT !.voice[v].sustain = {}], c, al.voice[v].key, FALSE)
  BY DEF AllNotesOffStep
<1>2. IsAl(al) /\ Placed(al, {}) /\ Kept(al.lists) /\ c \in K
  BY <1>1, PoolApart DEF Well, Placed
<1>3. v \in InList(al.lists, c)
  BY <1>1, <1>2, ListSeq DEF VoicesOf
<1>4. v \in Voices
  BY <1>2, <1>3, Listed
<1> HIDE DEF v
<1>5. [al EXCEPT !.voice[v].sustain = {}] = a
  BY <1>2, <1>4 DEF IsAl, Fresh
<1>6. /\ DOMAIN r = DOMAIN Fresh /\ r.on = al.voice[v].on /\ SameNote(al.voice[v], r)
      /\ r.on \in BOOLEAN
  BY <1>2, <1>4 DEF IsAl, Fresh, SameNote
<1> HIDE DEF r
<1>7. Well(a, {}) /\ Fades(al, a)
  BY <1>4, <1>6, ReleaseDoes
<1> HIDE DEF a, c
<1>8. Well(al', {}) /\ Fades(a, al')
  BY <1>1, <1>5, <1>7, NoteOffDoes
<1>9. QED BY <1>7, <1>8, FadesOn

\* AL_Shutdown and AL_Init find the chip silent.
LEMMA ShutSilent ==
    ASSUME NEW s, Well(s, {}), Playing(s) = {}, NEW opl3 \in BOOLEAN
    PROVE  LET chip == Reset(s.chip, opl3)
           IN /\ DOMAIN chip = Cells
              /\ \A x \in Cells : /\ DOMAIN chip[x] = DOMAIN Flushed /\ chip[x].on \in BOOLEAN
                                  /\ chip[x].on => x \in astray \cap Unflushed(opl3)
<1>1. \A x \in Cells : /\ DOMAIN s.chip[x] = DOMAIN Flushed /\ s.chip[x].on \in BOOLEAN
                       /\ x \notin astray => ~s.chip[x].on
  BY DEF Well, IsAl, Sounds
<1>2. Flushed.on = FALSE
  BY DEF Flushed
<1>3. QED BY <1>1, <1>2 DEF Reset

\* The volume call of the program has come to a voice of the card, if it runs.
CallIs ==
    /\ DOMAIN call = DOMAIN NoCall /\ call.slot \in 0..2 /\ call.left \subseteq Voices
    /\ call.additive \in BOOLEAN /\ call.stale \in BOOLEAN /\ call.torn \in BOOLEAN
    /\ IF call.voice = None THEN call = NoCall
       ELSE call.voice \in Voices /\ Has(al.opl3, call.voice)
    /\ call.stale => call.slot # 0 /\ call.left = {}
    /\ call.slot = 1 => call.additive

\* What it has left is the rest of the list it walks.
WalkLeft ==
    call.left # {} =>
       \E n, c : /\ Rows(al.lists, n, c)
                 /\ \E k \in K : \E i \in 1..n[k] :
                       call.voice = c[k][i] /\ call.left = {c[k][j] : j \in i..n[k]}

\* Where no message has come, what it has read of the voice is so, and so is what it has
\* written.
Underway ==
    LET v == call.voice
        voice == al.voice[v]
        timbre == bank[voice.timbre]
        x == Cell(al.opl3, v)
    IN call.slot # 0 /\ ~call.stale /\ v \in Playing(al) =>
          /\ call.additive = timbre.additive
          /\ call.slot = 1 /\ x \notin astray
                => al.chip[x].level[2] = Loudness(al.channel[voice.channel], voice, timbre,
                                                  timbre.level[2])

Calls == CallIs /\ WalkLeft /\ Underway

\* The invariant.
AlInv ==
    /\ piece \in Pieces
    /\ Well(al, {}) /\ Ranges(al) /\ Asked(al) /\ Calls
    /\ held \in [Notes -> Nat]
    /\ \A n \in Notes : Cardinality(Pressed(al, n[1], n[2])) <= held[n]

\* A message hides from the call what it has read, and what it may miss.
LEMMA Disturbed ==
    ASSUME Calls, Interrupted, al'.opl3 = al.opl3, bank' = bank, Well(al', {}), Asked(al')
    PROVE  Well(al, {})' /\ Asked(al)' /\ Calls'
<1>1. /\ astray' = astray /\ call' = IF call.slot = 0 THEN [call EXCEPT !.left = {}]
                           ELSE [call EXCEPT !.stale = TRUE, !.torn = TRUE, !.left = {}]
      /\ late' = late \cup {Cell(al.opl3, v) : v \in (call.left \cup {call.voice}) \ {None}}
  BY DEF Interrupted
<1>2. /\ DOMAIN call = {"voice", "slot", "additive", "stale", "torn", "left"}
      /\ call.stale \in BOOLEAN /\ call.slot \in 0..2 /\ call.left \subseteq Voices
  BY DEF Calls, CallIs, NoCall
<1>3. /\ DOMAIN call' = DOMAIN call /\ call'.voice = call.voice /\ call'.slot = call.slot
      /\ call'.additive = call.additive /\ call'.left = {}
      /\ call'.stale = IF call.slot = 0 THEN call.stale ELSE TRUE
      /\ call'.torn = IF call.slot = 0 THEN call.torn ELSE TRUE
  BY <1>1, <1>2
<1>4. Calls'
  <2>1. call = NoCall => call' = NoCall
    <3>1. NoCall.left = {} /\ NoCall.slot = 0
      BY DEF NoCall
    <3>2. [NoCall EXCEPT !.left = NoCall.left] = NoCall
      BY Zenon DEF NoCall
    <3>3. QED BY <1>1, <3>1, <3>2
  <2>2. CallIs'
    BY <1>2, <1>3, <2>1 DEF Calls, CallIs
  <2>3. WalkLeft' /\ Underway'
    BY <1>2, <1>3 DEF WalkLeft, Underway
  <2>4. QED BY <2>2, <2>3 DEF Calls
<1>5. Well(al, {})'
  BY <1>1 DEF Well, Sounds
<1>6. ASSUME NEW v \in Voices, Reached(al, v)'
      PROVE  Reached(al', v)
  <2>1. Cell(al'.opl3, v) \notin late'
    BY <1>6 DEF Reached
  <2>2. v # None
    BY DEF Voices, None
  <2>3. v \notin call.left /\ Cell(al'.opl3, v) \notin late
    BY <1>1, <2>1, <2>2
  <2>4. QED BY <2>3 DEF Reached
<1>7. Asked(al)'
  <2>1. \A v \in Voices : Has(al'.opl3, v) => Holds(al, v)'
    BY <1>1 DEF Asked, Holds
  <2>2. ASSUME NEW v \in Playing(al') PROVE al'.voice[v].timbre # None /\ Heard(al, v)'
    <3>1. v \in Voices /\ Heard(al', v) /\ al'.voice[v].timbre # None
      BY <2>2, Listed DEF Asked, Well
    <3>2. Heard(al, v)'
      BY <1>1, <1>6, <3>1 DEF Heard
    <3>3. QED BY <3>1, <3>2
  <2>3. QED BY <2>1, <2>2 DEF Asked
<1>8. QED BY <1>4, <1>5, <1>7

\* An event is one of the song, on one of its channels.
LEMMA EventIs ==
    ASSUME piece \in Pieces, NEW e \in piece.events
    PROVE  /\ e[2] \in Channels /\ (e[1] = "note" => <<e[2], e[3]>> \in Notes)
           /\ e[1] = "program" => e[3] \in 0..127
           /\ e[1] \in Controls \cup {"note", "touch"} => e[3] \in Nat
<1>1. e \in Events
  BY DEF Events
<1>2. e[2] \in Channels
  BY <1>1 DEF Channels
<1>3. e[1] = "note" => <<e[2], e[3]>> \in Notes
  BY <1>1 DEF Notes
<1>4. QED BY <1>1, <1>2, <1>3, AlAssumption

\* The keys that are down are some of the voices.
LEMMA PressedFew ==
    ASSUME NEW s, Well(s, {}), NEW c \in Channels, NEW key
    PROVE  IsFiniteSet(Pressed(s, c, key)) /\ Cardinality(Pressed(s, c, key)) \in Nat
<1>1. Pressed(s, c, key) \subseteq Voices
  <2>1. \A v \in InList(s.lists, c) : v \in Voices
    BY Listed, PoolApart DEF Well
  <2>2. QED BY <2>1 DEF Pressed, VoicesOf, InList
<1>2. IsFiniteSet(Voices)
  BY VoicesCounted
<1>3. IsFiniteSet(Pressed(s, c, key))
  BY <1>1, <1>2, FS_Subset
<1>4. QED BY <1>3, FS_CardinalityType

\* As long as no key goes down, ...
LEMMA FewerPressed ==
    ASSUME NEW s, Well(s, {}), NEW t, Goes(s, t)
    PROVE  \A n \in Notes :
              Cardinality(Pressed(t, n[1], n[2])) <= Cardinality(Pressed(s, n[1], n[2]))
<1>1. ASSUME NEW n \in Notes
      PROVE  Cardinality(Pressed(t, n[1], n[2])) <= Cardinality(Pressed(s, n[1], n[2]))
  <2>1. n[1] \in Channels
    BY DEF Notes, Channels
  <2>2. Pressed(t, n[1], n[2]) \subseteq Pressed(s, n[1], n[2])
    BY <2>1 DEF Goes
  <2>3. IsFiniteSet(Pressed(s, n[1], n[2]))
    BY <2>1, PressedFew
  <2>4. QED BY <2>2, <2>3, FS_Subset
<1>2. QED BY <1>1

\* ... the invariant remains.
LEMMA GoesOn ==
    ASSUME AlInv, Interrupted, Goes(al, al'), bank' = bank, piece' = piece, held' = held
    PROVE  AlInv'
<1>1. Well(al, {}) /\ Calls /\ held \in [Notes -> Nat]
      /\ \A n \in Notes : Cardinality(Pressed(al, n[1], n[2])) <= held[n]
  BY DEF AlInv
<1>2. \A n \in Notes : Cardinality(Pressed(al', n[1], n[2])) <= held'[n]
  <2>1. ASSUME NEW n \in Notes PROVE Cardinality(Pressed(al', n[1], n[2])) <= held'[n]
    <3>1. n[1] \in Channels
      BY DEF Notes, Channels
    <3>2. /\ Cardinality(Pressed(al', n[1], n[2])) \in Nat
          /\ Cardinality(Pressed(al, n[1], n[2])) \in Nat
      BY <1>1, <3>1, PressedFew DEF Goes
    <3>3. Cardinality(Pressed(al', n[1], n[2])) <= Cardinality(Pressed(al, n[1], n[2]))
      BY <1>1, FewerPressed
    <3>4. Cardinality(Pressed(al, n[1], n[2])) <= held[n] /\ held[n] \in Nat
      BY <1>1
    <3>5. QED BY <3>2, <3>3, <3>4
  <2>2. QED BY <2>1
<1>3. Well(al', {}) /\ Ranges(al') /\ Asked(al') /\ al'.opl3 = al.opl3
  BY DEF Goes
<1>4. Well(al, {})' /\ Asked(al)' /\ Calls'
  BY <1>1, <1>3, Disturbed
<1>5. QED BY <1>1, <1>2, <1>3, <1>4 DEF AlInv

\* AL_Init.
LEMMA AlInvInit == AlInit => AlInv
<1> SUFFICES ASSUME AlInit PROVE AlInv
  OBVIOUS
<1>1. PICK opl3 \in piece.cards :
         al = ResetVoices(opl3, [v \in Voices |-> Fresh], [x \in Cells |-> Flushed])
  BY DEF AlInit
<1>2. opl3 \in BOOLEAN /\ piece \in Pieces /\ call = NoCall
  BY <1>1, AlAssumption DEF AlInit
<1> DEFINE chip == [x \in Cells |-> Flushed]
<1>3. Flushed.on = FALSE
  BY DEF Flushed
<1>4. /\ DOMAIN chip = Cells
      /\ \A x \in Cells : DOMAIN chip[x] = DOMAIN Flushed /\ chip[x].on \in BOOLEAN
                          /\ (x \notin astray => ~chip[x].on)
  BY <1>3
<1> HIDE DEF chip
<1>5. /\ Well(al, {}) /\ Ranges(al) /\ Asked(al)
      /\ \A c \in Channels : \A key : Pressed(al, c, key) = {}
  BY <1>1, <1>2, <1>4, ResetGoes DEF chip
<1>6. held = [n \in Notes |-> 0]
  BY DEF AlInit
<1>7. ASSUME NEW n \in Notes PROVE Cardinality(Pressed(al, n[1], n[2])) <= held[n]
  <2>1. Pressed(al, n[1], n[2]) = {}
    BY <1>5 DEF Notes, Channels
  <2>2. QED BY <1>6, <2>1, FS_EmptySet
<1>8. Calls
  BY <1>2 DEF Calls, CallIs, WalkLeft, Underway, NoCall, None
<1>9. QED BY <1>2, <1>5, <1>6, <1>7, <1>8 DEF AlInv

\* AL_Shutdown and AL_Init.
LEMMA AlInvReset ==
    ASSUME AlInv, Restart, call = NoCall
    PROVE  AlInv'
<1>1. PICK opl3 \in piece.cards :
         /\ al' = ResetVoices(opl3, al.voice, Reset(al.chip, opl3))
         /\ astray' = astray \cap Unflushed(opl3)
  BY DEF Restart
<1>2. opl3 \in BOOLEAN /\ piece \in Pieces /\ Well(al, {}) /\ Playing(al) = {}
  BY <1>1, AlAssumption DEF AlInv, Restart
<1> DEFINE chip == Reset(al.chip, opl3)
<1>3. /\ DOMAIN chip = Cells
      /\ \A x \in Cells : DOMAIN chip[x] = DOMAIN Flushed /\ chip[x].on \in BOOLEAN
                          /\ (chip[x].on => x \in astray \cap Unflushed(opl3))
  BY <1>2, ShutSilent
<1> HIDE DEF chip
<1>4. /\ Well(al', {}) /\ Ranges(al') /\ Playing(al') = {} /\ al'.chip = chip
      /\ \A c \in Channels : \A key : Pressed(al', c, key) = {}
      /\ \A v \in Voices : al'.voice[v].timbre = None
  <2> DEFINE t == ResetVoices(opl3, al.voice, chip)
  <2>1. al' = t
    BY <1>1 DEF chip
  <2>2. /\ Well(t, {}) /\ Ranges(t) /\ Playing(t) = {}
        /\ \A c \in Channels : \A key : Pressed(t, c, key) = {}
    BY <1>2, <1>3, ResetGoes
  <2>3. \A v \in Voices : t.voice[v].timbre = None
    BY <1>2, <1>3, ResetDoes
  <2>4. t.chip = chip
    BY DEF ResetVoices
  <2> HIDE DEF t
  <2>5. QED BY <2>1, <2>2, <2>3, <2>4
<1>5. held' = [n \in Notes |-> 0] /\ bank' = bank /\ piece' = piece /\ call' = NoCall
  BY DEF Restart
<1>6. ASSUME NEW n \in Notes PROVE Cardinality(Pressed(al', n[1], n[2])) <= held'[n]
  <2>1. Pressed(al', n[1], n[2]) = {}
    BY <1>4 DEF Notes, Channels
  <2>2. QED BY <1>5, <2>1, FS_EmptySet
<1>7. Asked(al)'
  BY <1>4 DEF Asked, Holds
<1>8. held' \in [Notes -> Nat]
  BY <1>5
<1>9. Well(al, {})'
  BY <1>1, <1>3, <1>4 DEF Well, Sounds
<1>10. Calls'
  BY <1>5 DEF Calls, CallIs, WalkLeft, Underway, NoCall, None
<1>11. QED BY <1>2, <1>4, <1>5, <1>6, <1>7, <1>8, <1>9, <1>10 DEF AlInv

\* AL_RegisterTimbreBank finds no voice that has played.
LEMMA AlInvBank ==
    ASSUME AlInv, NEW b, RegisterTimbreBank(b), call = NoCall
    PROVE  AlInv'
<1>1. /\ \A v \in Voices : al.voice[v].timbre = None
      /\ al' = al /\ held' = held /\ piece' = piece
      /\ call' = NoCall /\ astray' = astray
  BY DEF RegisterTimbreBank
<1>2. \A v \in Playing(al) : v \in Voices /\ al.voice[v].timbre # None
  BY Listed DEF AlInv, Well, Asked
<1>3. Playing(al) = {}
  BY <1>1, <1>2
<1>4. Asked(al)'
  BY <1>1, <1>3 DEF Asked, Holds
<1>5. Well(al, {})'
  BY <1>1 DEF AlInv, Well, Sounds
<1>6. Calls'
  BY <1>1 DEF Calls, CallIs, WalkLeft, Underway, NoCall, None
<1>7. QED BY <1>1, <1>4, <1>5, <1>6 DEF AlInv

\* AL_NoteOn adds one voice to those that its key sounds.
LEMMA AlInvNote ==
    ASSUME AlInv, NEW c \in Channels, NEW key \in Nat, <<c, key>> \in Notes, NEW velocity,
           NoteOn(c, key, velocity), Interrupted
    PROVE  AlInv'
<1>1. /\ Well(al, {}) /\ Ranges(al) /\ Asked(al) /\ Calls /\ held \in [Notes -> Nat]
      /\ \A n \in Notes : Cardinality(Pressed(al, n[1], n[2])) <= held[n]
  BY DEF AlInv
<1>2. StruckFrom(al, al', c, key)
  BY <1>1, NoteOnDoes
<1>3. StruckSo(al, al', c, key)
  BY <1>1, <1>2, StruckAll
<1>4. /\ Well(al', {}) /\ Ranges(al') /\ Asked(al') /\ al'.opl3 = al.opl3
      /\ \A d \in Channels : \A k :
            <<d, k>> # <<c, key>> => Pressed(al', d, k) \subseteq Pressed(al, d, k)
  BY <1>3 DEF StruckSo
<1>5. PICK v : Pressed(al', c, key) \subseteq Pressed(al, c, key) \cup {v}
  BY <1>3 DEF StruckSo
<1>6. /\ held' = [held EXCEPT ![<<c, key>>] = @ + 1] /\ bank' = bank /\ piece' = piece
  BY DEF NoteOn
<1>7. held' \in [Notes -> Nat]
  BY <1>1, <1>6
<1>8. ASSUME NEW n \in Notes PROVE Cardinality(Pressed(al', n[1], n[2])) <= held'[n]
  <2>1. PICK d, k : n = <<d, k>> /\ d \in Channels
    BY DEF Notes, Channels
  <2>2. /\ IsFiniteSet(Pressed(al, d, k)) /\ Cardinality(Pressed(al, d, k)) \in Nat
        /\ Cardinality(Pressed(al', d, k)) \in Nat
    BY <1>1, <1>4, <2>1, PressedFew
  <2>3. Cardinality(Pressed(al, d, k)) <= held[n] /\ held[n] \in Nat
    BY <1>1, <2>1
  <2>4. CASE n = <<c, key>>
    <3>1. d = c /\ k = key
      BY <2>1, <2>4
    <3>2. /\ IsFiniteSet(Pressed(al, d, k) \cup {v})
          /\ Cardinality(Pressed(al, d, k) \cup {v})
                = IF v \in Pressed(al, d, k) THEN Cardinality(Pressed(al, d, k))
                  ELSE Cardinality(Pressed(al, d, k)) + 1
      BY <2>2, FS_AddElement
    <3>3. Cardinality(Pressed(al', d, k)) <= Cardinality(Pressed(al, d, k) \cup {v})
      BY <1>5, <3>1, <3>2, FS_Subset
    <3>4. held'[n] = held[n] + 1
      BY <1>1, <1>6, <2>4
    <3>5. QED BY <2>1, <2>2, <2>3, <3>2, <3>3, <3>4
  <2>5. CASE n # <<c, key>>
    <3>1. Pressed(al', d, k) \subseteq Pressed(al, d, k)
      BY <1>4, <2>1, <2>5
    <3>2. Cardinality(Pressed(al', d, k)) <= Cardinality(Pressed(al, d, k))
      BY <2>2, <3>1, FS_Subset
    <3>3. held'[n] = held[n]
      BY <1>1, <1>6, <2>5
    <3>4. QED BY <2>1, <2>2, <2>3, <3>2, <3>3
  <2>6. QED BY <2>4, <2>5
<1>9. Well(al, {})' /\ Asked(al)' /\ Calls'
  BY <1>1, <1>4, <1>6, Disturbed
<1>10. piece \in Pieces
  BY DEF AlInv
<1>11. QED BY <1>4, <1>6, <1>7, <1>8, <1>9, <1>10 DEF AlInv

\* AL_NoteOff takes one of them, if there is any.
LEMMA AlInvKeyUp ==
    ASSUME AlInv, NEW c \in Channels, NEW key \in Nat, <<c, key>> \in Notes, KeyUp(c, key),
           Interrupted
    PROVE  AlInv'
<1>1. /\ Well(al, {}) /\ Ranges(al) /\ Asked(al) /\ Calls /\ held \in [Notes -> Nat]
      /\ \A n \in Notes : Cardinality(Pressed(al, n[1], n[2])) <= held[n]
  BY DEF AlInv
<1>2. /\ al' = NoteOff(al, c, key, al.channel[c].pedal)
      /\ held' = [held EXCEPT ![<<c, key>>] = IF @ > 0 THEN @ - 1 ELSE @]
      /\ bank' = bank /\ piece' = piece
  BY DEF KeyUp
<1>3. /\ Well(al', {}) /\ Fades(al, al')
      /\ \/ Pressed(al, c, key) = {} /\ al' = al
         \/ \E v \in Pressed(al, c, key) : v \notin Pressed(al', c, key)
  BY <1>1, <1>2, NoteOffDoes
<1>4. Goes(al, al')
  BY <1>1, <1>3, FadesGo
<1>5. /\ Well(al', {}) /\ Ranges(al') /\ Asked(al') /\ al'.opl3 = al.opl3
      /\ \A d \in Channels : \A k : Pressed(al', d, k) \subseteq Pressed(al, d, k)
  BY <1>4 DEF Goes
<1>6. held' \in [Notes -> Nat]
  BY <1>1, <1>2
<1>7. ASSUME NEW n \in Notes PROVE Cardinality(Pressed(al', n[1], n[2])) <= held'[n]
  <2>1. PICK d, k : n = <<d, k>> /\ d \in Channels
    BY DEF Notes, Channels
  <2>2. /\ IsFiniteSet(Pressed(al, d, k)) /\ Cardinality(Pressed(al, d, k)) \in Nat
        /\ Cardinality(Pressed(al', d, k)) \in Nat
    BY <1>1, <1>5, <2>1, PressedFew
  <2>3. Cardinality(Pressed(al, d, k)) <= held[n] /\ held[n] \in Nat
    BY <1>1, <2>1
  <2>4. Cardinality(Pressed(al', d, k)) <= Cardinality(Pressed(al, d, k))
    BY <1>5, <2>1, <2>2, FS_Subset
  <2>5. CASE n = <<c, key>> /\ held[n] > 0
    <3>1. d = c /\ k = key /\ held'[n] = held[n] - 1
      BY <1>1, <1>2, <2>1, <2>5
    <3>2. CASE Pressed(al, c, key) = {} /\ al' = al
      <4>1. Cardinality(Pressed(al', d, k)) = 0
        BY <3>1, <3>2, FS_EmptySet
      <4>2. QED BY <2>1, <2>3, <2>5, <3>1, <4>1
    <3>3. ASSUME NEW v \in Pressed(al, c, key), v \notin Pressed(al', c, key)
          PROVE  Cardinality(Pressed(al', n[1], n[2])) <= held'[n]
      <4>1. /\ IsFiniteSet(Pressed(al, d, k) \ {v})
            /\ Cardinality(Pressed(al, d, k) \ {v}) = Cardinality(Pressed(al, d, k)) - 1
        BY <2>2, <3>1, <3>3, FS_RemoveElement
      <4>2. Pressed(al', d, k) \subseteq Pressed(al, d, k) \ {v}
        BY <1>5, <3>1, <3>3
      <4>3. Cardinality(Pressed(al', d, k)) <= Cardinality(Pressed(al, d, k) \ {v})
        BY <4>1, <4>2, FS_Subset
      <4>4. QED BY <2>1, <2>2, <2>3, <3>1, <4>1, <4>3
    <3>4. QED BY <1>3, <3>2, <3>3
  <2>6. CASE ~(n = <<c, key>> /\ held[n] > 0)
    <3>1. held'[n] = held[n]
      BY <1>1, <1>2, <2>6
    <3>2. QED BY <2>1, <2>2, <2>3, <2>4, <3>1
  <2>7. QED BY <2>5, <2>6
<1>8. Well(al, {})' /\ Asked(al)' /\ Calls'
  BY <1>1, <1>2, <1>5, Disturbed
<1>9. piece \in Pieces
  BY DEF AlInv
<1>10. QED BY <1>2, <1>5, <1>6, <1>7, <1>8, <1>9 DEF AlInv

\* AL_ProgramChange and AL_ChannelAfterTouch set a number of the channel.
LEMMA ProgramDone ==
    ASSUME NEW s, Well(s, {}), NEW c \in Channels, NEW patch \in 0..127
    PROVE  ControlDone(s, [s EXCEPT !.channel[c].program = patch], c, "program")
<1> DEFINE ch == s.channel[c]
           r == [ch EXCEPT !.program = patch]
<1>1. DOMAIN ch = DOMAIN Channel(FALSE)
  BY DEF Well, IsAl
<1>2. Mild(s.opl3, ch, r, "program")
  BY <1>1 DEF Mild, Ranged, SameWheel, Channel
<1>3. [s EXCEPT !.channel[c].program = patch] = Put(s, c, r)
  BY DEF Put
<1> HIDE DEF r
<1>4. QED BY <1>2, <1>3, MildDone

\* The pressure is a number as well.
LEMMA TouchDone ==
    ASSUME NEW s, Well(s, {}), NEW c \in Channels, NEW data \in Nat
    PROVE  ControlDone(s, [s EXCEPT !.channel[c].aftertouch = data], c, "touch")
<1> DEFINE ch == s.channel[c]
           r == [ch EXCEPT !.aftertouch = data]
<1>1. DOMAIN ch = DOMAIN Channel(FALSE)
  BY DEF Well, IsAl
<1>2. Mild(s.opl3, ch, r, "touch")
  BY <1>1 DEF Mild, Ranged, SameWheel, Channel
<1>3. [s EXCEPT !.channel[c].aftertouch = data] = Put(s, c, r)
  BY DEF Put
<1> HIDE DEF r
<1>4. QED BY <1>2, <1>3, MildDone

\* AL_AllNotesOff, a turn of its loop.
LEMMA EndingGoes ==
    ASSUME AlInv, AllNotesOffStep, Interrupted
    PROVE  AlInv'
<1>1. Well(al, {}) /\ Ranges(al) /\ Asked(al)
  BY DEF AlInv
<1>2. bank' = bank /\ piece' = piece /\ held' = held
  BY DEF AllNotesOffStep
<1>3. CASE al' = al
  <2>1. Goes(al, al')
    BY <1>1, <1>3 DEF Goes
  <2>2. QED BY <1>2, <2>1, GoesOn
<1>4. CASE al' # al
  <2>1. Goes(al, al')
    BY <1>1, <1>4, EndingDoes, FadesGo
  <2>2. QED BY <1>2, <2>1, GoesOn
<1>5. QED BY <1>3, <1>4

\* AL_RunTimers.
LEMMA TimersGo ==
    ASSUME AlInv, RunTimers, Interrupted
    PROVE  AlInv' /\ Drifts(al, al')
<1>1. Well(al, {}) /\ Ranges(al) /\ Asked(al)
  BY DEF AlInv
<1>2. bank' = bank /\ piece' = piece /\ held' = held
  BY DEF RunTimers
<1>3. PICK wave \in Waves :
         al' = Ticked([al EXCEPT !.voice = [v \in Voices |-> Older(@[v])]], wave)
  BY DEF RunTimers
<1>4. Well(al', {}) /\ Drifts(al, al')
  BY <1>1, <1>3, RunDoes
<1>5. Goes(al, al')
  BY <1>1, <1>4, DriftsGo
<1>6. QED BY <1>2, <1>4, <1>5, GoesOn

\* The events of the song.
LEMMA EventGoes ==
    ASSUME AlInv, NEW e \in piece.events, Happens(e), Interrupted
    PROVE  AlInv'
<1> DEFINE c == e[2]
<1>1. /\ c \in Channels /\ (e[1] = "note" => <<c, e[3]>> \in Notes)
      /\ e[1] = "program" => e[3] \in 0..127
      /\ e[1] \in Controls \cup {"note", "touch"} => e[3] \in Nat
  BY EventIs DEF AlInv
<1>2. Well(al, {}) /\ Ranges(al) /\ Asked(al)
  BY DEF AlInv
<1>3. ASSUME e[1] = "note", NoteOn(c, e[3], e[4])
      PROVE  AlInv'
  BY <1>1, <1>3, AlInvNote
<1>4. ASSUME e[1] = "note", KeyUp(c, e[3])
      PROVE  AlInv'
  BY <1>1, <1>4, AlInvKeyUp
<1>5. ASSUME SetPitchBend(c, e[3])
      PROVE  AlInv'
  <2>1. BendDone(al, al', c)
    BY <1>1, <1>2, <1>5, BendDoes DEF SetPitchBend
  <2>2. Goes(al, al')
    BY <1>1, <1>2, <2>1, BendGoes
  <2>3. QED BY <1>5, <2>2, GoesOn DEF SetPitchBend
<1>6. ASSUME e[1] = "program", ProgramChange(c, e[3])
      PROVE  AlInv'
  <2>1. e[3] \in 0..127
    BY <1>1, <1>6
  <2>2. ControlDone(al, al', c, "program")
    <3>1. al' = [al EXCEPT !.channel[c].program = e[3]]
      BY <1>6 DEF ProgramChange
    <3>2. ControlDone(al, [al EXCEPT !.channel[c].program = e[3]], c, "program")
      BY <1>1, <1>2, <2>1, ProgramDone, Zenon
    <3>3. QED BY <3>1, <3>2
  <2>3. Goes(al, al')
    BY <1>1, <1>2, <2>2, ControlGoes
  <2>4. QED BY <1>6, <2>3, GoesOn DEF ProgramChange
<1>7. ASSUME e[1] = "touch", ChannelAfterTouch(c, e[3])
      PROVE  AlInv'
  <2>1. e[3] \in Nat
    BY <1>1, <1>7
  <2>2. ControlDone(al, al', c, "touch")
    BY <1>1, <1>2, <1>7, <2>1, TouchDone DEF ChannelAfterTouch
  <2>3. Goes(al, al')
    BY <1>1, <1>2, <2>2, ControlGoes
  <2>4. QED BY <1>7, <2>3, GoesOn DEF ChannelAfterTouch
<1>8. ASSUME AllNotesOff(c)
      PROVE  AlInv'
  <2>1. /\ al' = al /\ bank' = bank /\ held' = held /\ piece' = piece
    BY <1>8 DEF AllNotesOff
  <2>2. Goes(al, al')
    BY <1>2, <2>1 DEF Goes
  <2>3. QED BY <2>1, <2>2, GoesOn
<1>9. ASSUME e[1] \in Controls, ControlChange(c, e[1], e[3])
      PROVE  AlInv'
  <2>1. e[3] \in Nat
    BY <1>1, <1>9
  <2>2. ControlDone(al, al', c, e[1])
    BY <1>1, <1>2, <1>9, <2>1, ControlDoes DEF ControlChange
  <2>3. Goes(al, al')
    BY <1>1, <1>2, <2>2, ControlGoes
  <2>4. QED BY <1>9, <2>3, GoesOn DEF ControlChange
<1>10. QED BY <1>3, <1>4, <1>5, <1>6, <1>7, <1>8, <1>9 DEF Happens

-----------------------------------------------------------------------------
(* The volume call of the program.                                         *)

\* Of a list the first voice, and of a voice the next one.
LEMMA WalkOn ==
    ASSUME NEW l, NEW n, NEW c, Rows(l, n, c), NEW k \in K
    PROVE  /\ l.start[k] = IF n[k] = 0 THEN Nil ELSE c[k][1]
           /\ \A i \in 1..n[k] : /\ c[k][i] \in Voices /\ c[k][i] \in InList(l, k)
                                 /\ l.next[c[k][i]] = IF i = n[k] THEN Nil ELSE c[k][i + 1]
<1>1. InRow(l, k, n[k], c[k]) /\ n[k] \in Nat
  BY DEF Rows
<1>2. \A i \in 1..n[k] : c[k][i] \in Voices /\ c[k][i] \in InList(l, k)
  BY RowsNodes DEF Who
<1>3. ASSUME NEW i \in 1..n[k]
      PROVE  l.next[c[k][i]] = IF i = n[k] THEN Nil ELSE c[k][i + 1]
  <2>1. i # n[k] => i \in 1..(n[k] - 1)
    BY <1>1
  <2>2. n[k] > 0
    BY <1>1
  <2>3. QED BY <1>1, <2>1, <2>2 DEF InRow
<1>4. l.start[k] = IF n[k] = 0 THEN Nil ELSE c[k][1]
  BY <1>1 DEF InRow
<1>5. QED BY <1>2, <1>3, <1>4

\* The call goes on to the next register or to the next voice.
SentDone ==
    /\ ~call'.torn
    /\ \/ /\ call.slot = 2 /\ call.additive /\ call'.slot = 1 /\ call'.additive
          /\ call'.voice = call.voice /\ call'.left = call.left /\ call'.stale = call.stale
       \/ /\ ~(call.slot = 2 /\ call.additive) /\ call'.slot = 0
          /\ call'.left = call.left \ {call.voice}

\* A write of the call, whatever it writes.
LEMMA SentDoes ==
    ASSUME Calls, Placed(al, {}), call.slot # 0, call' = Sent,
           al'.lists = al.lists, al'.opl3 = al.opl3
    PROVE  SentDone /\ CallIs' /\ WalkLeft'
<1> DEFINE v == call.voice
           next == al.lists.next[v]
<1>1. /\ DOMAIN call = {"voice", "slot", "additive", "stale", "torn", "left"}
      /\ call.slot \in 0..2 /\ call.left \subseteq Voices
      /\ call.additive \in BOOLEAN /\ call.stale \in BOOLEAN /\ call.torn \in BOOLEAN
      /\ call.stale => call.left = {}
      /\ call.slot = 1 => call.additive
  BY DEF Calls, CallIs, NoCall
<1>2. v \in Voices /\ Has(al.opl3, v) /\ v # None
  <2>1. call # NoCall
    BY DEF NoCall
  <2>2. QED BY <2>1 DEF Calls, CallIs
<1>3. CASE call.slot = 2 /\ call.additive
  <2>1. call' = [call EXCEPT !.slot = 1, !.torn = FALSE]
    BY <1>3 DEF Sent
  <2>2. /\ DOMAIN call' = DOMAIN call /\ call'.voice = call.voice /\ call'.left = call.left
        /\ call'.slot = 1 /\ call'.additive = call.additive /\ call'.stale = call.stale
        /\ call'.torn = FALSE
    BY <1>1, <2>1
  <2>3. CallIs'
    <3>1. DOMAIN call' = DOMAIN NoCall
      BY <1>1, <2>2 DEF NoCall
    <3>2. call'.voice \in Voices /\ Has(al'.opl3, call'.voice) /\ call'.voice # None
      BY <1>2, <2>2
    <3>3. call'.slot \in 0..2 /\ call'.slot # 0 /\ call'.left \subseteq Voices
      BY <1>1, <2>2
    <3>4. /\ call'.additive /\ call'.additive \in BOOLEAN /\ call'.stale \in BOOLEAN
          /\ call'.torn \in BOOLEAN /\ (call'.stale => call'.left = {})
      BY <1>1, <1>3, <2>2, Zenon
    <3>5. QED BY <3>1, <3>2, <3>3, <3>4 DEF CallIs
  <2>4. WalkLeft'
    BY <2>2 DEF Calls, WalkLeft
  <2>5. QED BY <1>3, <2>2, <2>3, <2>4 DEF SentDone
<1>4. CASE ~(call.slot = 2 /\ call.additive)
  <2>1. call' = At(next, call.left \ {v})
    BY <1>1, <1>4 DEF Sent
  <2>2. PICK n, c : /\ Rows(al.lists, n, c)
                    /\ \E k \in K : \E i \in 1..n[k] :
                          /\ v = c[k][i]
                          /\ call.left # {} => call.left = {c[k][j] : j \in i..n[k]}
    <3>1. CASE call.left # {}
      BY <3>1 DEF Calls, WalkLeft
    <3>2. CASE call.left = {}
      <4>1. PICK n, c : Rows(al.lists, n, c)
        BY DEF Placed, Kept
      <4>2. PICK k \in K : v \in InList(al.lists, k)
        BY <1>2 DEF Placed
      <4>3. PICK i \in 1..n[k] : v = c[k][i]
        BY <4>1, <4>2, RowsNodes DEF Who
      <4>4. QED BY <3>2, <4>1, <4>3
    <3>3. QED BY <3>1, <3>2
  <2>3. PICK k \in K : \E i \in 1..n[k] :
              v = c[k][i] /\ (call.left # {} => call.left = {c[k][j] : j \in i..n[k]})
    BY <2>2
  <2>4. PICK i \in 1..n[k] :
              v = c[k][i] /\ (call.left # {} => call.left = {c[k][j] : j \in i..n[k]})
    BY <2>3
  <2>5. next = IF i = n[k] THEN Nil ELSE c[k][i + 1]
    BY <2>2, <2>4, WalkOn
  <2>6. /\ n[k] \in Nat
        /\ \A j \in 1..n[k] : c[k][j] \in Voices /\ c[k][j] \in InList(al.lists, k)
    BY <2>2, WalkOn DEF Rows
  <2>7. \A j \in 1..n[k] : c[k][j] = c[k][i] => j = i
    BY <2>2 DEF Rows, InRow
  <2>8. EndOfList = Nil /\ Nil \notin Voices
    BY VoicesCounted DEF EndOfList, Nil
  <2> HIDE DEF v, next
  <2>9. CASE i = n[k]
    <3>1. call' = NoCall
      BY <2>1, <2>5, <2>8, <2>9 DEF At
    <3>2. call.left \ {v} = {}
      BY <2>4, <2>6, <2>9
    <3>3. SentDone
      BY <1>4, <3>1, <3>2 DEF SentDone, NoCall, v
    <3>4. CallIs' /\ WalkLeft'
      BY <3>1 DEF CallIs, WalkLeft, NoCall, None
    <3>5. QED BY <3>3, <3>4
  <2>10. CASE i # n[k]
    <3>1. i + 1 \in 1..n[k] /\ next = c[k][i + 1] /\ next \in Voices
          /\ next \in InList(al.lists, k)
      BY <2>5, <2>6, <2>10
    <3>2. Has(al.opl3, next) /\ next # None
      BY <3>1, Listed DEF Voices, None
    <3>3. /\ DOMAIN call' = DOMAIN NoCall
          /\ call'.voice = next /\ call'.left = call.left \ {v} /\ call'.slot = 0
          /\ ~call'.additive /\ ~call'.stale /\ ~call'.torn
          /\ call'.additive \in BOOLEAN /\ call'.stale \in BOOLEAN /\ call'.torn \in BOOLEAN
      <4>1. next # EndOfList
        BY <2>8, <3>1
      <4>2. QED BY <2>1, <4>1 DEF At, NoCall
    <3>4. SentDone
      BY <1>4, <3>3 DEF SentDone, v
    <3>5. CallIs'
      BY <1>1, <3>1, <3>2, <3>3 DEF CallIs
    <3>6. WalkLeft'
      <4>1. call.left # {} => call.left \ {v} = {c[k][j] : j \in (i + 1)..n[k]}
        <5>1. SUFFICES ASSUME call.left # {}
                       PROVE  call.left \ {v} = {c[k][j] : j \in (i + 1)..n[k]}
          OBVIOUS
        <5>2. \A j \in i..n[k] : j \in 1..n[k] /\ (j # i <=> j \in (i + 1)..n[k])
          BY <2>6
        <5>3. \A j \in (i + 1)..n[k] : j \in i..n[k]
          BY <2>6
        <5>4. QED BY <2>4, <2>7, <5>1, <5>2, <5>3
      <4>2. QED BY <2>2, <3>1, <3>3, <4>1 DEF WalkLeft
    <3>7. QED BY <3>4, <3>5, <3>6
  <2>11. QED BY <2>9, <2>10
<1>5. QED BY <1>3, <1>4

\* What the call sends to the chip presses no key, and moves no voice.
LEMMA KeptSilent ==
    ASSUME AlInv, al'.lists = al.lists, al'.voice = al.voice, al'.opl3 = al.opl3,
           piece' = piece, held' = held,
           \A c \in Channels : Ranged(al.channel[c]) => Ranged(al'.channel[c]),
           Well(al, {})', Asked(al)', Calls'
    PROVE  AlInv'
<1>1. Ranges(al)'
  BY WhoPlays DEF AlInv, Ranges
<1>2. \A c, key : Pressed(al', c, key) = Pressed(al, c, key)
  BY DEF Pressed, VoicesOf
<1>3. QED BY <1>1, <1>2 DEF AlInv

\* Registers of one voice are written: those of a call, or by mistake.
LEMMA CellWell ==
    ASSUME Well(al, {}), NEW v \in Voices, IsAl(al'), OnlyCell(al, al', v),
           astray \subseteq astray',
           \/ Cell(al.opl3, v) \in astray'
           \/ al'.chip[Cell(al.opl3, v)].on = al.chip[Cell(al.opl3, v)].on
    PROVE  Well(al, {})'
<1>1. /\ al'.lists = al.lists /\ al'.voice = al.voice /\ al'.opl3 = al.opl3
      /\ \A x \in Cells : x \notin astray' => al'.chip[x].on = al.chip[x].on /\ x \notin astray
  BY DEF OnlyCell
<1>2. Placed(al, {})'
  BY <1>1 DEF Well, Placed
<1>3. Sounds(al)'
  <2>1. \A u : u \in Playing(al') <=> u \in Playing(al)
    BY <1>1, WhoPlays
  <2>2. \A u \in Playing(al) : u \in Voices /\ Cell(al.opl3, u) \in Cells
    BY Listed, CellIn DEF Well, IsAl
  <2>3. QED BY <1>1, <2>1, <2>2 DEF Well, Sounds
<1>4. QED BY <1>2, <1>3 DEF Well

\* The call begins: what plays for the channel is yet to be told.
LEMMA VolumeCallKeeps ==
    ASSUME AlInv, NEW c \in Channels, NEW volume, VolumeCall(c, volume)
    PROVE  AlInv' /\ PutDone(al, al', c, [al.channel[c] EXCEPT !.volume = Clamped(volume)])
<1> DEFINE r == [al.channel[c] EXCEPT !.volume = Clamped(volume)]
           all == Range(VoicesOf(al, c))
<1>1. /\ call = NoCall /\ al' = [al EXCEPT !.channel[c].volume = Clamped(volume)]
      /\ call' = At(al.lists.start[c], all) /\ bank' = bank /\ held' = held
      /\ piece' = piece /\ late' = late /\ astray' = astray
  BY DEF VolumeCall
<1>2. Well(al, {}) /\ Ranges(al) /\ Asked(al) /\ IsAl(al) /\ Placed(al, {})
  BY DEF AlInv, Well
<1>3. /\ DOMAIN r = DOMAIN Channel(FALSE) /\ r.pan = al.channel[c].pan
      /\ r.program = al.channel[c].program /\ r.vibrato = al.channel[c].vibrato
      /\ r.aftertouch = al.channel[c].aftertouch
  <2>1. DOMAIN al.channel[c] = DOMAIN Channel(FALSE)
    BY <1>2 DEF IsAl
  <2>2. QED BY <2>1 DEF Channel
<1>4. al' = Put(al, c, r)
  BY <1>1 DEF Put
<1> HIDE DEF r, all
<1>5. PutDone(al, al', c, r) /\ Well(al', {})
  BY <1>2, <1>3, <1>4, PutTurns
<1>6. /\ al'.lists = al.lists /\ al'.voice = al.voice /\ al'.opl3 = al.opl3
      /\ al'.chip = al.chip /\ al'.channel[c] = r
      /\ \A d \in Channels \ {c} : al'.channel[d] = al.channel[d]
  BY <1>5 DEF PutDone
<1>7. PICK n, row : Rows(al.lists, n, row)
  BY <1>2 DEF Placed, Kept
<1>8. /\ c \in K /\ all = InList(al.lists, c) /\ all = Who(n[c], row[c]) /\ n[c] \in Nat
      /\ al.lists.start[c] = IF n[c] = 0 THEN Nil ELSE row[c][1]
      /\ \A i \in 1..n[c] : row[c][i] \in Voices /\ row[c][i] \in InList(al.lists, c)
  BY <1>7, WalkOn, RowsNodes, PoolApart DEF all, VoicesOf, InList
<1>9. EndOfList = Nil /\ Nil \notin Voices
  BY VoicesCounted DEF EndOfList, Nil
<1>10. CallIs' /\ WalkLeft' /\ call'.slot = 0 /\ call'.left = all
  <2>1. CASE n[c] = 0
    <3>1. call' = NoCall /\ all = {}
      BY <1>1, <1>8, <1>9, <2>1 DEF At, Who
    <3>2. QED BY <3>1 DEF CallIs, WalkLeft, NoCall, None
  <2>2. CASE n[c] # 0
    <3>1. 1 \in 1..n[c] /\ al.lists.start[c] = row[c][1] /\ row[c][1] \in Voices
          /\ row[c][1] # EndOfList /\ row[c][1] \in InList(al.lists, c)
      BY <1>8, <1>9, <2>2
    <3>2. Has(al.opl3, row[c][1]) /\ row[c][1] # None
      <4>1. Has(al.opl3, row[c][1])
        BY <1>2, <1>8, <3>1, Listed
      <4>2. QED BY <3>1, <4>1 DEF Voices, None
    <3>3. /\ DOMAIN call' = DOMAIN NoCall
          /\ call'.voice = row[c][1] /\ call'.left = all /\ call'.slot = 0
          /\ ~call'.additive /\ ~call'.stale /\ ~call'.torn
          /\ call'.additive \in BOOLEAN /\ call'.stale \in BOOLEAN /\ call'.torn \in BOOLEAN
      BY <1>1, <3>1 DEF At, NoCall
    <3>4. all \subseteq Voices
      BY <1>8 DEF Who
    <3>5. CallIs'
      BY <1>6, <3>1, <3>2, <3>3, <3>4 DEF CallIs
    <3>6. WalkLeft'
      BY <1>6, <1>7, <1>8, <3>1, <3>3 DEF WalkLeft, Who
    <3>7. QED BY <3>3, <3>5, <3>6
  <2>3. QED BY <2>1, <2>2
<1>11. Calls'
  BY <1>10 DEF Calls, Underway
<1>12. Well(al, {})'
  BY <1>1, <1>5 DEF Well, Sounds
<1>13. Asked(al)'
  <2>1. \A v \in Voices : Has(al'.opl3, v) => Holds(al, v)'
    BY <1>1, <1>2, <1>6 DEF Asked, Holds
  <2>2. ASSUME NEW v \in Playing(al') PROVE al'.voice[v].timbre # None /\ Heard(al, v)'
    <3>1. v \in Playing(al)
      BY <1>6, <2>2, WhoPlays
    <3>2. /\ al'.voice[v].timbre # None /\ Heard(al, v) /\ al.voice[v].channel \in Channels
          /\ v \in InList(al.lists, al.voice[v].channel)
      BY <1>2, <1>6, <3>1, Listed DEF Asked
    <3>3. CASE al.voice[v].channel = c
      <4>1. ~Reached(al, v)'
        BY <1>8, <1>10, <3>2, <3>3 DEF Reached
      <4>2. QED BY <1>1, <1>3, <1>6, <3>2, <3>3, <4>1 DEF Heard
    <3>4. CASE al.voice[v].channel # c
      <4>1. Reached(al, v)' => Reached(al, v)
        BY <1>1, <1>6 DEF Reached, NoCall
      <4>2. al'.channel[al.voice[v].channel] = al.channel[al.voice[v].channel]
        BY <1>6, <3>2, <3>4
      <4>3. QED BY <1>1, <1>6, <3>2, <4>1, <4>2 DEF Heard
    <3>5. QED BY <3>3, <3>4
  <2>3. QED BY <2>1, <2>2 DEF Asked
<1>14. \A d \in Channels : Ranged(al.channel[d]) => Ranged(al'.channel[d])
  BY <1>3, <1>6 DEF Ranged
<1>15. AlInv'
  BY <1>1, <1>6, <1>11, <1>12, <1>13, <1>14, KeptSilent
<1>16. QED BY <1>5, <1>15 DEF r

\* The call reads a voice.
LEMMA ReachVoiceKeeps ==
    ASSUME AlInv, ReachVoice
    PROVE  AlInv'
<1>1. /\ call.voice # None /\ call.slot = 0
      /\ al' = al /\ bank' = bank /\ held' = held /\ piece' = piece
      /\ late' = late /\ astray' = astray
  BY DEF ReachVoice
<1>2. PICK additive \in BOOLEAN :
         LET timbre == al.voice[call.voice].timbre
         IN /\ timbre # None => additive = bank[timbre].additive
            /\ call' = [call EXCEPT !.slot = 2, !.additive = additive]
  BY Zenon DEF ReachVoice
<1>3. /\ DOMAIN call = {"voice", "slot", "additive", "stale", "torn", "left"}
      /\ call.left \subseteq Voices /\ call.voice \in Voices /\ Has(al.opl3, call.voice)
      /\ call.stale \in BOOLEAN /\ call.torn \in BOOLEAN /\ ~call.stale
  BY <1>1 DEF AlInv, Calls, CallIs, NoCall
<1>4. /\ DOMAIN call' = DOMAIN call /\ call'.voice = call.voice /\ call'.left = call.left
      /\ call'.slot = 2 /\ call'.stale = call.stale /\ call'.torn = call.torn
      /\ call'.additive = additive
  BY <1>2, <1>3
<1>5. CallIs'
  <2>1. DOMAIN call' = DOMAIN NoCall
    BY <1>3, <1>4 DEF NoCall
  <2>2. ~call'.stale /\ call'.stale \in BOOLEAN /\ call'.torn \in BOOLEAN
        /\ call'.additive \in BOOLEAN
    BY <1>3, <1>4, Zenon
  <2>3. call'.voice \in Voices /\ Has(al'.opl3, call'.voice) /\ call'.voice # None
        /\ call'.left \subseteq Voices /\ call'.slot = 2
    BY <1>1, <1>3, <1>4
  <2>4. QED BY <2>1, <2>2, <2>3 DEF CallIs
<1>6. WalkLeft'
  BY <1>1, <1>4 DEF AlInv, Calls, WalkLeft
<1>7. Underway'
  <2>1. \A v \in Playing(al) : al.voice[v].timbre # None
    BY DEF AlInv, Asked
  <2>2. QED BY <1>1, <1>2, <1>4, <2>1 DEF Underway
<1>8. Well(al, {})'
  BY <1>1 DEF AlInv, Well, Sounds
<1>9. Asked(al)'
  BY <1>1, <1>4 DEF AlInv, Asked, Holds, Heard, Reached
<1>10. QED BY <1>1, <1>5, <1>6, <1>7, <1>8, <1>9, KeptSilent DEF Calls

\* A level is written and nothing else.
LEMMA LevelSet ==
    ASSUME NEW cell, DOMAIN cell = DOMAIN Flushed, NEW slot \in {1, 2}, NEW level
    PROVE  LET to == WithLevel(cell, slot, level)
           IN /\ DOMAIN to = DOMAIN Flushed /\ to.on = cell.on /\ to.pitch = cell.pitch
              /\ to.timbre = cell.timbre /\ to.pan = cell.pan
              /\ to.level[slot] = level /\ to.level[3 - slot] = cell.level[3 - slot]
<1>1. DOMAIN cell = {"on", "pitch", "timbre", "level", "pan"}
  BY DEF Flushed
<1> DEFINE levels == IF slot = 2 THEN <<cell.level[1], level>> ELSE <<level, cell.level[2]>>
           to == WithLevel(cell, slot, level)
<1>2. to = [cell EXCEPT !.level = levels]
  BY DEF WithLevel
<1>3. levels[slot] = level /\ levels[3 - slot] = cell.level[3 - slot]
  <2>1. CASE slot = 1
    BY <2>1
  <2>2. CASE slot = 2
    BY <2>2
  <2>3. QED BY <2>1, <2>2
<1> HIDE DEF levels, to
<1>4. /\ DOMAIN to = DOMAIN cell /\ to.on = cell.on /\ to.pitch = cell.pitch
      /\ to.timbre = cell.timbre /\ to.pan = cell.pan /\ to.level = levels
  BY <1>1, <1>2
<1>5. QED BY <1>3, <1>4 DEF to

\* A volume that a voice is told and no message disturbs is what its channel asks for.
LEMMA SendLevelKeeps ==
    ASSUME AlInv, SendLevel
    PROVE  /\ AlInv' /\ al'.lists = al.lists /\ al'.voice = al.voice /\ al'.opl3 = al.opl3
           /\ al'.channel = al.channel
           /\ \A x \in Cells : al'.chip[x].on = al.chip[x].on
                               /\ al'.chip[x].pitch = al.chip[x].pitch
<1>0. PICK v : v = call.voice
  OBVIOUS
<1> DEFINE slot == call.slot
           x == Cell(al.opl3, v)
           voice == al.voice[v]
           ch == al.channel[voice.channel]
           timbre == bank[voice.timbre]
           level == Loudness(ch, voice, timbre, timbre.level[slot])
           cell == WithLevel(al.chip[x], slot, level)
<1>1. /\ slot # 0 /\ ~call.stale /\ call' = Sent
      /\ al' = IF v \in Playing(al) THEN [al EXCEPT !.chip[x] = cell] ELSE al
      /\ late' = IF Sent.slot = 1 THEN late ELSE late \ {x}
      /\ bank' = bank /\ held' = held /\ piece' = piece /\ astray' = astray
  BY <1>0 DEF SendLevel
<1> HIDE DEF cell, level, timbre, ch, voice
<1>2. /\ Well(al, {}) /\ IsAl(al) /\ Placed(al, {}) /\ Asked(al) /\ Calls
      /\ al.opl3 \in BOOLEAN
  BY DEF AlInv, Well, IsAl
<1>3. v \in Voices /\ Has(al.opl3, v) /\ slot \in {1, 2} /\ (slot = 1 => call.additive)
  <2>1. call # NoCall
    BY <1>1 DEF NoCall
  <2>2. QED BY <1>0, <1>1, <1>2, <2>1 DEF Calls, CallIs
<1>4. x \in Cells /\ DOMAIN al.chip[x] = DOMAIN Flushed /\ al.chip[x].on \in BOOLEAN
  BY <1>2, <1>3, CellIn DEF IsAl
<1>5. /\ DOMAIN cell = DOMAIN Flushed /\ cell.on = al.chip[x].on
      /\ cell.pitch = al.chip[x].pitch /\ cell.timbre = al.chip[x].timbre
      /\ cell.pan = al.chip[x].pan
      /\ cell.level[slot] = level /\ cell.level[3 - slot] = al.chip[x].level[3 - slot]
  BY <1>3, <1>4, LevelSet DEF cell
<1>6. IsAl(al') /\ OnlyCell(al, al', v)
      /\ (v \in Playing(al) => al'.chip[x] = cell) /\ (v \notin Playing(al) => al' = al)
  <2>1. CASE v \in Playing(al)
    BY <1>1, <1>2, <1>3, <1>4, <1>5, <2>1, CellSet
  <2>2. CASE v \notin Playing(al)
    BY <1>1, <1>2, <2>2 DEF OnlyCell
  <2>3. QED BY <2>1, <2>2
<1>7. /\ al'.lists = al.lists /\ al'.voice = al.voice /\ al'.opl3 = al.opl3
      /\ al'.channel = al.channel /\ \A y \in Cells : y # x => al'.chip[y] = al.chip[y]
  BY <1>6 DEF OnlyCell
<1>8. /\ al'.chip[x].on = al.chip[x].on /\ al'.chip[x].pitch = al.chip[x].pitch
      /\ al'.chip[x].timbre = al.chip[x].timbre /\ al'.chip[x].pan = al.chip[x].pan
      /\ \A u : u \in Playing(al') <=> u \in Playing(al)
  BY <1>5, <1>6, <1>7, WhoPlays
<1>9. SentDone /\ CallIs' /\ WalkLeft'
  BY <1>1, <1>2, <1>7, SentDoes
<1>10. Well(al, {})'
  BY <1>1, <1>2, <1>3, <1>6, <1>8, CellWell
<1>11. ASSUME NEW u \in Voices, Has(al.opl3, u), u # v
       PROVE  /\ Cell(al.opl3, u) \in Cells /\ Cell(al.opl3, u) # x
              /\ al'.chip[Cell(al.opl3, u)] = al.chip[Cell(al.opl3, u)]
              /\ Reached(al, u)' => Reached(al, u)
  <2>1. Cell(al.opl3, u) \in Cells /\ Cell(al.opl3, u) # x
    BY <1>2, <1>3, <1>11, CellIn, CellApart
  <2>2. \A y : y # x => (y \in late => y \in late')
    BY <1>1
  <2>3. u \in call.left => u \in call'.left
    BY <1>0, <1>9, <1>11 DEF SentDone
  <2>4. QED BY <1>7, <2>1, <2>2, <2>3 DEF Reached
<1>12. v \in Playing(al) => call.additive = timbre.additive
  BY <1>0, <1>1, <1>2 DEF Calls, Underway, timbre, voice
<1>13. v \in Playing(al) /\ slot = 1 /\ x \notin astray
          => al.chip[x].level[2] = Loudness(ch, voice, timbre, timbre.level[2])
  BY <1>0, <1>1, <1>2 DEF Calls, Underway, timbre, voice, ch
<1>14. Sent.slot = call'.slot
  BY <1>1
<1>15. v \in Playing(al) =>
          /\ al'.chip[x].level[slot] = Loudness(ch, voice, timbre, timbre.level[slot])
          /\ al'.chip[x].level[3 - slot] = al.chip[x].level[3 - slot]
  BY <1>5, <1>6 DEF level
<1> HIDE DEF slot, x
<1>16. \A u \in Voices : Has(al'.opl3, u) => Holds(al, u)'
  <2>1. ASSUME NEW u \in Voices, Has(al.opl3, u), u # v PROVE Holds(al, u)'
    BY <1>1, <1>2, <1>7, <1>11, <2>1 DEF Asked, Holds
  <2>2. CASE v \notin Playing(al)
    <3>1. Holds(al, v) /\ al' = al
      BY <1>2, <1>3, <1>6, <2>2 DEF Asked
    <3>2. Holds(al, v)'
      BY <1>1, <3>1 DEF Holds
    <3>3. QED BY <1>7, <2>1, <3>2
  <2>3. CASE v \in Playing(al)
    <3>1. Holds(al, v)
      BY <1>2, <1>3 DEF Asked
    <3>2. ~timbre.additive => al'.chip[x].level[1] = al.chip[x].level[1]
      <4>1. ~timbre.additive => slot = 2
        BY <1>3, <1>12, <2>3
      <4>2. slot = 2 => 3 - slot = 1
        OBVIOUS
      <4>3. QED BY <1>15, <2>3, <4>1, <4>2
    <3>3. Holds(al, v)'
      BY <1>1, <1>7, <1>8, <3>1, <3>2 DEF Holds, timbre, voice, x
    <3>4. QED BY <1>7, <2>1, <3>3
  <2>4. QED BY <2>2, <2>3
<1>17. \A u \in Playing(al') : al'.voice[u].timbre # None /\ Heard(al, u)'
  <2>1. ASSUME NEW u \in Playing(al'), u # v PROVE Heard(al, u)'
    <3>1. Heard(al, u) /\ u \in Voices /\ Has(al.opl3, u)
      BY <1>2, <1>8, Listed DEF Asked
    <3>2. QED BY <1>1, <1>7, <1>11, <2>1, <3>1 DEF Heard
  <2>2. ASSUME v \in Playing(al') PROVE Heard(al, v)'
    <3>1. Heard(al, v) /\ v \in Playing(al)
      BY <1>2, <1>8, <2>2 DEF Asked
    <3>2. ASSUME x \notin astray', Reached(al, v)'
          PROVE  /\ al'.chip[x].level[2] = Loudness(ch, voice, timbre, timbre.level[2])
                 /\ timbre.additive => al'.chip[x].level[1]
                                         = Loudness(ch, voice, timbre, timbre.level[1])
      <4>1. CASE slot = 1
        <5>1. 3 - slot = 2
          BY <4>1
        <5>2. QED BY <1>1, <1>13, <1>15, <3>1, <3>2, <4>1, <5>1
      <4>2. CASE slot = 2 /\ ~call.additive
        BY <1>12, <1>15, <3>1, <4>2
      <4>3. CASE slot = 2 /\ call.additive
        <5>1. late' = late /\ call'.left = call.left
          BY <1>1, <1>9, <1>14, <4>3 DEF SentDone, slot
        <5>2. Reached(al, v)
          BY <1>7, <3>2, <5>1 DEF Reached, x
        <5>3. x \notin astray /\ 3 - slot = 1
          BY <1>1, <3>2, <4>3
        <5>4. timbre.additive => al.chip[x].level[1]
                                   = Loudness(ch, voice, timbre, timbre.level[1])
          BY <3>1, <5>2, <5>3 DEF Heard, timbre, ch, voice, x
        <5>5. QED BY <1>15, <3>1, <4>3, <5>3, <5>4
      <4>4. QED BY <1>3, <4>1, <4>2, <4>3
    <3>3. \A p : PannedTo(al'.chip[x], p).pan = PannedTo(al.chip[x], p).pan
      BY <1>2, <1>4, <1>6, PannedSame DEF IsAl
    <3>4. QED BY <1>1, <1>7, <1>8, <3>1, <3>2, <3>3 DEF Heard, timbre, ch, voice, x
  <2>3. \A u \in Playing(al') : al'.voice[u].timbre # None
    BY <1>2, <1>7, <1>8 DEF Asked
  <2>4. QED BY <2>1, <2>2, <2>3
<1>18. Asked(al)'
  BY <1>16, <1>17 DEF Asked
<1>19. Underway'
  <2>1. ASSUME call'.slot # 0, call'.voice \in Playing(al')
        PROVE  /\ call'.slot = 1 /\ call'.voice = v /\ call'.additive /\ timbre.additive
               /\ al'.chip[x].level[2] = Loudness(ch, voice, timbre, timbre.level[2])
    <3>1. call'.slot = 1 /\ call'.voice = v /\ call'.additive /\ call.additive /\ slot = 2
      BY <1>0, <1>9, <2>1 DEF SentDone, slot
    <3>2. QED BY <1>8, <1>12, <1>15, <2>1, <3>1
  <2>2. timbre.additive \in BOOLEAN \/ v \notin Playing(al)
    BY <1>2, <1>12 DEF Calls, CallIs
  <2>3. call'.additive \in BOOLEAN
    BY <1>9 DEF CallIs
  <2>4. QED BY <1>1, <1>7, <1>8, <2>1, <2>2, <2>3 DEF Underway, timbre, ch, voice, x
<1>20. Calls'
  BY <1>9, <1>19 DEF Calls
<1>21. AlInv'
  BY <1>1, <1>7, <1>10, <1>18, <1>20, KeptSilent
<1>22. QED BY <1>7, <1>8, <1>21

\* A write that a message came amid harms the registers it goes to, which are then astray.
LEMMA SendAstrayKeeps ==
    ASSUME AlInv, SendAstray
    PROVE  /\ AlInv' /\ call.stale /\ ~call'.torn
           /\ al'.lists = al.lists /\ al'.voice = al.voice /\ al'.opl3 = al.opl3
           /\ al'.channel = al.channel
<1>1. /\ call.slot # 0 /\ call.stale /\ call' = Sent
      /\ bank' = bank /\ held' = held /\ piece' = piece /\ late' = late
  BY DEF SendAstray
<1>2. /\ Well(al, {}) /\ IsAl(al) /\ Placed(al, {}) /\ Asked(al) /\ Calls
      /\ al.opl3 \in BOOLEAN
  BY DEF AlInv, Well, IsAl
<1>3. /\ call.voice \in Voices /\ call.slot \in {1, 2} /\ call.left = {}
  <2>1. call # NoCall
    BY <1>1 DEF NoCall
  <2>2. QED BY <1>1, <1>2, <2>1 DEF Calls, CallIs
<1>4. PICK v \in Voices : \E cell :
         /\ \/ cell \in Garbled(al.chip[Cell(al.opl3, v)])
            \/ cell = WithLevel(al.chip[Cell(al.opl3, v)], call.slot, None)
         /\ al' = [al EXCEPT !.chip[Cell(al.opl3, v)] = cell]
         /\ astray' = astray \cup {Cell(al.opl3, v)}
  BY <1>3 DEF SendAstray
<1>5. PICK cell :
         /\ \/ cell \in Garbled(al.chip[Cell(al.opl3, v)])
            \/ cell = WithLevel(al.chip[Cell(al.opl3, v)], call.slot, None)
         /\ al' = [al EXCEPT !.chip[Cell(al.opl3, v)] = cell]
         /\ astray' = astray \cup {Cell(al.opl3, v)}
  BY <1>4, Zenon
<1> DEFINE x == Cell(al.opl3, v)
<1>6. x \in Cells /\ DOMAIN al.chip[x] = DOMAIN Flushed /\ al.chip[x].on \in BOOLEAN
  BY <1>2, CellIn DEF IsAl
<1>7. DOMAIN cell = DOMAIN Flushed /\ cell.on \in BOOLEAN
  <2>1. ASSUME NEW slot \in {1, 2}, cell = WithLevel(al.chip[x], slot, None)
        PROVE  DOMAIN cell = DOMAIN Flushed /\ cell.on \in BOOLEAN
    BY <1>6, <2>1, LevelSet
  <2>2. ASSUME \/ \E b \in BOOLEAN :
                     cell = [al.chip[x] EXCEPT !.on = b, !.pitch = <<None, 0>>]
               \/ cell = [al.chip[x] EXCEPT !.timbre = None]
               \/ cell = [al.chip[x] EXCEPT !.pan = {}]
        PROVE  DOMAIN cell = DOMAIN Flushed /\ cell.on \in BOOLEAN
    <3>1. DOMAIN al.chip[x] = {"on", "pitch", "timbre", "level", "pan"}
      BY <1>6 DEF Flushed
    <3>2. CASE cell = [al.chip[x] EXCEPT !.timbre = None]
      BY <1>6, <3>1, <3>2
    <3>3. CASE cell = [al.chip[x] EXCEPT !.pan = {}]
      BY <1>6, <3>1, <3>3
    <3>4. ASSUME NEW b \in BOOLEAN,
                 cell = [al.chip[x] EXCEPT !.on = b, !.pitch = <<None, 0>>]
          PROVE  DOMAIN cell = DOMAIN Flushed /\ cell.on \in BOOLEAN
      BY <1>6, <3>1, <3>4
    <3>5. CASE \E b \in BOOLEAN :
                  cell = [al.chip[x] EXCEPT !.on = b, !.pitch = <<None, 0>>]
      BY <3>4, <3>5, Zenon
    <3>6. QED BY <2>2, <3>2, <3>3, <3>5, Zenon
  <2>3. ASSUME cell \in Garbled(al.chip[x])
        PROVE  \/ \E b \in BOOLEAN :
                     cell = [al.chip[x] EXCEPT !.on = b, !.pitch = <<None, 0>>]
               \/ cell = [al.chip[x] EXCEPT !.timbre = None]
               \/ cell = [al.chip[x] EXCEPT !.pan = {}]
               \/ \E slot \in {1, 2} : cell = WithLevel(al.chip[x], slot, None)
    BY <2>3, Zenon DEF Garbled
  <2>4. QED BY <1>3, <1>5, <2>1, <2>2, <2>3, Zenon
<1>8. IsAl(al') /\ OnlyCell(al, al', v)
  BY <1>2, <1>5, <1>7, CellSet
<1>9. /\ al'.lists = al.lists /\ al'.voice = al.voice /\ al'.opl3 = al.opl3
      /\ al'.channel = al.channel /\ \A y \in Cells : y # x => al'.chip[y] = al.chip[y]
      /\ astray \subseteq astray' /\ x \in astray'
      /\ \A y : y \notin astray' => y \notin astray /\ y # x
  BY <1>5, <1>8 DEF OnlyCell
<1> HIDE DEF x
<1>10. SentDone /\ CallIs' /\ WalkLeft'
  BY <1>1, <1>2, <1>9, SentDoes
<1>11. Well(al, {})'
  BY <1>2, <1>8, <1>9, CellWell DEF x
<1>12. ASSUME NEW u \in Voices PROVE Reached(al, u)' => Reached(al, u)
  BY <1>1, <1>3, <1>9 DEF Reached
<1>13. \A u : u \in Playing(al') <=> u \in Playing(al)
  BY <1>9, WhoPlays
<1>14. Asked(al)'
  <2>1. \A u \in Voices : Cell(al.opl3, u) \in Cells
    BY <1>2, CellIn
  <2>2. ASSUME NEW u \in Voices, Has(al.opl3, u) PROVE Holds(al, u)'
    <3>1. Holds(al, u)
      BY <1>2, <2>2 DEF Asked
    <3>2. QED BY <1>1, <1>9, <2>1, <3>1 DEF Holds
  <2>3. ASSUME NEW u \in Playing(al') PROVE al'.voice[u].timbre # None /\ Heard(al, u)'
    <3>1. Heard(al, u) /\ u \in Voices /\ al.voice[u].timbre # None
      BY <1>2, <1>13, <2>3, Listed DEF Asked
    <3>2. Heard(al, u)'
      BY <1>1, <1>9, <1>12, <2>1, <3>1 DEF Heard
    <3>3. QED BY <1>9, <3>1, <3>2
  <2>4. QED BY <1>9, <2>2, <2>3 DEF Asked
<1>15. Underway'
  BY <1>1, <1>10 DEF SentDone, Underway
<1>16. AlInv'
  BY <1>1, <1>9, <1>10, <1>11, <1>14, <1>15, KeptSilent DEF Calls
<1>17. QED BY <1>1, <1>9, <1>10, <1>16 DEF SentDone

\* What the program does between two calls.
LEMMA SettingKeeps ==
    ASSUME AlInv, Setting, call = NoCall
    PROVE  AlInv'
<1>1. ASSUME UNCHANGED <<al, bank, held, piece, call, late, astray>>
      PROVE  AlInv'
  <2>1. Well(al, {})' /\ Asked(al)'
    BY <1>1 DEF AlInv, Well, Sounds, Asked, Holds, Heard, Reached
  <2>2. Calls'
    BY <1>1 DEF AlInv, Calls, CallIs, WalkLeft, Underway
  <2>3. QED BY <1>1, <2>1, <2>2 DEF AlInv
<1>2. CASE Restart
  BY <1>2, AlInvReset
<1>3. CASE \E m \in piece.modes : SetVoiceAllocMode(m)
  BY <1>1, <1>3 DEF SetVoiceAllocMode
<1>4. CASE \E n \in piece.limits : SetMaxMidiChannel(n)
  BY <1>1, <1>4 DEF SetMaxMidiChannel
<1>5. CASE \E b \in piece.banks : RegisterTimbreBank(b)
  BY <1>5, AlInvBank
<1>6. QED BY <1>2, <1>3, <1>4, <1>5 DEF Setting

\* A volume call of the program is for one of the channels.
LEMMA VolumesAre ==
    ASSUME piece \in Pieces, NEW s \in piece.volumes
    PROVE  s[1] \in Channels
<1>1. piece.volumes \subseteq Channels \X Nat
  BY AlAssumption
<1>2. QED BY <1>1

\* Every step keeps the invariant.
LEMMA AlInvNext == AlInv /\ [AlNext]_alVars => AlInv'
<1> SUFFICES ASSUME AlInv, [AlNext]_alVars PROVE AlInv'
  OBVIOUS
<1>1. ASSUME Interrupted, \E e \in piece.events : Happens(e) PROVE AlInv'
  BY <1>1, EventGoes
<1>2. ASSUME Interrupted, AllNotesOffStep PROVE AlInv'
  BY <1>2, EndingGoes
<1>3. ASSUME Interrupted, RunTimers PROVE AlInv'
  BY <1>3, TimersGo
<1>4. CASE Setting /\ call = NoCall
  BY <1>4, SettingKeeps
<1>5. ASSUME NEW s \in piece.volumes, VolumeCall(s[1], s[2]) PROVE AlInv'
  <2>1. s[1] \in Channels
    BY <1>5, VolumesAre DEF AlInv
  <2>2. QED BY <1>5, <2>1, VolumeCallKeeps
<1>6. CASE ReachVoice
  BY <1>6, ReachVoiceKeeps
<1>7. CASE SendLevel
  BY <1>7, SendLevelKeeps
<1>8. CASE SendAstray
  BY <1>8, SendAstrayKeeps
<1>9. CASE UNCHANGED alVars
  <2>1. Well(al, {})' /\ Asked(al)'
    BY <1>9 DEF alVars, AlInv, Well, Sounds, Asked, Holds, Heard, Reached
  <2>2. Calls'
    BY <1>9 DEF alVars, AlInv, Calls, CallIs, WalkLeft, Underway
  <2>3. QED BY <1>9, <2>1, <2>2 DEF alVars, AlInv
<1>10. QED BY <1>1, <1>2, <1>3, <1>4, <1>5, <1>6, <1>7, <1>8, <1>9 DEF AlNext, Message

\* The invariant holds, whatever songs are played and whatever volumes the program sets amid
\* them: of the registers that its calls have hit it says nothing.
THEOREM AlAlways == AlSpec => []AlInv
<1>1. QED BY AlInvInit, AlInvNext, PTL DEF AlSpec

\* Every voice is in one list, and a list reads the same from both its ends.
THEOREM VoicesKept == AlSpec => []VoicesPartitioned
<1>1. ASSUME AlInv PROVE VoicesPartitioned
  <2> DEFINE In(v) == {k \in Channels \cup {Pool} : v \in Range(VoicesOf(al, k))}
  <2>1. Placed(al, {}) /\ Kept(al.lists)
    BY <1>1 DEF AlInv, Well, Placed
  <2>2. \A k \in Channels \cup {Pool} :
           /\ IsInjective(VoicesOf(al, k))
           /\ Lists!Nodes(Lists!Mirror(al.lists), k) = Reverse(VoicesOf(al, k))
    BY <2>1, KeptLists DEF VoicesOf, K
  <2>3. ASSUME NEW v \in Present PROVE Cardinality(In(v)) = 1
    <3>1. PICK k \in K : v \in InList(al.lists, k)
      BY <2>1 DEF Present, Placed, Has
    <3>2. \A m \in K : v \in InList(al.lists, m) => m = k
      BY <2>1, <3>1, Listed
    <3>3. In(v) = {k}
      BY <3>1, <3>2 DEF VoicesOf, InList, K
    <3>4. QED BY <3>3, FS_Singleton
  <2>4. \A c \in Channels : \A v \in Range(VoicesOf(al, c)) : al.voice[v].channel = c
    BY <2>1 DEF Placed, VoicesOf, InList
  <2>5. QED BY <2>2, <2>3, <2>4 DEF VoicesPartitioned
<1>2. AlInv => VoicesPartitioned
  BY <1>1
<1>3. QED BY <1>2, AlAlways, PTL

\* No note hangs.
THEOREM NoteEnds == AlSpec => []NoNoteHangs
<1>1. AlInv => NoNoteHangs
  BY DEF AlInv, NoNoteHangs
<1>2. QED BY <1>1, AlAlways, PTL

\* The chip sounds what plays, in both its halves, but for the registers that a volume call
\* of the program has hit.
THEOREM ChipAgrees == AlSpec => []ChipSoundsWhatPlays
<1>1. AlInv => ChipSoundsWhatPlays
  BY DEF AlInv, Well, Sounds, ChipSoundsWhatPlays
<1>2. QED BY <1>1, AlAlways, PTL

\* A voice that plays is set as its channel asks, but for the registers that a volume call
\* of the program has hit, and but for the volume of a voice that such a call has missed.
THEOREM ChipObeys == AlSpec => []ChipSetAsAsked
<1>1. ASSUME AlInv PROVE ChipSetAsAsked
  <2>1. ASSUME NEW v \in Playing(al), Cell(al.opl3, v) \notin astray
        PROVE  LET voice == al.voice[v]
                   ch == al.channel[voice.channel]
                   x == Cell(al.opl3, v)
                   cell == al.chip[x]
                   timbre == bank[voice.timbre]
               IN /\ cell.timbre = voice.timbre
                  /\ ~timbre.additive => cell.level[1] = timbre.level[1]
                  /\ al.opl3 => cell.pan = PannedTo(cell, ch.pan).pan
                  /\ x \notin late /\ v \notin call.left =>
                        /\ cell.level[2] = Loudness(ch, voice, timbre, timbre.level[2])
                        /\ timbre.additive =>
                               cell.level[1] = Loudness(ch, voice, timbre, timbre.level[1])
    <3>1. v \in Voices /\ Has(al.opl3, v)
      BY <1>1, <2>1, Listed DEF AlInv, Well
    <3>2. Holds(al, v) /\ Heard(al, v) /\ al.voice[v].timbre # None
      BY <1>1, <2>1, <3>1 DEF AlInv, Asked
    <3>3. QED BY <2>1, <3>2 DEF Holds, Heard, Reached
  <2>2. QED BY <2>1 DEF ChipSetAsAsked
<1>2. AlInv => ChipSetAsAsked
  BY <1>1
<1>3. QED BY <1>2, AlAlways, PTL

-----------------------------------------------------------------------------
(* What stays in tune.                                                     *)

\* What StaysInTune says of one voice.
Stays(v) ==
    /\ \/ InTune(al, v)' \/ Untunes(v)
       \/ v \in Playing(al) /\ ~InTune(al, v)
    /\ \/ al'.chip[Cell(al'.opl3, v)].on
       \/ v \in Playing(al) /\ ~al.chip[Cell(al.opl3, v)].on
       \/ /\ ~al'.voice[v].on
          /\ \/ Wavers(al.channel[al.voice[v].channel]) \/ al.voice[v].glides
             \/ Occurs({"bend"}, al.voice[v].channel)

\* The voices are told of their pitches, with the bank as it is.
LEMMA TuneThen ==
    ASSUME bank' = bank, NEW v
    PROVE  InTune(al, v)' <=> InTune(al', v)
BY DEF InTune

\* A voice that remains as it was stays in tune.
LEMMA RemainsStays ==
    ASSUME bank' = bank, NEW v, Remains(al, al', v)
    PROVE  Stays(v)
BY TuneThen DEF Remains, Stays

\* When nothing happens to the voices they remain.
LEMMA NothingStays ==
    ASSUME bank' = bank, al' = al
    PROVE  \A v \in Playing(al') : Stays(v)
<1>1. \A v \in Playing(al') : Remains(al, al', v)
  BY DEF Remains
<1>2. QED BY <1>1, RemainsStays

\* Where voices only fade.
LEMMA FadesStay ==
    ASSUME bank' = bank, Well(al', {}), Fades(al, al')
    PROVE  \A v \in Playing(al') : Stays(v)
<1>1. \A v \in Playing(al') : Remains(al, al', v)
  BY FadesRemains DEF Well
<1>2. QED BY <1>1, RemainsStays

\* A note begins in tune, and leaves the others so.
LEMMA StruckStay ==
    ASSUME AlInv, NEW c \in Channels, NEW key \in Nat, NEW velocity,
           NoteOn(c, key, velocity)
    PROVE  \A v \in Playing(al') : Stays(v)
<1>1. StruckSo(al, al', c, key)
  BY NoteOnDoes, StruckAll DEF AlInv
<1>2. bank' = bank
  BY DEF NoteOn
<1>3. ASSUME NEW v \in Playing(al') PROVE Stays(v)
  <2>1. CASE Remains(al, al', v)
    BY <1>2, <2>1, RemainsStays
  <2>2. CASE /\ al'.chip[Cell(al'.opl3, v)].on
             /\ \/ InTune(al', v) \/ al'.voice[v].glides
                \/ Wavers(al'.channel[al'.voice[v].channel])
    <3>1. InTune(al, v)' \/ Untunes(v)
      BY <1>2, <2>2, TuneThen DEF Untunes
    <3>2. QED BY <2>2, <3>1 DEF Stays
  <2>3. QED BY <1>1, <1>3, <2>1, <2>2 DEF StruckSo
<1>4. QED BY <1>3

\* The wheel brings the voices of its channel in tune.
LEMMA BendStays ==
    ASSUME AlInv, NEW e \in piece.events, e[1] = "bend", Happens(e), SetPitchBend(e[2], e[3])
    PROVE  \A v \in Playing(al') : Stays(v)
<1> DEFINE c == e[2]
<1>1. /\ c \in Channels /\ Well(al, {}) /\ Ranges(al) /\ Asked(al) /\ bank' = bank
  BY EventIs DEF AlInv, SetPitchBend
<1>2. BendDone(al, al', c)
  BY <1>1, BendDoes DEF SetPitchBend
<1>3. Ranges(al')
  BY <1>1, <1>2, BendGoes DEF Goes
<1>4. /\ al'.lists = al.lists /\ al'.voice = al.voice /\ al'.opl3 = al.opl3
      /\ \A v : v \in Playing(al') <=> v \in Playing(al)
  BY <1>2, WhoPlays DEF BendDone
<1>5. ASSUME NEW v \in Playing(al'), v \notin InList(al.lists, c)
      PROVE  Stays(v)
  <2>1. v \in Playing(al) /\ al.voice[v].channel \in Channels \ {c}
    BY <1>1, <1>4, <1>5, Listed DEF Well
  <2>2. /\ al'.chip[Cell(al.opl3, v)] = al.chip[Cell(al.opl3, v)]
        /\ al'.channel[al.voice[v].channel] = al.channel[al.voice[v].channel]
    BY <1>2, <1>5, <2>1 DEF BendDone
  <2>3. SameWheel(al.channel[al.voice[v].channel], al'.channel[al.voice[v].channel])
    BY <2>2 DEF SameWheel
  <2>4. Remains(al, al', v)
    BY <1>4, <2>1, <2>2, <2>3, RemainsSo
  <2>5. QED BY <1>1, <2>4, RemainsStays
<1>6. ASSUME NEW v \in Playing(al'), v \in InList(al.lists, c)
      PROVE  Stays(v)
  <2>1. v \in Playing(al) /\ al.voice[v].channel = c /\ al'.voice[v].channel = c
    BY <1>1, <1>4, <1>6, Listed DEF Well, Placed
  <2>2. /\ al'.chip[Cell(al'.opl3, v)].on = al'.voice[v].on
        /\ al'.chip[Cell(al'.opl3, v)].pitch = PitchOf(al'.channel[c], al'.voice[v], bank)
    BY <1>2, <1>4, <1>6 DEF BendDone
  <2>3. Ranged(al'.channel[c]) /\ al'.voice[v].key \in Nat
    BY <1>1, <1>3, <1>6 DEF Ranges
  <2>4. InTune(al, v)' \/ Untunes(v)
    <3>1. CASE \/ Wavers(al'.channel[c]) \/ al'.voice[v].glides
               \/ PatchOf(al'.channel[c], al'.voice[v].key) # al'.voice[v].timbre
      BY <2>1, <3>1 DEF Untunes
    <3>2. CASE /\ ~Wavers(al'.channel[c]) /\ ~al'.voice[v].glides
               /\ PatchOf(al'.channel[c], al'.voice[v].key) = al'.voice[v].timbre
      BY <1>1, <2>1, <2>2, <2>3, <3>2, ToldInTune, TuneThen
    <3>3. QED BY <3>1, <3>2
  <2>5. Occurs({"bend"}, al.voice[v].channel)
    BY <2>1 DEF Occurs
  <2>6. QED BY <2>2, <2>4, <2>5 DEF Stays
<1>7. QED BY <1>5, <1>6

\* A controller leaves the pitches as they are; some change what is in tune.
LEMMA ControlStays ==
    ASSUME AlInv, bank' = bank, NEW e \in piece.events, Happens(e), e[2] \in Channels,
           ControlDone(al, al', e[2], e[1])
    PROVE  \A v \in Playing(al') : Stays(v)
<1> DEFINE c == e[2]
<1>1. Turns(al, al', c) /\ Well(al, {}) /\ Well(al', {})
  BY DEF ControlDone, AlInv
<1>2. ASSUME NEW v \in Playing(al')
      PROVE  Stays(v)
  <2> DEFINE d == al.voice[v].channel
  <2>1. v \in Playing(al) /\ al'.opl3 = al.opl3
    BY <1>1, <1>2, WhoPlays DEF Turns
  <2>2. d \in Channels
    BY <1>1, <2>1, Listed DEF Well
  <2>3. /\ al'.voice[v].channel = d /\ al'.voice[v].key = al.voice[v].key
        /\ al'.voice[v].timbre = al.voice[v].timbre
        /\ al'.chip[Cell(al.opl3, v)].pitch = al.chip[Cell(al.opl3, v)].pitch
        /\ al'.chip[Cell(al.opl3, v)].on = al.chip[Cell(al.opl3, v)].on
    BY <1>1, <1>2 DEF Turns, SameNote, Fresh
  <2>4. CASE d # c
    <3>1. SameWheel(al.channel[d], al'.channel[d])
      BY <1>1, <2>2, <2>4 DEF Turns, SameChannel, SameWheel, Channel
    <3>2. QED BY <2>1, <2>3, <3>1, RemainsSo, RemainsStays
  <2>5. CASE d = c /\ e[1] \notin {"reset", "dataMsb", "dataLsb"}
    <3>1. SameWheel(al.channel[d], al'.channel[d])
      BY <2>5 DEF ControlDone
    <3>2. QED BY <2>1, <2>3, <3>1, RemainsSo, RemainsStays
  <2>6. CASE d = c /\ e[1] \in {"reset", "dataMsb", "dataLsb"}
    <3>1. Occurs({"modulation", "reset", "dataMsb", "dataLsb", "touch"}, al'.voice[v].channel)
      BY <2>3, <2>6 DEF Occurs
    <3>2. QED BY <2>1, <2>3, <3>1 DEF Stays, Untunes
  <2>7. QED BY <2>4, <2>5, <2>6
<1>3. QED BY <1>2

\* A tick sets the pitch of what wavers or glides, and of nothing else.
LEMMA TicksStay ==
    ASSUME AlInv, RunTimers, Interrupted
    PROVE  \A v \in Playing(al') : Stays(v)
<1>1. /\ Drifts(al, al') /\ Well(al, {}) /\ al'.opl3 = al.opl3 /\ bank' = bank
  BY TimersGo DEF Drifts, AlInv, RunTimers
<1>2. ASSUME NEW v \in Playing(al')
      PROVE  Stays(v)
  <2> DEFINE d == al.voice[v].channel
             x == Cell(al.opl3, v)
  <2>1. v \in Playing(al) /\ v \in Voices /\ d \in Channels
    <3>1. v \in Playing(al)
      BY <1>1, <1>2, DriftsPlays
    <3>2. QED BY <1>1, <3>1, Listed DEF Well
  <2>2. /\ al'.voice[v].channel = d /\ al'.voice[v].key = al.voice[v].key
        /\ al'.voice[v].timbre = al.voice[v].timbre
        /\ Wavers(al'.channel[d]) <=> Wavers(al.channel[d])
    BY <1>1, <2>1, DriftsPlays
  <2>3. SameWheel(al.channel[d], al'.channel[d])
    BY <1>1, <2>1 DEF Drifts, SameWheel, Channel
  <2>4. CASE al'.chip[x] = al.chip[x]
    BY <1>1, <2>1, <2>2, <2>3, <2>4, RemainsSo, RemainsStays
  <2>5. CASE al'.chip[x] # al.chip[x]
    <3>1. /\ al'.chip[x].on = al'.voice[v].on
          /\ al.voice[v].glides \/ Wavers(al.channel[d])
      BY <1>1, <2>1, <2>5 DEF Drifts
    <3>2. Untunes(v)
      BY <2>2, <3>1 DEF Untunes
    <3>3. QED BY <1>1, <3>1, <3>2 DEF Stays
  <2>6. QED BY <2>4, <2>5
<1>3. QED BY <1>2

\* A restart and a new bank find nothing that plays, or leave nothing.
LEMMA NonePlays ==
    ASSUME AlInv, NEW b, Restart \/ RegisterTimbreBank(b)
    PROVE  Playing(al') = {}
<1>1. ASSUME Restart PROVE Playing(al') = {}
  <2>1. PICK opl3 \in piece.cards : al' = ResetVoices(opl3, al.voice, Reset(al.chip, opl3))
    BY <1>1 DEF Restart
  <2>2. opl3 \in BOOLEAN /\ Well(al, {}) /\ Playing(al) = {}
    BY <1>1, <2>1, AlAssumption DEF AlInv, Restart
  <2> DEFINE chip == Reset(al.chip, opl3)
  <2>3. /\ DOMAIN chip = Cells
        /\ \A x \in Cells : DOMAIN chip[x] = DOMAIN Flushed /\ chip[x].on \in BOOLEAN
                            /\ (x \notin astray => ~chip[x].on)
    BY <2>2, ShutSilent
  <2> HIDE DEF chip
  <2>4. QED BY <2>1, <2>2, <2>3, ResetGoes DEF chip
<1>2. ASSUME RegisterTimbreBank(b) PROVE Playing(al') = {}
  <2>1. al' = al /\ \A v \in Voices : al.voice[v].timbre = None
    BY <1>2 DEF RegisterTimbreBank
  <2>2. \A v \in Playing(al) : v \in Voices /\ al.voice[v].timbre # None
    BY Listed DEF AlInv, Well, Asked
  <2>3. QED BY <2>1, <2>2
<1>3. QED BY <1>1, <1>2

\* The events of the song.
LEMMA EventStays ==
    ASSUME AlInv, NEW e \in piece.events, Happens(e)
    PROVE  \A v \in Playing(al') : Stays(v)
<1> DEFINE c == e[2]
<1>1. /\ c \in Channels /\ (e[1] = "note" => <<c, e[3]>> \in Notes)
      /\ e[1] = "program" => e[3] \in 0..127
      /\ e[1] \in Controls \cup {"note", "touch"} => e[3] \in Nat
  BY EventIs DEF AlInv
<1>2. Well(al, {})
  BY DEF AlInv
<1>3. CASE e[1] = "note" /\ NoteOn(c, e[3], e[4])
  BY <1>1, <1>3, StruckStay
<1>4. CASE e[1] = "note" /\ KeyUp(c, e[3])
  <2>1. Well(al', {}) /\ Fades(al, al') /\ bank' = bank
    BY <1>1, <1>2, <1>4, NoteOffDoes DEF KeyUp
  <2>2. QED BY <2>1, FadesStay
<1>5. CASE e[1] = "bend" /\ SetPitchBend(c, e[3])
  BY <1>5, BendStays
<1>6. CASE e[1] = "program" /\ ProgramChange(c, e[3])
  <2>1. e[3] \in 0..127
    BY <1>1, <1>6
  <2>2. ControlDone(al, al', c, "program") /\ bank' = bank
    <3>1. al' = [al EXCEPT !.channel[c].program = e[3]] /\ bank' = bank
      BY <1>6 DEF ProgramChange
    <3>2. ControlDone(al, [al EXCEPT !.channel[c].program = e[3]], c, "program")
      BY <1>1, <1>2, <2>1, ProgramDone, Zenon
    <3>3. QED BY <3>1, <3>2
  <2>3. QED BY <1>1, <1>6, <2>2, ControlStays
<1>7. CASE e[1] = "touch" /\ ChannelAfterTouch(c, e[3])
  <2>1. e[3] \in Nat
    BY <1>1, <1>7
  <2>2. ControlDone(al, al', c, "touch") /\ bank' = bank
    BY <1>1, <1>2, <1>7, <2>1, TouchDone DEF ChannelAfterTouch
  <2>3. QED BY <1>1, <1>7, <2>2, ControlStays
<1>8. CASE e[1] = "off" /\ AllNotesOff(c)
  BY <1>8, NothingStays DEF AllNotesOff
<1>9. CASE e[1] \in Controls /\ ControlChange(c, e[1], e[3])
  <2>1. e[3] \in Nat
    BY <1>1, <1>9
  <2>2. ControlDone(al, al', c, e[1]) /\ bank' = bank
    BY <1>1, <1>2, <1>9, <2>1, ControlDoes DEF ControlChange
  <2>3. QED BY <1>1, <2>2, ControlStays
<1>10. QED BY <1>3, <1>4, <1>5, <1>6, <1>7, <1>8, <1>9 DEF Happens

\* A message: a note begins in tune, and a voice that is in tune stays so but for what the
\* code does not send to the chip.
LEMMA MessageStays ==
    ASSUME AlInv, Message, Interrupted
    PROVE  \A v \in Playing(al') : Stays(v)
<1>1. CASE \E e \in piece.events : Happens(e)
  BY <1>1, EventStays
<1>2. CASE AllNotesOffStep
  <2>1. bank' = bank /\ Well(al, {})
    BY <1>2 DEF AllNotesOffStep, AlInv
  <2>2. CASE al' = al
    BY <2>1, <2>2, NothingStays
  <2>3. CASE al' # al
    BY <1>2, <2>1, <2>3, EndingDoes, FadesStay
  <2>4. QED BY <2>2, <2>3
<1>3. CASE RunTimers
  BY <1>3, TicksStay
<1>4. QED BY <1>1, <1>2, <1>3 DEF Message

\* What the program does between two calls.
LEMMA SettingStays ==
    ASSUME AlInv, Setting
    PROVE  \A v \in Playing(al') : Stays(v)
<1>1. CASE Restart
  BY <1>1, NonePlays
<1>2. CASE \E m \in piece.modes : SetVoiceAllocMode(m)
  BY <1>2, NothingStays DEF SetVoiceAllocMode
<1>3. CASE \E n \in piece.limits : SetMaxMidiChannel(n)
  BY <1>3, NothingStays DEF SetMaxMidiChannel
<1>4. CASE \E b \in piece.banks : RegisterTimbreBank(b)
  BY <1>4, NonePlays
<1>5. QED BY <1>1, <1>2, <1>3, <1>4 DEF Setting

\* The volume of a channel has nothing to do with its pitch.
LEMMA VolumeStays ==
    ASSUME AlInv, NEW c \in Channels, NEW volume, VolumeCall(c, volume)
    PROVE  \A v \in Playing(al') : Stays(v)
<1> DEFINE r == [al.channel[c] EXCEPT !.volume = Clamped(volume)]
<1>1. /\ al'.lists = al.lists /\ al'.voice = al.voice /\ al'.opl3 = al.opl3
      /\ al'.chip = al.chip /\ al'.channel[c] = r
      /\ \A d \in Channels \ {c} : al'.channel[d] = al.channel[d]
  BY VolumeCallKeeps DEF PutDone
<1>2. SameWheel(al.channel[c], r)
  <2>1. DOMAIN al.channel[c] = DOMAIN Channel(FALSE)
    BY DEF AlInv, Well, IsAl
  <2>2. QED BY <2>1 DEF SameWheel, Channel
<1> HIDE DEF r
<1>3. ASSUME NEW v \in Playing(al') PROVE Stays(v)
  <2>1. v \in Playing(al) /\ al.voice[v].channel \in Channels
    BY <1>1, <1>3, WhoPlays, Listed DEF AlInv, Well
  <2>2. SameWheel(al.channel[al.voice[v].channel], al'.channel[al.voice[v].channel])
    BY <1>1, <1>2, <2>1 DEF SameWheel
  <2>3. Remains(al, al', v)
    BY <1>1, <2>1, <2>2, RemainsSo
  <2>4. bank' = bank
    BY DEF VolumeCall
  <2>5. QED BY <2>3, <2>4, RemainsStays
<1>4. QED BY <1>3

\* The pitch of a voice whose registers are as they were.
LEMMA SentRemains ==
    ASSUME AlInv, bank' = bank, al'.lists = al.lists, al'.voice = al.voice,
           al'.opl3 = al.opl3, al'.channel = al.channel, NEW v \in Playing(al'),
           al'.chip[Cell(al.opl3, v)].on = al.chip[Cell(al.opl3, v)].on,
           al'.chip[Cell(al.opl3, v)].pitch = al.chip[Cell(al.opl3, v)].pitch
    PROVE  Stays(v)
<1>1. v \in Playing(al)
  BY WhoPlays
<1>2. SameWheel(al.channel[al.voice[v].channel], al'.channel[al.voice[v].channel])
  BY DEF SameWheel
<1>3. Remains(al, al', v)
  BY <1>1, <1>2, RemainsSo
<1>4. QED BY <1>3, RemainsStays

\* A level that is sent.
LEMMA LevelStays ==
    ASSUME AlInv, SendLevel
    PROVE  \A v \in Playing(al') : Stays(v)
<1>1. /\ al'.lists = al.lists /\ al'.voice = al.voice /\ al'.opl3 = al.opl3
      /\ al'.channel = al.channel
      /\ \A x \in Cells : /\ al'.chip[x].on = al.chip[x].on
                           /\ al'.chip[x].pitch = al.chip[x].pitch
  BY SendLevelKeeps
<1>2. bank' = bank
  BY DEF SendLevel
<1>3. ASSUME NEW v \in Playing(al') PROVE Stays(v)
  <2>1. v \in Playing(al)
    BY <1>1, <1>3, WhoPlays
  <2>2. v \in Voices /\ al.opl3 \in BOOLEAN
    BY <2>1, Listed DEF AlInv, Well, IsAl
  <2>3. Cell(al.opl3, v) \in Cells
    BY <2>2, CellIn
  <2>4. QED BY <1>1, <1>2, <1>3, <2>3, SentRemains
<1>4. QED BY <1>3

\* A note begins in tune, a voice that is in tune stays so but for what the code
\* does not send to the chip, and what sounds goes on sounding until it is freed; but for
\* the registers that an interrupted volume call of the program hits.
THEOREM TuneStays == AlSpec => StaysInTune
<1>1. ASSUME AlInv, AlNext
      PROVE  \A v \in Playing(al') : IsHit(v) \/ Stays(v)
  <2>1. CASE Message /\ Interrupted
    BY <1>1, <2>1, MessageStays
  <2>2. CASE Setting
    BY <1>1, <2>2, SettingStays
  <2>3. ASSUME NEW s \in piece.volumes, VolumeCall(s[1], s[2])
        PROVE  \A v \in Playing(al') : Stays(v)
    <3>1. s[1] \in Channels
      BY <1>1, <2>3, VolumesAre DEF AlInv
    <3>2. QED BY <1>1, <2>3, <3>1, VolumeStays
  <2>4. CASE ReachVoice
    BY <2>4, NothingStays DEF ReachVoice
  <2>5. CASE SendLevel
    BY <1>1, <2>5, LevelStays
  <2>6. CASE SendAstray
    <3>1. /\ al'.lists = al.lists /\ al'.voice = al.voice /\ al'.opl3 = al.opl3
          /\ al'.channel = al.channel /\ call.stale /\ ~call'.torn
      BY <1>1, <2>6, SendAstrayKeeps
    <3>2. bank' = bank
      BY <2>6 DEF SendAstray
    <3>3. ASSUME NEW v \in Playing(al') PROVE IsHit(v) \/ Stays(v)
      <4>1. CASE al'.chip[Cell(al.opl3, v)] # al.chip[Cell(al.opl3, v)]
        BY <3>1, <4>1 DEF IsHit
      <4>2. CASE al'.chip[Cell(al.opl3, v)] = al.chip[Cell(al.opl3, v)]
        BY <1>1, <3>1, <3>2, <3>3, <4>2, SentRemains
      <4>3. QED BY <4>1, <4>2
    <3>4. QED BY <3>3
  <2>7. QED BY <1>1, <2>1, <2>2, <2>3, <2>4, <2>5, <2>6 DEF AlNext
<1>2. ASSUME AlInv, [AlNext]_alVars
      PROVE  [\A v \in Playing(al)' :
                \/ IsHit(v)
                \/ /\ \/ InTune(al, v)' \/ Untunes(v)
                      \/ v \in Playing(al) /\ ~InTune(al, v)
                   /\ \/ al'.chip[Cell(al'.opl3, v)].on
                      \/ v \in Playing(al) /\ ~al.chip[Cell(al.opl3, v)].on
                      \/ /\ ~al'.voice[v].on
                         /\ \/ Wavers(al.channel[al.voice[v].channel]) \/ al.voice[v].glides
                            \/ Occurs({"bend"}, al.voice[v].channel)]_alVars
  <2>1. CASE AlNext
    <3>1. Playing(al)' = Playing(al')
      BY DEF Playing, VoicesOf
    <3>2. QED BY <1>1, <1>2, <2>1, <3>1 DEF Stays
  <2>2. QED BY <1>2, <2>1
<1>3. QED BY <1>2, AlAlways, PTL DEF AlSpec, StaysInTune
=============================================================================
