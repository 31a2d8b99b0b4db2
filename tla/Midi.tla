-------------------------------- MODULE Midi --------------------------------
(***************************************************************************)
(* The sequencer of source/midi.c: the tracks of a song, which             *)
(* _MIDI_ServiceRoutine plays tick by tick from the timer interrupt, their *)
(* loops, and the calls with which the program moves the song pointer.     *)
(*                                                                         *)
(* A service runs to its end once it has begun, and does nothing while     *)
(* _MIDI_SongActive is FALSE, as it is during a seek: so one activity, a   *)
(* service or a seek, runs at a time, and a step of it is an event, the    *)
(* end of a track's turn or the end of the tick.  Events are records: the  *)
(* bytes of the file, running status and the sound device are left out.    *)
(***************************************************************************)
EXTENDS Integers, Sequences, FiniteSets

CONSTANTS
    Songs,       \* the songs the program plays: see Song
    Card,        \* the EMIDI number of the music card
    AllCards,    \* EMIDI_ALL_CARDS
    Division,    \* the ticks of a quarter note
    Ticks, Times, Positions,   \* where the program seeks to: see Value
    Contexts,    \* the contexts it may set: 1 to EMIDI_NUM_CONTEXTS - 1
    MaxPosition  \* bound: where the count of ticks stays once it gets there

Infinite == -1          \* EMIDI_INFINITE

\* A song is a sequence of tracks, a track a sequence of events: `delta' ticks
\* after the one before it, an event of a kind that the sequencer acts upon.
Kinds == {"note", "begin", "end", "songBegin", "songEnd", "contextBegin", "contextEnd",
          "tempo", "meter", "include", "exclude", "eot"}

Song(s) ==
    /\ Len(s) \in Nat \ {0}
    /\ \A t \in 1..Len(s) :
        /\ Len(s[t]) \in Nat \ {0}
        /\ \A i \in 1..Len(s[t]) : s[t][i].delta \in Nat /\ s[t][i].kind \in Kinds
        /\ \A i \in 1..Len(s[t]) : s[t][i].kind = "eot" <=> i = Len(s[t])

ASSUME ConstantsAssumption ==
    /\ \A s \in Songs : Song(s)
    /\ Card \in Nat /\ AllCards \in Nat
    /\ Division \in Nat \ {0} /\ MaxPosition \in Nat \ {0}
    /\ Contexts \subseteq Nat \ {0}

VARIABLES
    song, loaded, active, loop,   \* the song, and its three _MIDI_ flags
    pos, delay, on,        \* of each track: its next event, the ticks until
                           \* then, and whether it has not ended
    saved,                 \* of each track: context[ 0 ], where a loop goes back to
    activeTracks,          \* _MIDI_ActiveTracks
    context, current,      \* _MIDI_Context, and of each track currentcontext
    contexts,              \* of each track: context[ 1 ] and on
    clock,                 \* _MIDI_Time, _MIDI_Tick, _MIDI_Beat ... : see Start
    position,              \* _MIDI_PositionInTicks
    at, track, timeSet,    \* what runs, its track (Tracks is done) and TimeSet
    goal,                  \* where the seek goes to
    ended                  \* the song has been played to its end

tracks == <<pos, delay, on, saved, activeTracks, context, current>>
flags  == <<song, loaded, active, loop, contexts>>
run    == <<at, track, timeSet, goal>>
vars   == <<flags, tracks, clock, position, run, ended>>

Tracks == Len(song)
Event(t) == song[t][pos[t]]

-----------------------------------------------------------------------------
\* The clock of the song.  `perTick' is the time one tick takes.

Start(perTick) ==
    [time |-> 0, perTick |-> perTick, tick |-> 0, beat |-> 1, measure |-> 1,
     beats |-> 4, ticks |-> Division]

\* _MIDI_AdvanceTick; its loops run once at most, as tick <= ticks and
\* beat <= beats.  A beat but the first runs from tick 1 to tick `ticks'.
AdvanceTick(c) ==
    LET newBeat == c.tick + 1 > c.ticks
        newBar  == newBeat /\ c.beat + 1 > c.beats
    IN [c EXCEPT !.time = @ + c.perTick,
                 !.tick = IF newBeat THEN @ + 1 - c.ticks ELSE @ + 1,
                 !.beat = IF newBar THEN @ + 1 - c.beats
                          ELSE IF newBeat THEN @ + 1 ELSE @,
                 !.measure = IF newBar THEN @ + 1 ELSE @]

\* _MIDI_MetaEvent: the tempo, and the meter, which begins a new measure.
Timed(c, e) ==
    IF e.kind = "tempo" THEN [c EXCEPT !.perTick = e.value]
    ELSE IF e.kind = "meter"
    THEN [c EXCEPT !.measure = IF c.tick > 0 \/ c.beat > 1 THEN @ + 1 ELSE @,
                   !.tick = 0, !.beat = 1,
                   !.beats = e.value[1], !.ticks = e.value[2]]
    ELSE c

\* RELATIVE_BEAT.
RelativeBeat(measure, beat, tick) == tick + beat * 512 + measure * 65536

\* What MIDI_SetSongTick, MIDI_SetSongTime and MIDI_SetSongPosition compare.
Value(g, c, p) ==
    CASE g.by = "tick" -> p
      [] g.by = "time" -> c.time
      [] g.by = "beat" -> RelativeBeat(c.measure, c.beat, c.tick)

-----------------------------------------------------------------------------
\* What the functions share.

\* _MIDI_InitEMIDI: does the card play the track?  The first designation for
\* another card excludes the track, later ones for this card include it.
AffectsCard(e) == e.value = AllCards \/ e.value = Card

Included(events) ==
    LET Decides(i) ==
            \/ events[i].kind = "include" /\ AffectsCard(events[i])
            \/ events[i].kind = "exclude" /\ AffectsCard(events[i])
            \/ /\ events[i].kind = "include"
               /\ \A j \in 1..(i - 1) : events[j].kind # "include"
        last == {i \in DOMAIN events :
                    Decides(i) /\ \A j \in (i + 1)..Len(events) : ~Decides(j)}
    IN \A i \in last : events[i].kind = "include" /\ AffectsCard(events[i])

\* What context[ 0 ] is before a loop has begun; only `count' matters then.
NoLoop == [count |-> 0, pos |-> 1, delay |-> 0, on |-> FALSE, clock |-> Start(0)]

\* _MIDI_ResetTracks for song s.  Its callers keep the tempo.
ResetTracks(s, perTick) ==
    /\ pos' = [t \in 1..Len(s) |-> 1]
    /\ delay' = [t \in 1..Len(s) |-> s[t][1].delta]
    /\ on' = [t \in 1..Len(s) |-> Included(s[t])]
    /\ saved' = [t \in 1..Len(s) |-> NoLoop]
    /\ activeTracks' = Cardinality({t \in 1..Len(s) : Included(s[t])})
    /\ context' = 0 /\ current' = [t \in 1..Len(s) |-> 0]
    /\ clock' = Start(perTick)
    /\ position' = 0

\* _MIDI_InitEMIDI walks each track to its end, with the clock, and notes where
\* its contexts begin.  The tempo one track leaves is the next one's first.
NoContext == [pos |-> 0, count |-> 0, start |-> 0, clock |-> Start(0)]

Walked(events, perTick) ==
    LET ticks(c, n) == LET after[i \in 0..n] == IF i = 0 THEN c ELSE AdvanceTick(after[i - 1])
                       IN after[n]
        step(w, i, e) ==
            LET c == ticks(w.clock, e.delta)
                timed == [w EXCEPT !.clock = Timed(c, e)]
            IN CASE e.kind \in {"begin", "songBegin"} ->
                        [timed EXCEPT !.count = IF e.value = 0 THEN Infinite ELSE e.value,
                                      !.start = i + 1]
                 [] e.kind \in {"end", "songEnd"} -> [timed EXCEPT !.count = 0, !.start = 0]
                 [] e.kind = "contextBegin" ->
                        [timed EXCEPT !.contexts[e.value] =
                            [pos |-> i + 1, count |-> w.count, start |-> w.start, clock |-> c]]
                 [] OTHER -> timed
        after[i \in 0..Len(events)] ==
            IF i = 0
            THEN [clock |-> Start(perTick), count |-> 0, start |-> 0,
                  contexts |-> [k \in Contexts |-> NoContext]]
            ELSE step(after[i - 1], i, events[i])
    IN after[Len(events)]

InitEMIDI(s, perTick) ==
    LET walk[t \in 1..Len(s)] ==
            Walked(s[t], IF t = 1 THEN perTick ELSE walk[t - 1].clock.perTick)
    IN [t \in 1..Len(s) |-> walk[t].contexts]

-----------------------------------------------------------------------------
(* The program.                                                            *)

Init ==
    /\ song = <<>> /\ loaded = FALSE /\ active = FALSE /\ loop = FALSE
    /\ pos = <<>> /\ delay = <<>> /\ on = <<>> /\ saved = <<>> /\ activeTracks = 0
    /\ context = 0 /\ current = <<>> /\ contexts = <<>>
    /\ clock = Start(1) /\ position = 0
    /\ at = "idle" /\ track = 1 /\ timeSet = FALSE
    /\ goal = [by |-> "tick", value |-> 0]
    /\ ended = FALSE

\* MIDI_PlaySong sets a tempo of its own.  MUSIC_PlaySong, which calls it, has
\* called MIDI_StopSong.
PlaySong(s, flag) ==
    /\ at = "idle" /\ ~loaded
    /\ song' = s /\ loop' = flag /\ loaded' = TRUE /\ active' = TRUE
    /\ contexts' = InitEMIDI(s, clock.perTick)
    /\ ResetTracks(s, 1)
    /\ ended' = FALSE
    /\ UNCHANGED run

\* MIDI_StopSong; the memory of the tracks is freed and not read any more.
StopSong ==
    /\ at = "idle" /\ loaded
    /\ loaded' = FALSE /\ active' = FALSE
    /\ ResetTracks(song, clock.perTick)
    /\ UNCHANGED <<song, loop, contexts, run, ended>>

PauseSong ==
    /\ at = "idle" /\ loaded /\ active' = FALSE
    /\ UNCHANGED <<song, loaded, loop, contexts, tracks, clock, position, run, ended>>

ContinueSong ==
    /\ at = "idle" /\ loaded /\ active' = TRUE
    /\ UNCHANGED <<song, loaded, loop, contexts, tracks, clock, position, run, ended>>

SetLoopFlag(flag) ==
    /\ at = "idle" /\ loop' = flag
    /\ UNCHANGED <<song, loaded, active, contexts, tracks, clock, position, run, ended>>

SetContext(k) ==
    /\ at = "idle" /\ context' = k
    /\ UNCHANGED <<flags, pos, delay, on, saved, activeTracks, current, clock, position,
                   run, ended>>

\* The song is paused, and starts again from the beginning when it is past the
\* goal; then it is moved on tick by tick (SeekTest and SeekDone).
SetSong(g) ==
    /\ at = "idle" /\ loaded
    /\ active' = FALSE
    /\ IF g.value < Value(g, clock, position)
       THEN ResetTracks(song, clock.perTick)
       ELSE UNCHANGED <<tracks, clock, position>>
    /\ at' = "seek" /\ track' = 0 /\ goal' = g
    /\ UNCHANGED <<song, loaded, loop, contexts, timeSet, ended>>

MIDI_SetSongTick(ticks) == SetSong([by |-> "tick", value |-> ticks])

MIDI_SetSongTime(time) == SetSong([by |-> "time", value |-> time])

MIDI_SetSongPosition(measure, beat, tick) ==
    SetSong([by |-> "beat", value |-> RelativeBeat(measure, beat, tick)])

\* The condition of the loop that follows; behind it, MIDI_ContinueSong.
SeekTest ==
    /\ at = "seek" /\ track = 0
    /\ IF Value(goal, clock, position) < goal.value
       THEN timeSet' = FALSE /\ UNCHANGED <<active, at>>
       ELSE active' = TRUE /\ at' = "idle" /\ UNCHANGED timeSet
    /\ track' = 1
    /\ UNCHANGED <<song, loaded, loop, contexts, tracks, clock, position, goal, ended>>

-----------------------------------------------------------------------------
(* One tick: _MIDI_ServiceRoutine in the interrupt, _MIDI_ProcessNextTick  *)
(* in a seek.                                                              *)

\* The timer interrupt calls the service of an active song.
Tick ==
    /\ at = "idle" /\ loaded /\ active
    /\ at' = "service" /\ track' = 1 /\ timeSet' = FALSE
    /\ UNCHANGED <<flags, tracks, clock, position, goal, ended>>

\* It is the turn of an event of track t.
EventDue(t) ==
    /\ at \in {"service", "seek"} /\ track = t /\ t \in 1..Tracks
    /\ on[t] /\ delay[t] = 0

\* The track goes on behind event i: _MIDI_ReadDelta.
GoOn(t, i) ==
    /\ pos' = [pos EXCEPT ![t] = i + 1]
    /\ delay' = [delay EXCEPT ![t] = song[t][i + 1].delta]

\* The tempo, the meter, and what _MIDI_InitEMIDI has seen to.
Pass(t) ==
    /\ GoOn(t, pos[t])
    /\ clock' = Timed(clock, Event(t))
    /\ UNCHANGED <<flags, on, saved, activeTracks, context, current, position, run, ended>>

Passed == {"tempo", "meter", "include", "exclude", "contextBegin"}

\* A note is played ...
PlayEvent(t) ==
    /\ at = "service" /\ EventDue(t) /\ Event(t).kind \in Passed \cup {"note"}
    /\ Pass(t)

\* ... and passed over in silence in a seek.
SkipEvent(t) ==
    /\ at = "seek" /\ EventDue(t) /\ Event(t).kind \in Passed \cup {"note"}
    /\ Pass(t)

\* MIDI_END_OF_TRACK.
EndOfTrack(t) ==
    /\ EventDue(t) /\ Event(t).kind = "eot"
    /\ on' = [on EXCEPT ![t] = FALSE]
    /\ activeTracks' = activeTracks - 1
    /\ UNCHANGED <<flags, pos, delay, saved, context, current, clock, position, run, ended>>

\* (Mutant: a song loop takes its own track back only.)
LoopedAlone(t, kind) == {t}

\* The tracks a loop event is about.
Looped(t, kind) == IF Event(t).kind = kind THEN 1..Tracks ELSE {t}

\* EMIDI_LOOP_START, EMIDI_SONG_LOOP_START: the loop goes back to here.
LoopStart(t) ==
    /\ EventDue(t) /\ Event(t).kind \in {"begin", "songBegin"}
    /\ LET count == IF Event(t).value = 0 THEN Infinite ELSE Event(t).value
           here(u) == [count |-> count, pos |-> IF u = t THEN pos[u] + 1 ELSE pos[u],
                       delay |-> delay[u], on |-> on[u], clock |-> clock]
       IN saved' = [u \in 1..Tracks |->
                       IF u \in Looped(t, "songBegin") THEN here(u) ELSE saved[u]]
    /\ GoOn(t, pos[t])
    /\ UNCHANGED <<flags, on, activeTracks, context, current, clock, position, run, ended>>

\* (Mutant: the track that goes back is counted twice.)
NotRewoundAll(t, S) == IF S = {t} THEN activeTracks ELSE 0

\* How many tracks are active that the end of a loop, in track t and about S,
\* leaves alone.
NotRewound(t, S) == IF S = {t} THEN activeTracks - 1 ELSE 0

\* (Mutant: a loop is not counted down.)
LeftAsIs(count) == count

\* How often a loop still goes back.
Left(count) == IF count = Infinite THEN count ELSE count - 1

\* EMIDI_LOOP_END, EMIDI_SONG_LOOP_END.
LoopEnd(t) ==
    /\ EventDue(t) /\ Event(t).kind \in {"end", "songEnd"}
    /\ IF saved[t].count = 0
       THEN /\ GoOn(t, pos[t])
            /\ UNCHANGED <<on, saved, activeTracks, clock, timeSet>>
       ELSE LET S == Looped(t, "songEnd")
                first == CHOOSE u \in S : \A v \in S : u <= v
            IN /\ saved' = [u \in 1..Tracks |->
                    IF u \in S THEN [saved[u] EXCEPT !.count = Left(@)] ELSE saved[u]]
               /\ pos' = [u \in 1..Tracks |-> IF u \in S THEN saved[u].pos ELSE pos[u]]
               /\ delay' = [u \in 1..Tracks |->
                    IF u = t THEN song[t][saved[t].pos].delta
                    ELSE IF u \in S THEN saved[u].delay ELSE delay[u]]
               /\ on' = [u \in 1..Tracks |-> IF u \in S THEN saved[u].on ELSE on[u]]
               /\ activeTracks' =
                    NotRewound(t, S) + Cardinality({u \in S : saved[u].on})
               /\ clock' = IF timeSet THEN clock ELSE saved[first].clock
               /\ timeSet' = TRUE
    /\ UNCHANGED <<flags, context, current, position, at, track, goal, ended>>

\* EMIDI_CONTEXT_END: the track goes over to the context the program has set.
ContextEnd(t) ==
    /\ EventDue(t) /\ Event(t).kind = "contextEnd"
    /\ IF current[t] = context \/ contexts[t][context].pos = 0
       THEN GoOn(t, pos[t]) /\ UNCHANGED <<saved, current, clock, timeSet>>
       ELSE LET c == contexts[t][context]
            IN /\ current' = [current EXCEPT ![t] = context]
               /\ saved' = [saved EXCEPT ![t].count = c.count, ![t].pos = c.start]
               /\ GoOn(t, c.pos - 1)
               /\ clock' = IF timeSet THEN clock ELSE c.clock
               /\ timeSet' = TRUE
    /\ UNCHANGED <<flags, on, activeTracks, context, position, at, track, goal, ended>>

\* The track has no more events in this tick.  The delay of a track that has
\* ended counts on below zero, where nobody reads it.  With the last track the
\* song ends: a service starts it again in the same tick, or ends it.
TrackDone ==
    /\ at \in {"service", "seek"} /\ track \in 1..Tracks
    /\ ~(on[track] /\ delay[track] = 0)
    /\ IF activeTracks > 0 \/ at = "seek"
       THEN /\ delay' = [delay EXCEPT ![track] = IF on[track] THEN @ - 1 ELSE @]
            /\ track' = IF activeTracks > 0 THEN track + 1 ELSE Tracks + 1
            /\ UNCHANGED <<active, pos, on, saved, activeTracks, context, current, clock,
                           position, ended>>
       ELSE /\ ResetTracks(song, clock.perTick)
            /\ active' = loop
            /\ track' = IF loop THEN 1 ELSE Tracks + 1
            /\ ended' = ~loop
    /\ UNCHANGED <<song, loaded, loop, contexts, at, timeSet, goal>>

NextPosition == IF position = MaxPosition THEN position ELSE position + 1

\* (Mutant: a tick in which a loop has set the clock does not count.)
ServiceDoneSet ==
    /\ at = "service" /\ track = Tracks + 1
    /\ clock' = (IF timeSet THEN clock ELSE AdvanceTick(clock)) /\ position' = NextPosition
    /\ at' = "idle" /\ track' = 1
    /\ UNCHANGED <<flags, tracks, timeSet, goal, ended>>

\* The end of the tick in a service ...
ServiceDone ==
    /\ at = "service" /\ track = Tracks + 1
    /\ clock' = AdvanceTick(clock) /\ position' = NextPosition
    /\ at' = "idle" /\ track' = 1
    /\ UNCHANGED <<flags, tracks, timeSet, goal, ended>>

\* ... and in a seek: a loop that went back in this tick, or the end of the
\* song, ends the seek.
SeekDone ==
    /\ at = "seek" /\ track = Tracks + 1
    /\ IF ~timeSet /\ activeTracks = 0
       THEN /\ ResetTracks(song, clock.perTick)
            /\ active' = loop /\ at' = "idle" /\ track' = 1
       ELSE /\ clock' = AdvanceTick(clock) /\ position' = NextPosition
            /\ active' = timeSet
            /\ at' = IF timeSet THEN "idle" ELSE "seek"
            /\ track' = IF timeSet THEN 1 ELSE 0
            /\ UNCHANGED tracks
    /\ UNCHANGED <<song, loaded, loop, contexts, timeSet, goal, ended>>

-----------------------------------------------------------------------------
TrackStep ==
    \/ \E t \in 1..Tracks : PlayEvent(t) \/ SkipEvent(t) \/ EndOfTrack(t) \/ LoopStart(t)
                          \/ LoopEnd(t) \/ ContextEnd(t)
    \/ TrackDone \/ ServiceDone \/ SeekDone \/ SeekTest

Call ==
    \/ \E s \in Songs, flag \in BOOLEAN : PlaySong(s, flag)
    \/ \E flag \in BOOLEAN : SetLoopFlag(flag)
    \/ StopSong \/ PauseSong \/ ContinueSong
    \/ \E ticks \in Ticks : MIDI_SetSongTick(ticks)
    \/ \E time \in Times : MIDI_SetSongTime(time)
    \/ \E p \in Positions : MIDI_SetSongPosition(p[1], p[2], p[3])
    \/ \E k \in Contexts : SetContext(k)

Next == TrackStep \/ Tick \/ Call

Spec == Init /\ [][Next]_vars

-----------------------------------------------------------------------------
(* Properties.                                                             *)

TypeOK ==
    /\ song \in Songs \cup {<<>>} /\ loaded \in BOOLEAN /\ active \in BOOLEAN
    /\ loop \in BOOLEAN /\ ended \in BOOLEAN /\ timeSet \in BOOLEAN
    /\ pos \in [1..Tracks -> Nat \ {0}] /\ \A t \in 1..Tracks : pos[t] <= Len(song[t])
    /\ delay \in [1..Tracks -> Nat \cup {-1}] /\ on \in [1..Tracks -> BOOLEAN]
    /\ \A t \in 1..Tracks : saved[t].count \in Nat \cup {Infinite}
    /\ activeTracks \in 0..Tracks /\ context \in Contexts \cup {0}
    /\ current \in [1..Tracks -> Contexts \cup {0}]
    /\ clock.tick \in 0..clock.ticks /\ clock.beat \in 1..clock.beats
    /\ position \in 0..MaxPosition
    /\ at \in {"idle", "service", "seek"} /\ track \in 0..(Tracks + 1)

\* _MIDI_ActiveTracks is the number of tracks that have not ended, at every
\* step: through loops, restarts and seeks.  The song ends, and a seek stops,
\* when it is 0, and at no other time.
ActiveTracksCounted ==
    activeTracks = Cardinality({t \in 1..Tracks : on[t]})

\* The tick of the song at which event i of a track is due.
DueAt(events, i) ==
    LET sum[j \in 0..Len(events)] == IF j = 0 THEN 0 ELSE sum[j - 1] + events[j].delta
    IN sum[i]

\* How far track t has come, in ticks of the song.
Elapsed(t) == DueAt(song[t], pos[t]) - delay[t]

\* Between ticks, all tracks are at the same tick of the song, wherever loops,
\* restarts, seeks and pauses have taken it.
TracksInStep ==
    (at = "idle" /\ loaded) =>
        \A t, u \in 1..Tracks : (on[t] /\ on[u]) => Elapsed(t) = Elapsed(u)

\* The clock c after those of the first i events of a track that are due at tick m.
EventsPassed(c, events, m, i) ==
    LET after[j \in 0..Len(events)] ==
            IF j = 0 THEN c
            ELSE IF DueAt(events, j) = m THEN Timed(after[j - 1], events[j])
            ELSE after[j - 1]
    IN after[i]

\* ... after those of the first t tracks of the song s that are played.
TracksPassed(s, c, m, t) ==
    LET after[u \in 0..Len(s)] ==
            IF u = 0 THEN c
            ELSE IF Included(s[u])
            THEN EventsPassed(after[u - 1], s[u], m, Len(s[u]))
            ELSE after[u - 1]
    IN after[t]

\* The clock of the song s if it is played straight through, before its tick n:
\* the events of a tick in the order of the tracks.
Straight(s, n, perTick) ==
    LET before[m \in 0..n] ==
            IF m = 0 THEN Start(perTick)
            ELSE AdvanceTick(TracksPassed(s, before[m - 1], m - 1, Len(s)))
    IN before[n]

\* The time and the musical position a song reports are those of the place it
\* is at, as if it had been played straight to there.
ClockRight ==
    (at = "idle" /\ loaded /\ ~ended) =>
        \A t \in 1..Tracks : on[t] =>
            \/ Elapsed(t) = 0
            \/ clock = Straight(song, Elapsed(t), 1)

-----------------------------------------------------------------------------
(* Liveness.  The task manager calls the service of a dispatched task again *)
(* and again (EveryTaskServed of TaskMan), and a service or a seek runs on. *)

Fairness == WF_vars(TrackStep) /\ SF_vars(Tick)

FairSpec == Spec /\ Fairness

\* A song without infinite loops that is not to be looped comes to its end.
Finite(s) ==
    \A t \in DOMAIN s : \A i \in DOMAIN s[t] :
        s[t][i].kind \in {"begin", "songBegin"} => s[t][i].value # 0

SongEnds == (active /\ ~loop /\ Finite(song)) ~> (~active \/ loop)
=============================================================================
