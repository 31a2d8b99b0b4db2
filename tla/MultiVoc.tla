------------------------------ MODULE MultiVoc ------------------------------
(***************************************************************************)
(* The voices of source/multivoc.c: the play list, the pool, the handles,  *)
(* and the sound card interrupt that mixes and retires voices while the    *)
(* main program starts and stops them.                                     *)
(*                                                                         *)
(* As in TaskMan there is one processor, MV_ServiceVoc runs to its end     *)
(* once it has interrupted the main program, and a step of the main        *)
(* program is a cli section or one access to shared data.  MV_GetVoice and *)
(* MV_StopVoice end in RestoreInterrupts, which is popf; sti: a caller     *)
(* that disabled interrupts runs with interrupts ENABLED from there on.    *)
(***************************************************************************)
EXTENDS Integers, Sequences, LinkList

CONSTANTS
    Voice,         \* MV_Voices
    VoiceList,     \* the root of the play list
    VoicePool,     \* the root of the free list
    Null,          \* the null pointer
    MinHandle, MaxHandle,   \* MV_MinVoiceHandle, and the last int before the wrap
    Priorities,    \* the priorities that clients ask for
    Kinds,         \* the kinds of sound they play: "once", "loop" or "feed"
    MaxPages,      \* bound: a sound, or the body of its loop, fills so many pages
    Recorders,     \* {TRUE} if the program also records, {} if it does not
    CardFails,     \* {TRUE} if the card may refuse to start, {} if it may not
    Untroubled     \* no sound ends between the steps that follow an eviction

ASSUME ConstantsAssumption ==
    /\ IsFiniteSet(Voice) /\ Voice # {}
    /\ VoiceList \notin Voice /\ VoicePool \notin Voice \cup {VoiceList}
    /\ Null \notin Voice \cup {VoiceList, VoicePool}
    /\ MinHandle \in Nat \ {0} /\ MaxHandle \in Nat /\ MinHandle < MaxHandle
    /\ Priorities \subseteq Nat
    /\ Kinds \subseteq {"once", "loop", "feed"}
    /\ MaxPages \in Nat \ {0}
    /\ Recorders \subseteq {TRUE} /\ CardFails \subseteq {TRUE}
    /\ Untroubled \in BOOLEAN

VARIABLES
    next, prev,                \* the links of the voices and of the two roots
    handle, priority, kind,    \* fields of the voices
    left,                      \* the pages a voice still fills before its end
    lastHandle,                \* MV_VoiceHandle
    installed, recording,      \* MV_Installed, MV_Recording
    card,                      \* what the card does: "off", "play" or "record"
    mpc, voice, asked, ret,    \* the main program: where it is, its voice, the
                               \* priority it was asked for, and who called MV_Kill
    ipc, mixed,                \* the interrupt, and the voice its loop is at
    called,                    \* how often the sound in a voice was called back
    older                      \* pairs of voices that play, the one that was started
                               \* first first

lists == <<next, prev>>
data  == <<handle, priority, kind, left>>
state == <<installed, recording, card>>
main  == <<mpc, voice, asked, ret>>
isr   == <<ipc, mixed>>
ghost == <<called, older>>
vars  == <<lists, data, lastHandle, state, main, isr, ghost>>

Cell == Voice \cup {VoiceList, VoicePool}

TypeOK ==
    /\ next \in [Cell -> Cell \cup {Null}] /\ prev \in [Cell -> Cell \cup {Null}]
    /\ handle \in [Cell -> Nat] /\ priority \in [Cell -> Nat]
    /\ kind \in [Cell -> {"once", "loop", "feed"}] /\ left \in [Cell -> 0..MaxPages]
    /\ lastHandle \in MinHandle..MaxHandle
    /\ installed \in BOOLEAN /\ recording \in BOOLEAN
    /\ card \in {"off", "play", "record"}
    /\ mpc \in {"run", "find", "head", "stop", "callback", "check", "first",
                "unlink1", "unlink2", "unlink3", "number", "play", "unloop",
                "drain", "down"}
    /\ voice \in Cell \cup {Null} /\ asked \in Nat
    /\ ret \in {"run", "check", "all", "shutdown"}
    /\ ipc \in {"idle", "mix"} /\ mixed \in Cell \cup {Null}
    /\ called \in [Cell -> 0..2]
    /\ older \in SUBSET (Cell \X Cell)

\* The statics at program start.
Init ==
    /\ next = [c \in Cell |-> Null] /\ prev = [c \in Cell |-> Null]
    /\ handle = [c \in Cell |-> 0] /\ priority = [c \in Cell |-> 0]
    /\ kind = [c \in Cell |-> "once"] /\ left = [c \in Cell |-> 0]
    /\ lastHandle = MinHandle
    /\ installed = FALSE /\ recording = FALSE /\ card = "off"
    /\ mpc = "run" /\ voice = Null /\ asked = 0 /\ ret = "run"
    /\ ipc = "idle" /\ mixed = Null
    /\ called = [c \in Cell |-> 1] /\ older = {}

-----------------------------------------------------------------------------
\* What the functions share.

Playing == Members(next, VoiceList, Null)
Free    == Members(next, VoicePool, Null)

\* LL_Empty(VoicePool), which looks at both links.
PoolEmpty == next[VoicePool] = VoicePool /\ prev[VoicePool] = VoicePool

\* (Mutant: the voice is not returned to the pool.)
StopVoiceOnly(v) ==
    /\ next' = RemovedNext(next, prev, v)
    /\ prev' = RemovedPrev(next, prev, v)
    /\ older' = {o \in older : v \notin {o[1], o[2]}}

\* MV_StopVoice(v): out of the list it is in, to the end of the pool.
StopVoice(v) ==
    LET n == RemovedNext(next, prev, v)
        p == RemovedPrev(next, prev, v)
    IN /\ next' = AddedNext(n, p, VoicePool, v)
       /\ prev' = AddedPrev(p, VoicePool, v)
       /\ older' = {o \in older : v \notin {o[1], o[2]}}

\* MV_CallBackFunc(v->callbackval); twice is the most the model counts.
CallBack(v) ==
    called' = [called EXCEPT ![v] = IF @ = 2 THEN 2 ELSE @ + 1]

\* The main program is at `pc', and no handler runs.
At(pc) == ipc = "idle" /\ mpc = pc

\* The voice MV_GetVoice(h) finds, or VoiceList.
GetVoice(h) == FirstIn(next, VoiceList, Null, {v \in Playing : handle[v] = h})

\* (Mutant: <= instead of < in the search.)
VictimLast ==
    FirstIn(prev, VoiceList, Null,
            {v \in Playing : \A u \in Playing : priority[v] <= priority[u]})

\* The voice MV_AllocVoice would replace: the first of the least priority.
Victim ==
    FirstIn(next, VoiceList, Null,
            {v \in Playing : \A u \in Playing : priority[v] <= priority[u]})

\* When MV_AllocVoice(p) returns NULL.
Refuses(p) == recording \/ (PoolEmpty /\ p < priority[Victim])

\* MV_AllocVoice's next handle; the int wraps to below MV_MinVoiceHandle.
NextHandle == IF lastHandle = MaxHandle THEN MinHandle ELSE lastHandle + 1

-----------------------------------------------------------------------------
(* The main program.                                                       *)

\* MV_Kill(h) up to the end of MV_GetVoice, which enables interrupts again.
Kill(h) ==
    /\ At("run") /\ installed
    /\ IF GetVoice(h) = VoiceList
       THEN UNCHANGED <<mpc, voice>>
       ELSE mpc' = "stop" /\ voice' = GetVoice(h)
    /\ ret' = "run"
    /\ UNCHANGED <<lists, data, lastHandle, state, asked, isr, ghost>>

\* MV_Kill goes on: MV_StopVoice(voice) ...
KillStop ==
    /\ At("stop")
    /\ StopVoice(voice)
    /\ mpc' = "callback"
    /\ UNCHANGED <<data, lastHandle, state, voice, asked, ret, isr, called>>

\* ... and the callback, with the callbackval read before.
KillCallBack ==
    /\ At("callback")
    /\ CallBack(voice)
    /\ mpc' = IF ret \in {"all", "shutdown"} THEN "head" ELSE ret
    /\ voice' = Null
    /\ UNCHANGED <<lists, data, lastHandle, state, asked, ret, isr, older>>

\* MV_KillAllVoices, called by the program or first of all by MV_Shutdown:
\* the loop's condition, ...
KillAllVoices ==
    /\ At("run") /\ installed
    /\ mpc' = "head" /\ ret' \in {"all", "shutdown"}
    /\ UNCHANGED <<lists, data, lastHandle, state, voice, asked, isr, ghost>>

KillAllTest ==
    /\ At("head")
    /\ IF next[VoiceList] = VoiceList
       THEN mpc' = IF ret = "shutdown" THEN "down" ELSE "run"
       ELSE mpc' = "find"
    /\ UNCHANGED <<lists, data, lastHandle, state, voice, asked, ret, isr, ghost>>

\* ... and MV_Kill of the handle then at the head: if the list has become
\* empty that is the handle of the root, which no voice has.
KillAllFind ==
    /\ At("find")
    /\ IF GetVoice(handle[next[VoiceList]]) = VoiceList
       THEN mpc' = "head" /\ UNCHANGED voice
       ELSE mpc' = "stop" /\ voice' = GetVoice(handle[next[VoiceList]])
    /\ UNCHANGED <<lists, data, lastHandle, state, asked, ret, isr, ghost>>

\* MV_AllocVoice(p), called by every MV_Play function.  With a free voice it
\* is one section.  Without, MV_Kill of the victim opens the section for good.
AllocVoice(p) ==
    /\ At("run") /\ installed
    /\ asked' = p
    /\ IF Refuses(p)
       THEN UNCHANGED <<lists, mpc, voice, ret>>
       ELSE IF PoolEmpty
       THEN /\ mpc' = "stop" /\ ret' = "check" /\ voice' = Victim
            /\ UNCHANGED lists
       ELSE /\ voice' = next[VoicePool]
            /\ next' = RemovedNext(next, prev, next[VoicePool])
            /\ prev' = RemovedPrev(next, prev, next[VoicePool])
            /\ mpc' = "number" /\ UNCHANGED ret
    /\ UNCHANGED <<data, lastHandle, state, isr, ghost>>

\* After MV_Kill, with interrupts enabled: LL_Empty again, ...
AllocCheck ==
    /\ At("check")
    /\ mpc' = IF PoolEmpty THEN "run" ELSE "first"
    /\ UNCHANGED <<lists, data, lastHandle, state, voice, asked, ret, isr, ghost>>

\* ... voice = VoicePool.next, ...
AllocFirst ==
    /\ At("first")
    /\ voice' = next[VoicePool]
    /\ mpc' = "unlink1"
    /\ UNCHANGED <<lists, data, lastHandle, state, asked, ret, isr, ghost>>

\* ... and the writes of LL_Remove: node->prev->next = node->next,
AllocUnlink1 ==
    /\ At("unlink1")
    /\ next' = [next EXCEPT ![prev[voice]] = next[voice]]
    /\ mpc' = "unlink2"
    /\ UNCHANGED <<prev, data, lastHandle, state, voice, asked, ret, isr, ghost>>

\* node->next->prev = node->prev,
AllocUnlink2 ==
    /\ At("unlink2")
    /\ prev' = [prev EXCEPT ![next[voice]] = prev[voice]]
    /\ mpc' = "unlink3"
    /\ UNCHANGED <<next, data, lastHandle, state, voice, asked, ret, isr, ghost>>

\* and the links of the node itself.
AllocUnlink3 ==
    /\ At("unlink3")
    /\ next' = [next EXCEPT ![voice] = voice]
    /\ prev' = [prev EXCEPT ![voice] = voice]
    /\ mpc' = "number"
    /\ UNCHANGED <<data, lastHandle, state, voice, asked, ret, isr, ghost>>

\* (Mutant: a handle is taken without a look at the list.)
VoicePlayingNever(h) == FALSE

\* MV_VoicePlaying(h).
VoicePlaying(h) == GetVoice(h) # VoiceList

\* One round of the search for a handle no playing voice has.
AllocNumber ==
    /\ At("number")
    /\ lastHandle' = NextHandle
    /\ IF VoicePlaying(NextHandle)
       THEN UNCHANGED <<mpc, handle>>
       ELSE mpc' = "play" /\ handle' = [handle EXCEPT ![voice] = NextHandle]
    /\ UNCHANGED <<lists, priority, kind, left, state, voice, asked, ret, isr, ghost>>

\* Where MV_PlayVoice inserts: behind the last voice of priority p or more (the
\* macro is used with next and prev swapped, so it searches from the tail).
Place(p) == FirstIn(prev, VoiceList, Null, {v \in Playing : priority[v] >= p})

\* The rest of an MV_Play function: the fields, and MV_PlayVoice.
PlayVoice(k, n) ==
    /\ At("play")
    /\ priority' = [priority EXCEPT ![voice] = asked]
    /\ kind' = [kind EXCEPT ![voice] = k]
    /\ left' = [left EXCEPT ![voice] = n]
    /\ prev' = AddedNext(prev, next, Place(asked), voice)
    /\ next' = AddedPrev(next, Place(asked), voice)
    /\ called' = [called EXCEPT ![voice] = 0]
    /\ older' = older \cup (Playing \X {voice})
    /\ mpc' = "run" /\ voice' = Null
    /\ UNCHANGED <<handle, lastHandle, state, asked, ret, isr>>

\* MV_EndLooping(h): MV_GetVoice, and then, with interrupts enabled, the
\* fields that make the voice loop.
EndLooping(h) ==
    /\ At("run") /\ installed /\ GetVoice(h) # VoiceList
    /\ mpc' = "unloop" /\ voice' = GetVoice(h)
    /\ UNCHANGED <<lists, data, lastHandle, state, asked, ret, isr, ghost>>

EndLoopingStore ==
    /\ At("unloop")
    /\ kind' = [kind EXCEPT ![voice] = IF @ = "loop" THEN "once" ELSE @]
    /\ mpc' = "run" /\ voice' = Null
    /\ UNCHANGED <<lists, handle, priority, left, lastHandle, state, asked, ret,
                   isr, ghost>>

\* MV_StartRecording: MV_StopPlayback stops the card ...
StartRecording ==
    /\ At("run") /\ installed /\ TRUE \in Recorders
    /\ card' = "off"
    /\ mpc' = "drain"
    /\ UNCHANGED <<lists, data, lastHandle, installed, recording, voice, asked, ret,
                   isr, ghost>>

\* (Mutant: no callback.)
DrainSilently ==
    /\ At("drain") /\ next[VoiceList] # VoiceList
    /\ StopVoice(next[VoiceList])
    /\ UNCHANGED <<data, lastHandle, state, main, isr, called>>

\* ... and the voices, one after the other, each with its callback.
Drain ==
    /\ At("drain") /\ next[VoiceList] # VoiceList
    /\ StopVoice(next[VoiceList])
    /\ CallBack(next[VoiceList])
    /\ UNCHANGED <<data, lastHandle, state, main, isr>>

\* When the card refuses to record, playback is not started again.
BeginRecording ==
    /\ At("drain") /\ next[VoiceList] = VoiceList
    /\ \/ recording' = TRUE /\ card' = "record"
       \/ TRUE \in CardFails /\ UNCHANGED <<recording, card>>
    /\ mpc' = "run"
    /\ UNCHANGED <<lists, data, lastHandle, installed, voice, asked, ret, isr, ghost>>

\* MV_StopRecord, which ends in MV_StartPlayback.
StopRecord ==
    /\ At("run") /\ installed /\ TRUE \in Recorders
    /\ recording' = FALSE
    /\ card' \in {"play"} \cup {"off" : f \in CardFails}
    /\ UNCHANGED <<lists, data, lastHandle, installed, main, isr, ghost>>

\* The rest of MV_Shutdown, after MV_KillAllVoices: the card and the lists.
Shutdown ==
    /\ At("down")
    /\ installed' = FALSE /\ recording' = FALSE /\ card' = "off"
    /\ next' = [next EXCEPT ![VoiceList] = VoiceList, ![VoicePool] = VoicePool]
    /\ prev' = [prev EXCEPT ![VoiceList] = VoiceList, ![VoicePool] = VoicePool]
    /\ mpc' = "run" /\ voice' = Null
    /\ UNCHANGED <<data, lastHandle, asked, ret, isr, ghost>>

\* MV_Init: every voice is added to the pool, in the order of MV_Voices, and
\* playback is started.  The card does not interrupt before.
InitVoices(pool) ==
    /\ At("run") /\ ~installed
    /\ LET n == Len(pool)
           at == [i \in 0..(n + 1) |-> IF i \in 1..n THEN pool[i] ELSE VoicePool]
           index == [v \in Voice |-> CHOOSE i \in 1..n : pool[i] = v]
       IN /\ next' = [c \in Cell |-> IF c \in Voice THEN at[index[c] + 1]
                                     ELSE IF c = VoicePool THEN at[1] ELSE c]
          /\ prev' = [c \in Cell |-> IF c \in Voice THEN at[index[c] - 1]
                                     ELSE IF c = VoicePool THEN at[n] ELSE c]
    /\ installed' = TRUE /\ recording' = FALSE /\ card' = "play"
    /\ UNCHANGED <<data, lastHandle, main, isr, ghost>>

-----------------------------------------------------------------------------
(* The sound card's interrupt, MV_ServiceVoc.                              *)

\* (Mutant: the end of the data is missed.)
LastPageNever(v) == kind[v] = "once" /\ left[v] = 0

\* The data of the voice ends within the page that is mixed next.
LastPage(v) == kind[v] = "once" /\ left[v] = 1

CardInterrupt ==
    /\ ipc = "idle" /\ card = "play"
    /\ (Untroubled /\ mpc = "unlink2") => \A v \in Playing : ~LastPage(v)
    /\ ipc' = "mix" /\ mixed' = next[VoiceList]
    /\ UNCHANGED <<lists, data, lastHandle, state, main, ghost>>

\* (Mutant: the voice is called back and stays in the list.)
MixVoiceOnly ==
    /\ ipc = "mix" /\ mixed # VoiceList
    /\ mixed' = next[mixed]
    /\ left' = [left EXCEPT ![mixed] = IF @ > 1 THEN @ - 1 ELSE @]
    /\ IF LastPage(mixed) THEN CallBack(mixed) ELSE UNCHANGED called
    /\ UNCHANGED <<lists, handle, priority, kind, lastHandle, state, main, ipc, older>>

\* One round of the loop over the play list: the page is mixed, and a voice
\* that has no more data leaves the list and is called back.
MixVoice ==
    /\ ipc = "mix" /\ mixed # VoiceList
    /\ mixed' = next[mixed]
    /\ left' = [left EXCEPT ![mixed] = IF @ > 1 THEN @ - 1 ELSE @]
    /\ IF LastPage(mixed)
       THEN StopVoice(mixed) /\ CallBack(mixed)
       ELSE UNCHANGED <<lists, ghost>>
    /\ UNCHANGED <<handle, priority, kind, lastHandle, state, main, ipc>>

EndOfInterrupt ==
    /\ ipc = "mix" /\ mixed = VoiceList
    /\ ipc' = "idle" /\ mixed' = Null
    /\ UNCHANGED <<lists, data, lastHandle, state, main, ghost>>

-----------------------------------------------------------------------------
MainStep ==   \* the main program inside a function
    \/ KillStop \/ KillCallBack \/ KillAllTest \/ KillAllFind
    \/ AllocCheck \/ AllocFirst \/ AllocUnlink1 \/ AllocUnlink2 \/ AllocUnlink3
    \/ AllocNumber \/ \E k \in Kinds, n \in 1..MaxPages : PlayVoice(k, n)
    \/ EndLoopingStore \/ Drain \/ BeginRecording \/ Shutdown

MainCall ==   \* the main program calling one
    \/ \E h \in MinHandle..MaxHandle : Kill(h) \/ EndLooping(h)
    \/ \E p \in Priorities : AllocVoice(p)
    \/ KillAllVoices \/ StartRecording \/ StopRecord
    \/ \E pool \in {q \in [1..Cardinality(Voice) -> Voice] :
                        \A v \in Voice : \E i \in DOMAIN q : q[i] = v} : InitVoices(pool)

IsrStep == MixVoice \/ EndOfInterrupt

Next == MainStep \/ MainCall \/ CardInterrupt \/ IsrStep

Spec == Init /\ [][Next]_vars

-----------------------------------------------------------------------------
(* Properties.                                                             *)

\* While the main program is unlinking a voice, or holds one.
Unlinking == mpc \in {"unlink2", "unlink3"}
Held == IF mpc \in {"unlink2", "unlink3", "number", "play"} THEN {voice} ELSE {}

\* Every voice is in exactly one place: it plays, it is free, or the main
\* program has it in hand.  A voice that is in none is lost for good.  Both lists
\* are rings in both directions whenever the interrupt or another function may
\* use them.
VoicesPartitioned ==
    (installed /\ ~Unlinking)
        => /\ Playing \cup Free \cup Held = Voice
           /\ Playing \cap Free = {} /\ (Playing \cup Free) \cap Held = {}
           /\ Ring(next, prev, Playing \cup {VoiceList})
           /\ Ring(next, prev, Free \cup {VoicePool})

\* A handle names one playing sound, also after the handles have wrapped.
HandlesAreUnique ==
    \A u, v \in Playing : handle[u] = handle[v] => u = v

\* Both play, and u was started first.
OlderThan(u, v) == <<u, v>> \in older

\* "the oldest sound with the lowest priority is replaced with the new
\* sound", and never by one of a lower priority.
ReplacesOldestLowest ==
    (mpc = "stop" /\ ret = "check") =>
        /\ priority[voice] <= asked
        /\ \A u \in Playing \ {voice} :
              \/ priority[voice] < priority[u]
              \/ priority[voice] = priority[u]
                     /\ (voice \in Playing => OlderThan(voice, u))

\* Every sound that has stopped has been called back, when the program and
\* the interrupt have come to rest, and none before it stops.
CalledBackWhenStopped ==
    /\ (mpc = "run" /\ ipc = "idle") => \A v \in Voice \ Playing : called[v] >= 1
    /\ \A v \in Playing : called[v] = 0

-----------------------------------------------------------------------------
(* Liveness.  The card interrupts as long as it plays, and the main        *)
(* program gets the processor back whenever a handler returns.             *)

Fairness ==
    /\ SF_vars(MainStep)
    /\ WF_vars(IsrStep)
    /\ SF_vars(CardInterrupt)

FairSpec == Spec /\ Fairness

\* A sound that does not loop ends and is called back, whatever the program
\* does with other sounds meanwhile; so does a loop the program has ended.
EverySoundEnds ==
    \A v \in Voice : (v \in Playing /\ kind[v] = "once") ~> (v \notin Playing)

=============================================================================
