------------------------------- MODULE Effect -------------------------------
(***************************************************************************)
(* The one-voice effects of source/pcfx.c and source/adlibfx.c: a sound    *)
(* that a task of the task manager plays value by value and ends, while    *)
(* the main program plays another one or stops it.                         *)
(*                                                                         *)
(* The service runs to its end once it has interrupted the main program,   *)
(* so it is one step.  A step of the main program is a cli section, or one *)
(* access to shared data.  ADLIBFX_Stop calls ADLIBFX_SendOutput first in  *)
(* its section, and RestoreInterrupts there (popf; sti) enables interrupts *)
(* for the rest of it.                                                     *)
(***************************************************************************)
EXTENDS Integers

CONSTANTS
    Devices,      \* what the program uses: "pc" or "adlib"
    MinHandle, MaxHandle,   \* the first handle, and the last int before the wrap
    Priorities,   \* the priorities that the program asks for
    Lengths       \* how many values a sound has

ASSUME ConstantsAssumption ==
    /\ Devices \subseteq {"pc", "adlib"}
    /\ MinHandle \in Nat \ {0} /\ MaxHandle \in Nat /\ MinHandle <= MaxHandle
    /\ Priorities \subseteq Nat
    /\ Lengths \subseteq Nat \ {0}

VARIABLES
    device, installed,   \* which of the two; its service is scheduled
    handle, priority, left,      \* _VoiceHandle, _Priority, _LengthLeft
    sound, pointer,      \* _Sound and _SoundPtr are not NULL; PCFX has one of them
    on,                  \* the speaker, or the voice of the chip, sounds
    last, loud,          \* PCFX_LastSample; PCFX_TotalVolume is above 0
    mpc, asked, ret,     \* the main program: where it is, the priority it was
                         \* asked for, and who called Stop
    called               \* how often the latest sound was called back

player == <<priority, left, sound, pointer, on, last>>
main   == <<mpc, asked, ret>>
effectVars   == <<device, installed, handle, player, loud, main, called>>

EffectInit ==
    /\ device \in Devices /\ installed = FALSE
    /\ handle = MinHandle /\ priority = 0 /\ left = 0
    /\ sound = FALSE /\ pointer = FALSE
    /\ on = FALSE /\ last = 0 /\ loud = TRUE
    /\ mpc = "run" /\ asked = 0 /\ ret = "run"
    /\ called = 1

-----------------------------------------------------------------------------
\* What Stop leaves of a sound.

\* (Mutant: the next sound must be as important as the one that has ended.)
ClearExceptPriority ==
    /\ sound' = FALSE /\ pointer' = FALSE /\ left' = 0 /\ last' = 0
    /\ UNCHANGED priority

Clear ==
    /\ sound' = FALSE /\ pointer' = FALSE /\ left' = 0 /\ last' = 0
    /\ priority' = 0

\* The int wraps to below PCFX_MinVoiceHandle.
NextHandle == IF handle = MaxHandle THEN MinHandle ELSE handle + 1

\* The callback function, set right after the driver was initialized, gets
\* _CallBackVal; twice is the most the model counts.
CallBack == called' = IF called = 2 THEN 2 ELSE called + 1

-----------------------------------------------------------------------------
(* The main program.                                                       *)

\* PCFX_Init, ADLIBFX_Init: the service is scheduled.
InitDevice ==
    /\ mpc = "run" /\ ~installed
    /\ installed' = TRUE
    /\ UNCHANGED <<device, handle, player, loud, main, called>>

\* PCFX_Stop(h), by the program or in PCFX_UseLookup: its test, with
\* interrupts enabled.
Stop(h) ==
    /\ mpc = "run" /\ installed
    /\ IF h = handle /\ sound THEN mpc' = "stop" ELSE UNCHANGED mpc
    /\ ret' = "run"
    /\ UNCHANGED <<device, installed, handle, player, loud, asked, called>>

\* PCFX_Shutdown, up to the same test.
Shutdown ==
    /\ mpc = "run" /\ installed
    /\ mpc' = IF sound THEN "stop" ELSE "down"
    /\ ret' = "down"
    /\ UNCHANGED <<device, installed, handle, player, loud, asked, called>>

\* PCFX_Play(sound, p, ...): refused when a more important sound plays, or
\* else that sound is stopped first.
Play(p) ==
    /\ mpc = "run" /\ installed
    /\ p >= priority
    /\ mpc' = IF sound THEN "stop" ELSE "begin"
    /\ ret' = "begin" /\ asked' = p
    /\ UNCHANGED <<device, installed, handle, player, loud, called>>

\* PCFX_Stop: its section.
Halt ==
    /\ mpc = "stop" /\ device = "pc"
    /\ Clear /\ on' = FALSE
    /\ mpc' = "callback"
    /\ UNCHANGED <<device, installed, handle, loud, asked, ret, called>>

\* ADLIBFX_Stop: the voice is silenced ...
HaltVoice ==
    /\ mpc = "stop" /\ device = "adlib"
    /\ on' = FALSE
    /\ mpc' = "forget"
    /\ UNCHANGED <<device, installed, handle, priority, left, sound, pointer, last, loud,
                   asked, ret, called>>

\* ... ADLIBFX_Sound = NULL ...
ForgetSound ==
    /\ mpc = "forget"
    /\ sound' = FALSE
    /\ mpc' = "clear"
    /\ UNCHANGED <<device, installed, handle, priority, left, pointer, on, last, loud,
                   asked, ret, called>>

\* ... ADLIBFX_SoundPtr = NULL, and then nobody reads what else is cleared.
ForgetPointer ==
    /\ mpc = "clear"
    /\ Clear
    /\ mpc' = "callback"
    /\ UNCHANGED <<device, installed, handle, on, loud, asked, ret, called>>

\* The end of Stop.
StopCallBack ==
    /\ mpc = "callback"
    /\ CallBack
    /\ mpc' = ret
    /\ UNCHANGED <<device, installed, handle, player, loud, asked, ret>>

\* The rest of PCFX_Play: the next handle, and a section for the new sound.
Begin(n) ==
    /\ mpc = "begin"
    /\ handle' = NextHandle
    /\ left' = n /\ priority' = asked
    /\ sound' = TRUE /\ pointer' = TRUE
    /\ mpc' = "run" /\ called' = 0
    /\ UNCHANGED <<device, installed, on, last, loud, asked, ret>>

\* The rest of PCFX_Shutdown: TS_Terminate.
Terminate ==
    /\ mpc = "down"
    /\ installed' = FALSE /\ mpc' = "run"
    /\ UNCHANGED <<device, handle, player, loud, asked, ret, called>>

\* PCFX_SetTotalVolume.
SetTotalVolume(v) ==
    /\ mpc = "run" /\ installed /\ device = "pc"
    /\ loud' = v /\ on' = (on /\ v)
    /\ UNCHANGED <<device, installed, handle, priority, left, sound, pointer, last, main,
                   called>>

-----------------------------------------------------------------------------
(* The service, PCFX_Service or ADLIBFX_Service.                           *)

\* (Mutant: a value that is not heard does not count.)
ShorterIfLoud == IF left = -1 \/ ~loud THEN left ELSE left - 1

\* The values left behind this one.  After ADLIBFX_Sound was cleared the count
\* may pass 0; below that, -1 stands for all numbers.
Shorter == IF left = -1 THEN -1 ELSE left - 1

\* What the value of this tick does: a PC speaker is not touched when the value
\* has not changed or the volume is 0.
Output(value) ==
    IF device = "adlib" THEN on' = (value # 0) /\ last' = last
    ELSE IF loud /\ value # last THEN on' = (value # 0) /\ last' = value
    ELSE UNCHANGED <<on, last>>

Sounds(value) ==
    /\ installed /\ pointer /\ Shorter > 0
    /\ Output(value)
    /\ left' = Shorter
    /\ UNCHANGED <<device, installed, handle, priority, sound, pointer, loud, main, called>>

\* (Mutant: the callback is forgotten.)
EndsSilently ==
    /\ installed /\ pointer /\ Shorter <= 0 /\ sound
    /\ Clear /\ on' = FALSE
    /\ UNCHANGED <<device, installed, handle, loud, main, called>>

\* The last value, and Stop: nothing else of the service remains.
Ends ==
    /\ installed /\ pointer /\ Shorter <= 0 /\ sound
    /\ Clear /\ on' = FALSE
    /\ CallBack
    /\ UNCHANGED <<device, installed, handle, loud, main>>

\* The last value of a sound, or one behind it, that ADLIBFX_Stop has begun to
\* forget: the Stop of the service finds no sound.
Overruns(value) ==
    /\ installed /\ pointer /\ Shorter <= 0 /\ ~sound
    /\ Output(value)
    /\ left' = Shorter
    /\ UNCHANGED <<device, installed, handle, priority, sound, pointer, loud, main, called>>

-----------------------------------------------------------------------------
MainStep ==
    \/ Halt \/ HaltVoice \/ ForgetSound \/ ForgetPointer \/ StopCallBack
    \/ \E n \in Lengths : Begin(n)
    \/ Terminate

MainCall ==
    \/ \E h \in MinHandle..MaxHandle : Stop(h)
    \/ \E p \in Priorities : Play(p)
    \/ \E v \in BOOLEAN : SetTotalVolume(v)
    \/ InitDevice \/ Shutdown

Service == Ends \/ \E value \in {0, 1} : Sounds(value) \/ Overruns(value)

EffectNext == MainStep \/ MainCall \/ Service

EffectSpec == EffectInit /\ [][EffectNext]_effectVars

-----------------------------------------------------------------------------
(* Properties.                                                             *)

EffectTypeOK ==
    /\ device \in Devices /\ installed \in BOOLEAN
    /\ handle \in MinHandle..MaxHandle /\ priority \in Nat /\ left \in Nat \cup {-1}
    /\ sound \in BOOLEAN /\ pointer \in BOOLEAN /\ on \in BOOLEAN /\ loud \in BOOLEAN
    /\ last \in {0, 1}
    /\ mpc \in {"run", "stop", "forget", "clear", "callback", "begin", "down"}
    /\ asked \in Nat /\ ret \in {"run", "begin", "down"}
    /\ called \in 0..2

\* When a sound has ended, by itself or stopped, the next one is played whatever
\* its priority, PCFX_SoundPlaying tells no more of it, and no tone goes on in the
\* speaker; while it plays, both know it.  Stop and the service may have met in the
\* middle.
EndedIsFree ==
    mpc = "run" => /\ ~sound => /\ priority = 0 /\ left = 0 /\ ~pointer
                                /\ device = "pc" => ~on
                   /\ sound => left > 0 /\ pointer

\* A sound that plays has not been called back, and when it has ended and the
\* program has come to rest, it has: also if another one has replaced it.
CalledBackWhenEnded ==
    /\ sound => called = 0
    /\ (mpc = "run" /\ ~sound) => called >= 1
    /\ mpc = "begin" => ~sound /\ called >= 1

-----------------------------------------------------------------------------
(* Liveness.  The task manager calls the service again and again           *)
(* (EveryTaskServed of TaskMan), and the main program goes on.             *)

FairSpec == EffectSpec /\ WF_effectVars(MainStep) /\ SF_effectVars(Service)

\* Every sound ends, also when it cannot be heard.
EverySoundEnds == sound ~> ~sound
=============================================================================
