------------------------------- MODULE Player -------------------------------
(***************************************************************************)
(* What a program is told that plays sounds through source/fx_man.c: the   *)
(* result of each call, and the message of FX_ErrorString when it fails.   *)
(*                                                                         *)
(* A failing function of multivoc.c sets MV_ErrorCode, and the FX_         *)
(* function over it sets FX_ErrorCode so that FX_ErrorString looks at it.  *)
(* A call is asked here of a state of MultiVoc in which the program may    *)
(* make it; its effects are the actions there.  codes is [fx, mv], the     *)
(* error codes that earlier calls have left.                               *)
(***************************************************************************)
EXTENDS MultiVoc

CONSTANT Before    \* bound: the codes that earlier calls may have left

FxCodes ==
    {"FX_Ok", "FX_ASSVersion", "FX_BlasterError", "FX_SoundCardError", "FX_InvalidCard",
     "FX_MultiVocError", "FX_DPMI_Error"}

MvCodes ==
    {"MV_Ok", "MV_UnsupportedCard", "MV_NotInstalled", "MV_NoVoices", "MV_NoMem",
     "MV_VoiceNotFound", "MV_BlasterError", "MV_PasError", "MV_SoundScapeError",
     "MV_SoundSourceError", "MV_DPMI_Error", "MV_InvalidVOCFile", "MV_InvalidWAVFile",
     "MV_InvalidMixMode", "MV_SoundSourceFailure", "MV_IrqFailure", "MV_DMAFailure",
     "MV_DMA16Failure", "MV_NullRecordFunction"}

ASSUME BeforeAssumption == Before \subseteq [fx : FxCodes, mv : MvCodes]

\* The results that are not handles: the two enumerations agree on them.
Ok      == 0
Error   == -1
Warning == -2

-----------------------------------------------------------------------------
(* The messages, by what they say.                                         *)

\* What BLASTER_ErrorString and its like say of the last error of a driver.
DriverSays(driver) == <<"the driver", driver>>

MvDriver ==
    [MV_BlasterError     |-> "BLASTER", MV_PasError         |-> "PAS",
     MV_SoundScapeError  |-> "SOUNDSCAPE", MV_SoundSourceError |-> "SS"]

\* MV_ErrorString of a code.
MV_ErrorString(code) ==
    IF code \in DOMAIN MvDriver THEN DriverSays(MvDriver[code])
    ELSE <<"multivoc", code>>

\* FX_ErrorString(FX_Error): FX_ErrorCode, and for that of Multivoc MV_ErrorString(
\* MV_Error).  The driver asked for is that of the card, whose name is left out.
FX_ErrorString(codes) ==
    CASE codes.fx = "FX_MultiVocError"  -> MV_ErrorString(codes.mv)
      [] codes.fx = "FX_BlasterError"   -> DriverSays("BLASTER")
      [] codes.fx = "FX_SoundCardError" -> DriverSays("of the card")
      [] OTHER                          -> <<"fx", codes.fx>>

-----------------------------------------------------------------------------
(* The functions of multivoc.c: what they return, and MV_ErrorCode then.   *)

Returns(result, codes)     == [ret |-> result, codes |-> codes]
Fails(result, code, codes) == Returns(result, [codes EXCEPT !.mv = code])

\* What looks up a voice fails in two ways; gone is what it returns if no voice
\* that plays has the handle.
OfVoice(h, gone, codes) ==
    IF ~installed THEN Fails(Error, "MV_NotInstalled", codes)
    ELSE IF GetVoice(h) = VoiceList THEN Fails(gone, "MV_VoiceNotFound", codes)
    ELSE Returns(Ok, codes)

MV_Kill(h, codes)         == OfVoice(h, Error, codes)
MV_SetPitch(h, codes)     == OfVoice(h, Error, codes)
MV_SetFrequency(h, codes) == OfVoice(h, Error, codes)
MV_EndLooping(h, codes)   == OfVoice(h, Warning, codes)
MV_SetPan(h, codes)       == OfVoice(h, Warning, codes)
MV_Pan3D(h, codes)        == MV_SetPan(h, codes)

MV_KillAllVoices(codes) ==
    IF installed THEN Returns(Ok, codes) ELSE Fails(Error, "MV_NotInstalled", codes)

MV_VoicePlaying(h) == installed /\ VoicePlaying(h)
MV_VoicesPlaying   == IF installed THEN Cardinality(Playing) ELSE 0

\* The voice found is the first of the least priority, like MV_AllocVoice's; but it
\* begins with the head itself, and looks if there is one.
MV_VoiceAvailable(p) ==
    \/ ~PoolEmpty
    \/ Victim # VoiceList /\ p >= priority[Victim]

\* A handle: which one is AllocNumber's, and nothing here but that it is positive.
Handle == MinHandle

\* A play function asks for a voice of priority p after it has looked at the file:
\* bad is the code if that is not valid, "MV_Ok" if it is.
MV_Play(bad, p, codes) ==
    IF ~installed THEN Fails(Error, "MV_NotInstalled", codes)
    ELSE IF bad # "MV_Ok" THEN Fails(Error, bad, codes)
    ELSE IF Refuses(p) THEN Fails(Error, "MV_NoVoices", codes)
    ELSE Returns(Handle, codes)

BadWAV(valid) == IF valid THEN "MV_Ok" ELSE "MV_InvalidWAVFile"
BadVOC(valid) == IF valid THEN "MV_Ok" ELSE "MV_InvalidVOCFile"

MV_PlayLoopedWAV(valid, p, codes) == MV_Play(BadWAV(valid), p, codes)
MV_PlayLoopedVOC(valid, p, codes) == MV_Play(BadVOC(valid), p, codes)
MV_PlayLoopedRaw(p, codes)        == MV_Play("MV_Ok", p, codes)
MV_StartDemandFeedPlayback(p, codes) == MV_Play("MV_Ok", p, codes)

MV_PlayWAV(valid, p, codes) == MV_PlayLoopedWAV(valid, p, codes)
MV_PlayVOC(valid, p, codes) == MV_PlayLoopedVOC(valid, p, codes)
MV_PlayRaw(p, codes)        == MV_PlayLoopedRaw(p, codes)

MV_PlayWAV3D(valid, p, codes) ==
    IF ~installed THEN Fails(Error, "MV_NotInstalled", codes)
    ELSE MV_PlayWAV(valid, p, codes)

MV_PlayVOC3D(valid, p, codes) ==
    IF ~installed THEN Fails(Error, "MV_NotInstalled", codes)
    ELSE MV_PlayVOC(valid, p, codes)

-----------------------------------------------------------------------------
(* The functions of fx_man.c over them, each with the test it makes.       *)

Failed(codes) == Returns(Warning, [codes EXCEPT !.fx = "FX_MultiVocError"])

\* What is returned was `mv', and failed is the test.
Passed(mv, failed) == IF failed THEN Failed(mv.codes) ELSE mv

\* The tests: status == MV_Error, status != MV_Ok and handle < MV_Ok.
IfError(mv)  == Passed(mv, mv.ret = Error)
UnlessOk(mv) == Passed(mv, mv.ret # Ok)
IfLess(mv)   == Passed(mv, mv.ret < Ok)

FX_VoiceAvailable(p)          == MV_VoiceAvailable(p)
FX_EndLooping(h, codes)       == IfError(MV_EndLooping(h, codes))
FX_SetPan(h, codes)           == IfError(MV_SetPan(h, codes))
FX_SetPitch(h, codes)         == IfError(MV_SetPitch(h, codes))
FX_SetFrequency(h, codes)     == IfError(MV_SetFrequency(h, codes))

FX_PlayVOC(valid, p, codes)       == IfLess(MV_PlayVOC(valid, p, codes))
FX_PlayLoopedVOC(valid, p, codes) == IfLess(MV_PlayLoopedVOC(valid, p, codes))
FX_PlayWAV(valid, p, codes)       == IfLess(MV_PlayWAV(valid, p, codes))
FX_PlayLoopedWAV(valid, p, codes) == IfLess(MV_PlayLoopedWAV(valid, p, codes))
FX_PlayVOC3D(valid, p, codes)     == IfLess(MV_PlayVOC3D(valid, p, codes))
FX_PlayWAV3D(valid, p, codes)     == IfLess(MV_PlayWAV3D(valid, p, codes))
FX_PlayRaw(p, codes)              == IfLess(MV_PlayRaw(p, codes))
FX_PlayLoopedRaw(p, codes)        == IfLess(MV_PlayLoopedRaw(p, codes))
FX_StartDemandFeedPlayback(p, codes) == IfLess(MV_StartDemandFeedPlayback(p, codes))

\* (Mutant: the test that FX_SetPan makes.)
FX_Pan3DIfError(h, codes) == IfError(MV_Pan3D(h, codes))

FX_Pan3D(h, codes)            == UnlessOk(MV_Pan3D(h, codes))
FX_SoundActive(h)             == MV_VoicePlaying(h)
FX_SoundsPlaying              == MV_VoicesPlaying
FX_StopSound(h, codes)        == UnlessOk(MV_Kill(h, codes))
FX_StopAllSounds(codes)       == UnlessOk(MV_KillAllVoices(codes))

-----------------------------------------------------------------------------
(* Properties.                                                             *)

Says(code) == <<"multivoc", code>>

\* Why a call for a handle, for a voice or for a file may fail.
NoLibrary == IF installed THEN {} ELSE {Says("MV_NotInstalled")}

NoSuchSound(h) ==
    IF installed /\ h \notin {handle[v] : v \in Playing}
    THEN {Says("MV_VoiceNotFound")} ELSE {}

NoVoice(p) ==
    IF recording \/ (Free = {} /\ \A v \in Playing : p < priority[v])
    THEN {Says("MV_NoVoices")} ELSE {}

BadFile(code) == IF code = "MV_Ok" THEN {} ELSE {Says(code)}

\* The call fails just when there is a reason, ...
FailsFor(call, reasons) == (call.ret < Ok) <=> (reasons # {})

\* ... and then the library says one that is true.
Explains(call, reasons) ==
    /\ FailsFor(call, reasons)
    /\ call.ret < Ok => FX_ErrorString(call.codes) \in reasons

\* Whatever calls have failed before, a call that fails says why.  Those of
\* FX_EndLooping and FX_SetPan say it only of a library that is not installed: for
\* a sound that has ended they leave the last error of another call.
SaysWhyOfSounds ==
    \A codes \in Before, h \in MinHandle..MaxHandle :
       LET reasons == NoLibrary \cup NoSuchSound(h)
       IN  /\ \A call \in {FX_StopSound(h, codes), FX_SetPitch(h, codes),
                            FX_SetFrequency(h, codes), FX_Pan3D(h, codes)} :
                 Explains(call, reasons)
           /\ \A call \in {FX_EndLooping(h, codes), FX_SetPan(h, codes)} :
                 IF installed THEN FailsFor(call, reasons) ELSE Explains(call, reasons)
           /\ FX_SoundActive(h) <=> reasons = {}

SaysWhyOfFiles ==
    \A codes \in Before, p \in Priorities, valid \in BOOLEAN :
       LET reasons == NoLibrary \cup NoVoice(p)
       IN  /\ \A call \in {FX_PlayVOC(valid, p, codes), FX_PlayLoopedVOC(valid, p, codes),
                            FX_PlayVOC3D(valid, p, codes)} :
                 Explains(call, reasons \cup BadFile(BadVOC(valid)))
           /\ \A call \in {FX_PlayWAV(valid, p, codes), FX_PlayLoopedWAV(valid, p, codes),
                            FX_PlayWAV3D(valid, p, codes)} :
                 Explains(call, reasons \cup BadFile(BadWAV(valid)))
           /\ \A call \in {FX_PlayRaw(p, codes), FX_PlayLoopedRaw(p, codes),
                            FX_StartDemandFeedPlayback(p, codes)} :
                 Explains(call, reasons)

\* FX_SoundsPlaying counts the handles in use, and FX_VoiceAvailable says ahead what a
\* call does, unless the library records: it has not heard of recording.
TellsAhead ==
    /\ FX_SoundsPlaying = Cardinality({handle[v] : v \in Playing})
    /\ \A p \in Priorities :
          (installed /\ ~recording) => (FX_VoiceAvailable(p) <=> NoVoice(p) = {})

\* A call made at any time tells the program what is so: it fails exactly when
\* there is a reason to, and FX_ErrorString names one, whatever failed before; and
\* a sound is not stopped in vain for one that is refused in the end.
SaysWhy ==
    /\ (mpc = "run") => /\ SaysWhyOfSounds /\ SaysWhyOfFiles /\ TellsAhead
                        /\ \A codes \in Before :
                              Explains(FX_StopAllSounds(codes), NoLibrary)
    /\ (mpc = "check") => ~PoolEmpty

=============================================================================
