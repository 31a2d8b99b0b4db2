------------------------------ MODULE SoundCard ------------------------------
(***************************************************************************)
(* The mixing buffer between multivoc.c and a sound card: a ring of pages  *)
(* that the DMA controller reads (or, for a recording, writes) while the   *)
(* card's interrupt hands out one page after the other.                    *)
(*                                                                         *)
(* Three actors: the card, which never waits; the interrupt handler        *)
(* (BLASTER_, PAS_ or SOUNDSCAPE_ServiceInterrupt), which calls            *)
(* MV_ServiceVoc or MV_ServiceRecord; the main program, which starts and   *)
(* stops.  The Disney Sound Source has neither DMA nor an interrupt: a     *)
(* task of the task manager feeds it and calls MV_ServiceVoc.              *)
(*                                                                         *)
(* The card's interrupt was masked before the library was initialized, so  *)
(* that BLASTER_DisableInterrupt masks it.  With interrupts enabled, the   *)
(* handler runs before the next step of the main program; only outside     *)
(* these functions may a critical section hold it up, for any time.        *)
(***************************************************************************)
EXTENDS Integers

CONSTANTS
    Cards,      \* "dsp1": DSP 1.xx, single transfers; "dsp2": DSP 2.xx to 4.xx;
                \* "pas"; "scape"; "source"
    Pages,      \* MV_NumberOfBuffers
    Skews       \* where the buffer may begin: at a carry into the high byte of the
                \* DMA address (0), or half a page behind one (1)

ASSUME ConstantsAssumption ==
    /\ Cards \subseteq {"dsp1", "dsp2", "pas", "scape", "source"}
    /\ Pages \in Nat /\ Pages >= 3
    /\ Skews \subseteq {0, 1}

VARIABLES
    card, skew,         \* MV_SoundCard; where MV_MixBuffer begins
    installed,          \* MV_Installed
    running, at,        \* what the card transfers, and the half page it has reached
    line, gate, masked, \* the card asks for an interrupt; PAS: it may; the PIC's mask
    flag,               \* BLASTER_SoundPlaying or BLASTER_SoundRecording
    callback,           \* MV_ServiceVoc or MV_ServiceRecord
    page, channel,      \* MV_MixPage; MV_DMAChannel is set
    mpc,                \* where the main program is
    ipc, low,           \* where the handler is; the low half of the address
    content,            \* of each page: "blank", "full", or "old" (played)
    lapse               \* since the last start, an interrupt waited a whole page, or an
                        \* address was torn

setting == <<card, skew>>
hw   == <<running, at, line, gate, masked>>
isr  == <<ipc, low>>
vars == <<setting, installed, hw, flag, callback, page, channel, mpc, isr, content, lapse>>

PageIds == 0..Pages - 1
Page    == at \div 2

Init ==
    /\ card \in Cards /\ skew \in Skews /\ installed = FALSE
    /\ running = "off" /\ at = 0
    /\ line = FALSE /\ gate = FALSE /\ masked = TRUE
    /\ flag = "off" /\ callback = "none"
    /\ page = 0 /\ channel = FALSE
    /\ mpc = "run" /\ ipc = "idle" /\ low = 0
    /\ content = [p \in PageIds |-> "blank"]
    /\ lapse = FALSE

\* An interrupt that the processor takes as soon as interrupts are enabled.
Pending == line /\ ~masked /\ (card = "pas" => gate)

-----------------------------------------------------------------------------
(* The card.                                                               *)

\* What becomes of a page that the card has been through.
Through == [content EXCEPT ![Page] = IF running = "play" THEN "old" ELSE "full"]

\* Half a page on, and at the end of the buffer back to its beginning.
After(a) == IF a + 1 = 2 * Pages THEN 0 ELSE a + 1

\* Half a page: the card asks for an interrupt at the end of one, and a DSP 1.xx
\* stops there.
Advance ==
    /\ running # "off" /\ card # "source"
    /\ Pending \/ ipc # "idle" => mpc = "run"
    /\ at' = After(at)
    /\ IF at % 2 = 0
       THEN UNCHANGED <<running, line, content, lapse>>
       ELSE /\ line' = TRUE
            /\ running' = IF card = "dsp1" THEN "off" ELSE running
            /\ content' = Through
            /\ lapse' = (lapse \/ Pending \/ ipc # "idle")
    /\ UNCHANGED <<setting, installed, gate, masked, flag, callback, page, channel, mpc, isr>>

-----------------------------------------------------------------------------
(* The handler.                                                            *)

\* "Toggle which buffer we'll mix next".
NextPage(p) == IF p + 1 >= Pages THEN p + 1 - Pages ELSE p + 1

\* (Mutant: a DSP 1.xx is left where it has stopped.)
RestartNever == UNCHANGED running

\* Cards without autoinit mode begin the next transfer in the handler.
Restart == running' = IF card = "dsp1" THEN flag ELSE running

\* (Mutant: the card goes on asking.)
AcknowledgeNever == UNCHANGED line

Acknowledge == line' = FALSE

\* BLASTER_ServiceInterrupt and its kind, up to the callback: MV_ServiceVoc
\* begins to read the DMA position if it knows the channel, or else counts.
Interrupt ==
    /\ ipc = "idle" /\ Pending
    /\ Acknowledge /\ Restart
    /\ \/ callback = "record" /\ ipc' = "give" /\ UNCHANGED page
       \/ callback = "play" /\ channel /\ ipc' = "low" /\ UNCHANGED page
       \/ callback = "play" /\ ~channel /\ ipc' = "mix" /\ page' = NextPage(page)
    /\ UNCHANGED <<setting, installed, at, gate, masked, flag, callback, channel, mpc, low,
                   content, lapse>>

\* DMA_GetCurrentPos: the low byte of the address ...
ReadLow ==
    /\ ipc = "low"
    /\ low' = (at + skew) % 2
    /\ ipc' = "high"
    /\ UNCHANGED <<setting, installed, hw, flag, callback, page, channel, mpc, content, lapse>>

\* (Mutant: the position is not read.)
PositionCounted == page

\* The page of the address put together from the low byte read before and the
\* high byte of now.
Position == (2 * ((at + skew) \div 2) + low - skew) \div 2

\* A carry between the two.  In an aligned buffer (skew = 0) it comes with the end
\* of a page, and that page is done.
Torn == ipc = "high" /\ skew = 1 /\ low # (at + skew) % 2

\* ... and the high byte, while the transfer goes on.
ReadHigh ==
    /\ ipc = "high"
    /\ page' = NextPage(Position)
    /\ lapse' = (lapse \/ Torn)
    /\ ipc' = "mix"
    /\ UNCHANGED <<setting, installed, hw, flag, callback, channel, mpc, low, content>>

\* MV_ServiceVoc mixes the voices into the page.
Mix ==
    /\ ipc = "mix"
    /\ content' = [content EXCEPT ![page] = "full"]
    /\ ipc' = "idle"
    /\ UNCHANGED <<setting, installed, hw, flag, callback, page, channel, mpc, low, lapse>>

\* MV_ServiceRecord hands the page to the program's function.
Give ==
    /\ ipc = "give"
    /\ content' = [content EXCEPT ![page] = "blank"]
    /\ page' = NextPage(page)
    /\ ipc' = "idle"
    /\ UNCHANGED <<setting, installed, hw, flag, callback, channel, mpc, low, lapse>>

\* SS_ServiceInterrupt, a tick of which sends up to 14 samples: at the end of a
\* page it calls MV_ServiceVoc and does not come back before the page is mixed.
Feed ==
    /\ running = "play" /\ card = "source" /\ ipc = "idle"
    /\ at' = After(at)
    /\ IF at % 2 = 0
       THEN UNCHANGED <<page, ipc, content>>
       ELSE page' = NextPage(page) /\ ipc' = "mix" /\ content' = Through
    /\ UNCHANGED <<setting, installed, running, line, gate, masked, flag, callback, channel,
                   mpc, low, lapse>>

-----------------------------------------------------------------------------
(* The main program.                                                       *)

Undisturbed == ipc = "idle" /\ ~Pending

\* MV_Init, up to MV_StartPlayback; BLASTER_Init resets the DSP.
InitCard ==
    /\ mpc = "run" /\ ~installed /\ Undisturbed
    /\ installed' = TRUE /\ mpc' = "init"
    /\ line' = (line /\ card \notin {"dsp1", "dsp2"})
    /\ UNCHANGED <<setting, running, at, gate, masked, flag, callback, page, channel, isr,
                   content, lapse>>

\* MV_StartRecording, MV_StopRecord and MV_Shutdown stop the card first: they
\* take its interrupt away ...
StopCard(next) ==
    /\ mpc = "run" /\ installed /\ Undisturbed
    /\ masked' = TRUE /\ gate' = FALSE
    /\ mpc' = next
    /\ UNCHANGED <<setting, installed, running, at, line, flag, callback, page, channel, isr,
                   content, lapse>>

StartRecording == card \in {"dsp1", "dsp2", "pas"} /\ StopCard("stop, record")
StopRecord     == card \in {"dsp1", "dsp2", "pas"} /\ StopCard("stop, play")
\* MV_Shutdown of a recording calls MV_StopRecord before.
Shutdown       == flag # "record" /\ StopCard("stop")

\* ... and halt it.  A DSP in its high-speed mode is reset, and forgets an
\* interrupt it has asked for meanwhile.
Halt(next) ==
    /\ ipc = "idle"
    /\ mpc' = next
    /\ running' = "off" /\ flag' = "off"
    /\ \/ line' = line
       \/ card = "dsp2" /\ line' = FALSE
    /\ UNCHANGED <<setting, at, gate, masked, page, channel, isr, content, lapse>>

HaltToPlay   == mpc = "stop, play" /\ Halt("play") /\ UNCHANGED <<installed, callback>>
HaltToRecord == mpc = "stop, record" /\ Halt("record") /\ UNCHANGED <<installed, callback>>
HaltForGood  == mpc = "stop" /\ Halt("run") /\ installed' = FALSE /\ callback' = "none"

\* (Mutant: an interrupt of the PAS that has waited is not flushed.)
EnableUnflushed == masked' = FALSE /\ gate' = TRUE /\ UNCHANGED line

\* PAS_EnableInterrupt flushes it, the others do not.
EnableInterrupt ==
    /\ masked' = FALSE /\ gate' = TRUE
    /\ line' = (line /\ card # "pas")

Wanted == IF mpc = "record" THEN "record" ELSE "play"

\* MV_StartPlayback clears the buffer and begins with page 1, MV_StartRecording
\* with page 0; then BLASTER_BeginBufferedPlayback and its kind set up DMA and
\* callback and enable the interrupt.  All of this is done with it masked.
Prepare ==
    /\ mpc \in {"init", "play", "record"} /\ ipc = "idle"
    /\ content' = [p \in PageIds |-> "blank"]
    /\ page' = IF Wanted = "record" THEN 0 ELSE 1
    /\ at' = 0 /\ lapse' = FALSE
    /\ callback' = Wanted
    /\ EnableInterrupt
    /\ mpc' = "transfer"
    /\ UNCHANGED <<setting, installed, running, flag, channel, isr>>

\* The DMA channel does not exist: an error, after which MV_Init shuts the card
\* down.  The driver of the PAS has set the callback before.
Fail ==
    /\ mpc \in {"init", "play", "record"} /\ ipc = "idle" /\ card # "source"
    /\ content' = [p \in PageIds |-> "blank"]
    /\ page' = IF Wanted = "record" THEN 0 ELSE 1
    /\ installed' = (mpc # "init") /\ mpc' = "run"
    /\ callback' = IF mpc = "init" THEN "none" ELSE IF card = "pas" THEN Wanted ELSE callback
    /\ UNCHANGED <<setting, hw, flag, channel, isr, lapse>>

\* The commands that start the card ...
Transfer ==
    /\ mpc = "transfer" /\ Undisturbed
    /\ running' = callback /\ flag' = callback
    /\ mpc' = IF callback = "play" THEN "channel" ELSE "run"
    /\ UNCHANGED <<setting, installed, at, line, gate, masked, callback, page, channel, isr,
                   content, lapse>>

\* ... and MV_DMAChannel.
SetChannel ==
    /\ mpc = "channel" /\ Undisturbed
    /\ channel' = (card # "source")
    /\ mpc' = "run"
    /\ UNCHANGED <<setting, installed, hw, flag, callback, page, isr, content, lapse>>

-----------------------------------------------------------------------------
Handler  == Interrupt \/ ReadLow \/ ReadHigh \/ Mix \/ Give
MainStep == HaltToPlay \/ HaltToRecord \/ HaltForGood \/ Prepare \/ Fail \/ Transfer
            \/ SetChannel
Call     == InitCard \/ StartRecording \/ StopRecord \/ Shutdown

Next == Advance \/ Feed \/ Handler \/ MainStep \/ Call

Spec == Init /\ [][Next]_vars

-----------------------------------------------------------------------------
(* Properties.                                                             *)

TypeOK ==
    /\ card \in Cards /\ skew \in Skews
    /\ installed \in BOOLEAN /\ channel \in BOOLEAN /\ lapse \in BOOLEAN
    /\ running \in {"off", "play", "record"} /\ flag \in {"off", "play", "record"}
    /\ at \in 0..2 * Pages - 1
    /\ line \in BOOLEAN /\ gate \in BOOLEAN /\ masked \in BOOLEAN
    /\ callback \in {"none", "play", "record"}
    /\ page \in PageIds /\ low \in {0, 1}
    /\ mpc \in {"run", "init", "play", "record", "stop", "stop, play", "stop, record",
                "transfer", "channel"}
    /\ ipc \in {"idle", "low", "high", "mix", "give"}
    /\ content \in [PageIds -> {"blank", "full", "old"}]

\* MV_ServiceVoc mixes into the page behind the one that plays at that moment,
\* however late the interrupt is, and whether it asks the DMA controller while it
\* goes on or counts - unless the address it reads is torn.
MixesAhead ==
    [][ipc # "mix" /\ ipc' = "mix" /\ ~Torn => page' = NextPage(at' \div 2)]_vars

\* Until the card is being stopped, every page that is played is new, and none is
\* mixed twice: nothing of a sound is repeated or lost, also when an interrupt of
\* an earlier transfer arrives - as long as no interrupt has waited for a whole
\* page and no address was torn.
EveryPageOnce ==
    ~lapse /\ ~masked =>
             /\ running = "play" => content[Page] # "old"
             /\ ipc = "mix" => content[page] # "full"

\* As long as no interrupt has waited for a whole page, what a PAS gives to the
\* program has been recorded and not been given before, whatever was played or
\* recorded earlier.
GivesWhatIsRecorded ==
    card = "pas" /\ ~lapse /\ ipc = "give" => content[page] = "full"

-----------------------------------------------------------------------------
(* Liveness.  The card transfers, the handler and the main program's calls *)
(* go on; no program has to call anything.                                 *)

FairSpec == Spec /\ WF_vars(Advance \/ Feed) /\ WF_vars(Handler) /\ WF_vars(MainStep)

\* What has been mixed is played, unless playback stops: no card stands still.
PlaybackGoesOn ==
    \A p \in PageIds : content[p] = "full" ~> content[p] # "full" \/ flag # "play"
=============================================================================
