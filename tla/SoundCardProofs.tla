--------------------------- MODULE SoundCardProofs ---------------------------
(***************************************************************************)
(* Proofs about SoundCard, for every number of pages and every kind of     *)
(* card: the variables keep their types, MV_ServiceVoc mixes into the page *)
(* behind the one that plays, no page is played or mixed twice, and a      *)
(* recording is given once.                                                *)
(***************************************************************************)
EXTENDS SoundCard, TLAPS

\* Before the commands that start the card, nothing plays and nothing will be
\* restarted by a handler.
OffInv ==
    /\ \/ mpc \in {"init", "play", "record", "transfer"}
       \/ mpc = "run" /\ ~installed
       => running = "off" /\ flag = "off"
    /\ mpc # "run" => installed
    /\ mpc = "transfer" => callback # "none"

\* The Sound Source counts its pages, and so no step of SS_ServiceInterrupt may be
\* lost: MV_MixPage is always the page behind.
SourceInv ==
    card = "source" =>
        /\ ~line /\ ipc \in {"idle", "mix"}
        /\ mpc \in {"run", "init", "stop", "transfer", "channel"}
        /\ mpc = "transfer" => at = 0 /\ page = 1 /\ ipc = "idle"
        /\ running = "play" => page = NextPage(at \div 2)

\* The other cards count until MV_StartPlayback has set MV_DMAChannel for the first
\* time, during MV_Init, where no critical section holds an interrupt up.
FirstInv ==
    card # "source" /\ ~channel =>
        /\ mpc \in {"run", "init", "transfer", "channel"} /\ ipc \in {"idle", "mix"}
        /\ mpc = "run" => ~installed
        /\ mpc # "channel" => ipc = "idle" /\ ~line
        /\ mpc = "transfer" => at = 0 /\ page = 1
        /\ mpc \in {"transfer", "channel"} => ~masked /\ gate /\ callback = "play"
        /\ mpc = "channel" => IF line THEN ipc = "idle" /\ page = at \div 2
                                      ELSE page = NextPage(at \div 2)

IInv == TypeOK /\ OffInv /\ SourceInv /\ FirstInv
-----------------------------------------------------------------------------
(* Pages and half pages.                                                   *)

\* The assumption about the number of pages.
LEMMA PagesNat == Pages \in Nat /\ Pages >= 3
  BY ConstantsAssumption

\* MV_ServiceVoc brings a page up to one off at either end back into the buffer.
LEMMA NextPageType ==
    ASSUME NEW p \in -1..Pages
    PROVE  NextPage(p) \in PageIds
  BY PagesNat DEF NextPage, PageIds

\* The card stays in the buffer.
LEMMA AfterType ==
    ASSUME NEW a \in 0..2 * Pages - 1
    PROVE  After(a) \in 0..2 * Pages - 1
  BY PagesNat DEF After

\* The card stays in a page for two halves and then goes into the next one.
LEMMA AfterPage ==
    ASSUME NEW a \in 0..2 * Pages - 1
    PROVE  After(a) \div 2 = IF a % 2 = 0 THEN a \div 2 ELSE NextPage(a \div 2)
  BY PagesNat DEF After, NextPage

\* The address that is read is at most one page off ...
LEMMA PositionType ==
    ASSUME at \in 0..2 * Pages - 1, low \in {0, 1}, skew \in {0, 1}
    PROVE  Position \in -1..Pages
  BY PagesNat DEF Position

\* ... and it is right if it is not torn.
LEMMA PositionRight ==
    ASSUME at \in 0..2 * Pages - 1, low \in {0, 1}, skew \in {0, 1},
           skew = 1 => low = (at + skew) % 2
    PROVE  Position = at \div 2
<1>1. CASE skew = 0
  BY <1>1, PagesNat DEF Position
<1>2. CASE skew = 1
  BY <1>2, PagesNat DEF Position
<1> QED BY <1>1, <1>2

-----------------------------------------------------------------------------
(* The invariant.                                                          *)

\* TypeOK, in the parts that need different kinds of reasoning.
BoolType ==
    /\ installed \in BOOLEAN /\ channel \in BOOLEAN /\ lapse \in BOOLEAN
    /\ line \in BOOLEAN /\ gate \in BOOLEAN /\ masked \in BOOLEAN

WordType ==
    /\ card \in Cards /\ skew \in Skews
    /\ running \in {"off", "play", "record"} /\ flag \in {"off", "play", "record"}
    /\ callback \in {"none", "play", "record"}
    /\ mpc \in {"run", "init", "play", "record", "stop", "stop, play", "stop, record",
                "transfer", "channel"}
    /\ ipc \in {"idle", "low", "high", "mix", "give"}
    /\ content \in [PageIds -> {"blank", "full", "old"}]

NumType == at \in 0..2 * Pages - 1 /\ page \in PageIds /\ low \in {0, 1}

\* Where the buffer may begin.
LEMMA SkewType == TypeOK => skew \in {0, 1}
  BY ConstantsAssumption DEF TypeOK

\* A page of the buffer is one that MV_ServiceVoc can go on from.
LEMMA PageRange == ASSUME page \in PageIds PROVE page \in -1..Pages
  BY PagesNat DEF PageIds

\* The low half of an address is one of two.
LEMMA LowType ==
    ASSUME at \in 0..2 * Pages - 1, skew \in {0, 1}
    PROVE  (at + skew) % 2 \in {0, 1}
  BY PagesNat

\* Transfers begin with the first half of page 0; the buffer has a page 1 ...
LEMMA FirstPages == 0 \in 0..2 * Pages - 1 /\ 0 \in PageIds /\ 1 \in PageIds
  BY PagesNat DEF PageIds

\* ... which is the one that MV_StartPlayback begins to mix with.
LEMMA FirstPage == NextPage(0 \div 2) = 1
  BY PagesNat DEF NextPage

\* The invariant holds before the first MV_Init ...
LEMMA InvInit == Init => IInv
<1> SUFFICES ASSUME Init PROVE IInv
  OBVIOUS
<1> USE DEF Init
<1>1. BoolType
  BY DEF BoolType
<1>2. WordType
  BY ConstantsAssumption DEF WordType
<1>3. NumType
  BY PagesNat DEF NumType, PageIds
<1>4. TypeOK
  BY <1>1, <1>2, <1>3 DEF TypeOK, BoolType, WordType, NumType
<1>5. OffInv /\ SourceInv /\ FirstInv
  BY DEF OffInv, SourceInv, FirstInv
<1> QED BY <1>4, <1>5 DEF IInv

\* ... and each step keeps the types,
LEMMA TypeStep ==
    ASSUME IInv, [Next]_vars
    PROVE  TypeOK'
<1> USE DEF IInv, OffInv, TypeOK, setting, hw, isr
<1>1. CASE Advance
  <2>1. BoolType'
    BY <1>1 DEF Advance, Through, BoolType
  <2>2. WordType'
    BY <1>1 DEF Advance, Through, WordType
  <2>3. NumType'
    <3>1. at' \in 0..2 * Pages - 1
      BY <1>1, AfterType DEF Advance
    <3>2. page' \in PageIds
      BY <1>1 DEF Advance
    <3>3. low' \in {0, 1}
      BY <1>1 DEF Advance
    <3> QED BY <3>1, <3>2, <3>3 DEF NumType
  <2> QED BY <2>1, <2>2, <2>3 DEF TypeOK, BoolType, WordType, NumType
<1>2. CASE Feed
  <2>1. BoolType'
    BY <1>2 DEF Feed, Through, BoolType
  <2>2. WordType'
    BY <1>2 DEF Feed, Through, WordType
  <2>3. NumType'
    <3>1. at' \in 0..2 * Pages - 1
      BY <1>2, AfterType DEF Feed
    <3>2. page' \in PageIds
      BY <1>2, NextPageType, PageRange DEF Feed
    <3>3. low' \in {0, 1}
      BY <1>2 DEF Feed
    <3> QED BY <3>1, <3>2, <3>3 DEF NumType
  <2> QED BY <2>1, <2>2, <2>3 DEF TypeOK, BoolType, WordType, NumType
<1>3. CASE Interrupt
  <2>1. BoolType'
    BY <1>3 DEF Interrupt, Acknowledge, Restart, BoolType
  <2>2. WordType'
    BY <1>3 DEF Interrupt, Acknowledge, Restart, WordType
  <2>3. NumType'
    <3>1. at' \in 0..2 * Pages - 1
      BY <1>3 DEF Interrupt
    <3>2. page' \in PageIds
      BY <1>3, NextPageType, PageRange DEF Interrupt
    <3>3. low' \in {0, 1}
      BY <1>3 DEF Interrupt
    <3> QED BY <3>1, <3>2, <3>3 DEF NumType
  <2> QED BY <2>1, <2>2, <2>3 DEF TypeOK, BoolType, WordType, NumType
<1>4. CASE ReadLow
  <2>1. BoolType'
    BY <1>4 DEF ReadLow, BoolType
  <2>2. WordType'
    BY <1>4 DEF ReadLow, WordType
  <2>3. NumType'
    <3>1. at' \in 0..2 * Pages - 1
      BY <1>4 DEF ReadLow
    <3>2. page' \in PageIds
      BY <1>4 DEF ReadLow
    <3>3. low' \in {0, 1}
      BY <1>4, LowType, SkewType DEF ReadLow
    <3> QED BY <3>1, <3>2, <3>3 DEF NumType
  <2> QED BY <2>1, <2>2, <2>3 DEF TypeOK, BoolType, WordType, NumType
<1>5. CASE ReadHigh
  <2>1. BoolType'
    BY <1>5 DEF ReadHigh, BoolType
  <2>2. WordType'
    BY <1>5 DEF ReadHigh, WordType
  <2>3. NumType'
    <3>1. at' \in 0..2 * Pages - 1
      BY <1>5 DEF ReadHigh
    <3>2. page' \in PageIds
      BY <1>5, NextPageType, PositionType, SkewType DEF ReadHigh
    <3>3. low' \in {0, 1}
      BY <1>5 DEF ReadHigh
    <3> QED BY <3>1, <3>2, <3>3 DEF NumType
  <2> QED BY <2>1, <2>2, <2>3 DEF TypeOK, BoolType, WordType, NumType
<1>6. CASE Mix
  <2>1. BoolType'
    BY <1>6 DEF Mix, BoolType
  <2>2. WordType'
    BY <1>6 DEF Mix, WordType
  <2>3. NumType'
    BY <1>6 DEF Mix, NumType
  <2> QED BY <2>1, <2>2, <2>3 DEF TypeOK, BoolType, WordType, NumType
<1>7. CASE Give
  <2>1. BoolType'
    BY <1>7 DEF Give, BoolType
  <2>2. WordType'
    BY <1>7 DEF Give, WordType
  <2>3. NumType'
    <3>1. at' \in 0..2 * Pages - 1
      BY <1>7 DEF Give
    <3>2. page' \in PageIds
      BY <1>7, NextPageType, PageRange DEF Give
    <3>3. low' \in {0, 1}
      BY <1>7 DEF Give
    <3> QED BY <3>1, <3>2, <3>3 DEF NumType
  <2> QED BY <2>1, <2>2, <2>3 DEF TypeOK, BoolType, WordType, NumType
<1>8. CASE HaltToPlay
  BY <1>8 DEF HaltToPlay, Halt
<1>9. CASE HaltToRecord
  BY <1>9 DEF HaltToRecord, Halt
<1>10. CASE HaltForGood
  BY <1>10 DEF HaltForGood, Halt
<1>11. CASE Prepare
  <2>1. BoolType'
    BY <1>11 DEF Prepare, EnableInterrupt, Wanted, BoolType
  <2>2. WordType'
    BY <1>11 DEF Prepare, EnableInterrupt, Wanted, WordType
  <2>3. NumType'
    <3>1. at' \in 0..2 * Pages - 1
      BY <1>11, FirstPages DEF Prepare
    <3>2. page' \in PageIds
      BY <1>11, FirstPages DEF Prepare
    <3>3. low' \in {0, 1}
      BY <1>11 DEF Prepare
    <3> QED BY <3>1, <3>2, <3>3 DEF NumType
  <2> QED BY <2>1, <2>2, <2>3 DEF TypeOK, BoolType, WordType, NumType
<1>12. CASE Fail
  <2>1. BoolType'
    BY <1>12 DEF Fail, Wanted, BoolType
  <2>2. WordType'
    BY <1>12 DEF Fail, Wanted, WordType
  <2>3. NumType'
    <3>1. at' \in 0..2 * Pages - 1
      BY <1>12 DEF Fail
    <3>2. page' \in PageIds
      BY <1>12, FirstPages DEF Fail
    <3>3. low' \in {0, 1}
      BY <1>12 DEF Fail
    <3> QED BY <3>1, <3>2, <3>3 DEF NumType
  <2> QED BY <2>1, <2>2, <2>3 DEF TypeOK, BoolType, WordType, NumType
<1>13. CASE Transfer
  BY <1>13 DEF Transfer
<1>14. CASE SetChannel
  BY <1>14 DEF SetChannel
<1>15. CASE InitCard
  BY <1>15 DEF InitCard
<1>16. CASE StartRecording
  BY <1>16 DEF StartRecording, StopCard
<1>17. CASE StopRecord
  BY <1>17 DEF StopRecord, StopCard
<1>18. CASE Shutdown
  BY <1>18 DEF Shutdown, StopCard
<1>19. CASE UNCHANGED vars
  <2>1. BoolType'
    BY <1>19 DEF vars, BoolType
  <2>2. WordType'
    BY <1>19 DEF vars, WordType
  <2>3. NumType'
    BY <1>19 DEF vars, NumType
  <2> QED BY <2>1, <2>2, <2>3 DEF TypeOK, BoolType, WordType, NumType
<1> QED
  BY <1>1, <1>2, <1>3, <1>4, <1>5, <1>6, <1>7, <1>8, <1>9,
     <1>10, <1>11, <1>12, <1>13, <1>14, <1>15, <1>16, <1>17, <1>18, <1>19
  DEF Next, Handler, MainStep, Call

\* what is off before a start,
LEMMA OffStep ==
    ASSUME IInv, [Next]_vars
    PROVE  OffInv'
<1> USE DEF IInv, OffInv, TypeOK, setting, hw, isr
<1>1. CASE Advance
  BY <1>1 DEF Advance, Through
<1>2. CASE Feed
  BY <1>2 DEF Feed, Through
<1>3. CASE Interrupt
  BY <1>3 DEF Interrupt, Acknowledge, Restart
<1>4. CASE ReadLow
  BY <1>4 DEF ReadLow
<1>5. CASE ReadHigh
  BY <1>5 DEF ReadHigh
<1>6. CASE Mix
  BY <1>6 DEF Mix
<1>7. CASE Give
  BY <1>7 DEF Give
<1>8. CASE HaltToPlay
  BY <1>8 DEF HaltToPlay, Halt
<1>9. CASE HaltToRecord
  BY <1>9 DEF HaltToRecord, Halt
<1>10. CASE HaltForGood
  BY <1>10 DEF HaltForGood, Halt
<1>11. CASE Prepare
  BY <1>11 DEF Prepare, EnableInterrupt, Wanted
<1>12. CASE Fail
  BY <1>12 DEF Fail, Wanted
<1>13. CASE Transfer
  BY <1>13 DEF Transfer
<1>14. CASE SetChannel
  BY <1>14 DEF SetChannel
<1>15. CASE InitCard
  BY <1>15 DEF InitCard
<1>16. CASE StartRecording
  BY <1>16 DEF StartRecording, StopCard
<1>17. CASE StopRecord
  BY <1>17 DEF StopRecord, StopCard
<1>18. CASE Shutdown
  BY <1>18 DEF Shutdown, StopCard
<1>19. CASE UNCHANGED vars
  BY <1>19 DEF vars
<1> QED
  BY <1>1, <1>2, <1>3, <1>4, <1>5, <1>6, <1>7, <1>8, <1>9,
     <1>10, <1>11, <1>12, <1>13, <1>14, <1>15, <1>16, <1>17, <1>18, <1>19
  DEF Next, Handler, MainStep, Call

\* the page of the Sound Source,
LEMMA SourceStep ==
    ASSUME IInv, [Next]_vars
    PROVE  SourceInv'
<1> USE DEF IInv, OffInv, SourceInv, TypeOK, setting, hw, isr
<1>1. CASE Advance
  BY <1>1 DEF Advance, Through
<1>2. CASE Feed
  <2> SUFFICES ASSUME card = "source"
               PROVE  page' = NextPage(at' \div 2)
    BY <1>2 DEF Feed
  <2>1. page = NextPage(at \div 2)
    BY <1>2 DEF Feed
  <2>2. CASE at % 2 = 0
    <3>1. at' \div 2 = at \div 2
      BY <1>2, <2>2, AfterPage DEF Feed
    <3>2. page' = page
      BY <1>2, <2>2 DEF Feed
    <3> QED BY <2>1, <3>1, <3>2
  <2>3. CASE at % 2 # 0
    <3>1. at' \div 2 = NextPage(at \div 2)
      BY <1>2, <2>3, AfterPage DEF Feed
    <3>2. page' = NextPage(page)
      BY <1>2, <2>3 DEF Feed
    <3> QED BY <2>1, <3>1, <3>2
  <2> QED BY <2>2, <2>3
<1>3. CASE Interrupt
  BY <1>3 DEF Interrupt, Pending
<1>4. CASE ReadLow
  BY <1>4 DEF ReadLow
<1>5. CASE ReadHigh
  BY <1>5 DEF ReadHigh
<1>6. CASE Mix
  BY <1>6 DEF Mix
<1>7. CASE Give
  BY <1>7 DEF Give
<1>8. CASE HaltToPlay
  BY <1>8 DEF HaltToPlay, Halt
<1>9. CASE HaltToRecord
  BY <1>9 DEF HaltToRecord, Halt
<1>10. CASE HaltForGood
  BY <1>10 DEF HaltForGood, Halt
<1>11. CASE Prepare
  BY <1>11 DEF Prepare, EnableInterrupt, Wanted
<1>12. CASE Fail
  BY <1>12 DEF Fail, Wanted
<1>13. CASE Transfer
  BY <1>13, FirstPage DEF Transfer
<1>14. CASE SetChannel
  BY <1>14 DEF SetChannel
<1>15. CASE InitCard
  BY <1>15 DEF InitCard
<1>16. CASE StartRecording
  BY <1>16 DEF StartRecording, StopCard
<1>17. CASE StopRecord
  BY <1>17 DEF StopRecord, StopCard
<1>18. CASE Shutdown
  BY <1>18 DEF Shutdown, StopCard
<1>19. CASE UNCHANGED vars
  BY <1>19 DEF vars
<1> QED
  BY <1>1, <1>2, <1>3, <1>4, <1>5, <1>6, <1>7, <1>8, <1>9,
     <1>10, <1>11, <1>12, <1>13, <1>14, <1>15, <1>16, <1>17, <1>18, <1>19
  DEF Next, Handler, MainStep, Call

\* and the page of the first start.
LEMMA FirstStep ==
    ASSUME IInv, [Next]_vars
    PROVE  FirstInv'
<1> USE DEF IInv, OffInv, FirstInv, TypeOK, setting, hw, isr
<1>1. CASE Advance
  <2> SUFFICES ASSUME card # "source", ~channel
               PROVE  FirstInv'
    BY <1>1 DEF Advance
  <2>1. mpc = "channel"
    BY <1>1 DEF Advance
  <2>2. ~line /\ ipc = "idle"
    BY <1>1, <2>1 DEF Advance, Pending
  <2>3. page = NextPage(at \div 2)
    BY <2>1, <2>2
  <2>4. CASE at % 2 = 0
    <3>1. at' \div 2 = at \div 2
      BY <1>1, <2>4, AfterPage DEF Advance
    <3>2. ~line'
      BY <1>1, <2>2, <2>4 DEF Advance
    <3> QED BY <1>1, <2>1, <2>2, <2>3, <3>1, <3>2 DEF Advance
  <2>5. CASE at % 2 # 0
    <3>1. at' \div 2 = NextPage(at \div 2)
      BY <1>1, <2>5, AfterPage DEF Advance
    <3>2. line'
      BY <1>1, <2>5 DEF Advance
    <3> QED BY <1>1, <2>1, <2>2, <2>3, <3>1, <3>2 DEF Advance
  <2> QED BY <2>4, <2>5
<1>2. CASE Feed
  BY <1>2 DEF Feed, Through
<1>3. CASE Interrupt
  <2> SUFFICES ASSUME card # "source", ~channel
               PROVE  FirstInv'
    BY <1>3 DEF Interrupt
  <2>1. line /\ mpc = "channel"
    BY <1>3 DEF Interrupt, Pending
  <2>2. page = at \div 2 /\ callback = "play"
    BY <2>1
  <2>3. ipc' = "mix" /\ page' = NextPage(page)
    BY <1>3, <2>2 DEF Interrupt
  <2> QED BY <1>3, <2>1, <2>2, <2>3 DEF Interrupt, Acknowledge
<1>4. CASE ReadLow
  BY <1>4 DEF ReadLow
<1>5. CASE ReadHigh
  BY <1>5 DEF ReadHigh
<1>6. CASE Mix
  BY <1>6 DEF Mix
<1>7. CASE Give
  BY <1>7 DEF Give
<1>8. CASE HaltToPlay
  BY <1>8 DEF HaltToPlay, Halt
<1>9. CASE HaltToRecord
  BY <1>9 DEF HaltToRecord, Halt
<1>10. CASE HaltForGood
  BY <1>10 DEF HaltForGood, Halt
<1>11. CASE Prepare
  BY <1>11 DEF Prepare, EnableInterrupt, Wanted
<1>12. CASE Fail
  BY <1>12 DEF Fail, Wanted
<1>13. CASE Transfer
  BY <1>13, FirstPage DEF Transfer
<1>14. CASE SetChannel
  BY <1>14 DEF SetChannel
<1>15. CASE InitCard
  BY <1>15 DEF InitCard
<1>16. CASE StartRecording
  BY <1>16 DEF StartRecording, StopCard
<1>17. CASE StopRecord
  BY <1>17 DEF StopRecord, StopCard
<1>18. CASE Shutdown
  BY <1>18 DEF Shutdown, StopCard
<1>19. CASE UNCHANGED vars
  BY <1>19 DEF vars
<1> QED
  BY <1>1, <1>2, <1>3, <1>4, <1>5, <1>6, <1>7, <1>8, <1>9,
     <1>10, <1>11, <1>12, <1>13, <1>14, <1>15, <1>16, <1>17, <1>18, <1>19
  DEF Next, Handler, MainStep, Call

\* So it holds always.
LEMMA Invariant == Spec => []IInv
<1>1. IInv /\ [Next]_vars => IInv'
  BY TypeStep, OffStep, SourceStep, FirstStep DEF IInv
<1> QED BY InvInit, <1>1, PTL DEF Spec

-----------------------------------------------------------------------------
(* The theorems.                                                           *)

\* Every variable keeps its type, the page of a torn address included.
THEOREM TypeCorrect == Spec => []TypeOK
  BY Invariant, PTL DEF IInv

\* The three steps that begin to mix: a counted page, a position, the Sound Source.
LEMMA MixStep ==
    ASSUME IInv, [Next]_vars, ipc # "mix", ipc' = "mix", ~Torn
    PROVE  page' = NextPage(at' \div 2)
<1> USE DEF IInv, TypeOK, setting, hw, isr
<1>1. CASE Interrupt
  <2>1. line /\ ~channel /\ card # "source"
    BY <1>1 DEF Interrupt, Pending, SourceInv
  <2>2. page = at \div 2
    BY <2>1 DEF FirstInv
  <2> QED BY <1>1, <2>1, <2>2 DEF Interrupt
<1>2. CASE ReadHigh
  <2>1. Position = at \div 2
    BY <1>2, PositionRight, SkewType DEF ReadHigh, Torn
  <2> QED BY <1>2, <2>1 DEF ReadHigh
<1>3. CASE Feed
  <2>1. page' = NextPage(page) /\ at % 2 # 0
    BY <1>3 DEF Feed
  <2>2. page = NextPage(at \div 2)
    BY <1>3 DEF Feed, SourceInv
  <2>3. at' \div 2 = NextPage(at \div 2)
    BY <1>3, <2>1, AfterPage DEF Feed
  <2> QED BY <2>1, <2>2, <2>3
<1> QED
  BY <1>1, <1>2, <1>3
  DEF Next, vars, Handler, MainStep, Call, Advance, ReadLow, Mix, Give, HaltToPlay,
      HaltToRecord, HaltForGood, Halt, Prepare, Fail, Transfer, SetChannel, InitCard,
      StartRecording, StopRecord, Shutdown, StopCard

\* However late the interrupt is, MV_ServiceVoc mixes into the page behind the one
\* that plays, with a position from the DMA controller that is not torn or by
\* counting pages.
THEOREM MixesAheadCorrect == Spec => MixesAhead
<1>1. IInv /\ [Next]_vars
      => [ipc # "mix" /\ ipc' = "mix" /\ ~Torn => page' = NextPage(at' \div 2)]_vars
  BY MixStep
<1> QED BY Invariant, <1>1, PTL DEF Spec, MixesAhead

-----------------------------------------------------------------------------
(* What is in the pages.                                                   *)

\* The interrupt is masked while the card is being stopped, and while there is none;
\* no handler waits for the rest of a page then.
MaskInv ==
    /\ mpc \notin {"run", "transfer", "channel"} \/ ~installed => masked
    /\ ipc \in {"low", "high", "give"} => ~masked
    /\ ~masked => gate

\* While it is not masked, the handler calls what the card has been started for.
ModeInv ==
    ~masked =>
        /\ callback # "none"
        /\ running \in {"off", callback} /\ flag \in {"off", callback}
        /\ ipc \in {"low", "high", "mix"} => callback = "play"
        /\ ipc = "give" => callback = "record"

\* What is to be played ahead: nothing but the next page, and that from when it is
\* mixed until the card gets there.  The next page has been mixed, or never been
\* played, when the handler is done.
AheadInv ==
    ~masked /\ ~lapse /\ callback = "play" =>
        /\ ipc # "idle" => ~line
        /\ \A p \in PageIds \ {Page} :
              content[p] = "full" => p = NextPage(Page) /\ ~line /\ ipc = "idle"
        /\ content[Page] # "old"
        /\ ~line /\ ipc = "idle" => content[NextPage(Page)] # "old"
        /\ ipc = "mix" => page = NextPage(Page)

\* A PAS, which begins without an interrupt, records the page that MV_ServiceRecord
\* will give next, or has just recorded it.
RecordInv ==
    card = "pas" /\ ~masked /\ ~lapse /\ callback = "record" =>
        /\ ~(line /\ ipc = "give")
        /\ IF line \/ ipc = "give"
              THEN NextPage(page) = Page /\ content[page] = "full"
              ELSE page = Page

ContentInv == MaskInv /\ ModeInv /\ AheadInv /\ RecordInv

\* The page that the card is in is one of the buffer ...
LEMMA PageType == ASSUME TypeOK PROVE Page \in PageIds
<1>1. at \in 0..2 * Pages - 1
  BY DEF TypeOK
<1>2. at \div 2 \in 0..Pages - 1
  BY <1>1, PagesNat
<1> QED BY <1>2 DEF Page, PageIds

\* ... and the next one is another.
LEMMA NextPageOther ==
    ASSUME NEW p \in PageIds
    PROVE  NextPage(p) \in PageIds /\ NextPage(p) # p
  BY PagesNat DEF NextPage, PageIds

\* All four hold before the first MV_Init,
LEMMA ContentInit == Init => ContentInv
  BY DEF Init, ContentInv, MaskInv, ModeInv, AheadInv, RecordInv

\* and each step keeps the mask,
LEMMA MaskStep ==
    ASSUME IInv, MaskInv, [Next]_vars
    PROVE  MaskInv'
<1> USE DEF MaskInv, setting, hw, isr
<1>1. CASE Advance
  BY <1>1 DEF Advance
<1>2. CASE Feed
  BY <1>2 DEF Feed
<1>3. CASE Interrupt
  BY <1>3 DEF Interrupt, Pending
<1>4. CASE ReadLow \/ ReadHigh \/ Mix \/ Give
  BY <1>4 DEF ReadLow, ReadHigh, Mix, Give
<1>5. CASE HaltToPlay \/ HaltToRecord
  BY <1>5 DEF HaltToPlay, HaltToRecord, Halt
<1>6. CASE HaltForGood
  BY <1>6 DEF HaltForGood, Halt
<1>7. CASE Prepare
  BY <1>7 DEF Prepare, EnableInterrupt, IInv, OffInv
<1>8. CASE Fail
  BY <1>8 DEF Fail
<1>9. CASE Transfer \/ SetChannel
  BY <1>9 DEF Transfer, SetChannel, IInv, OffInv
<1>10. CASE Call
  BY <1>10 DEF Call, InitCard, StartRecording, StopRecord, Shutdown, StopCard, Undisturbed
<1>11. CASE UNCHANGED vars
  BY <1>11 DEF vars
<1> QED
  BY <1>1, <1>2, <1>3, <1>4, <1>5, <1>6, <1>7, <1>8, <1>9, <1>10, <1>11
  DEF Next, Handler, MainStep

\* what the handler calls,
LEMMA ModeStep ==
    ASSUME IInv, MaskInv, ModeInv, [Next]_vars
    PROVE  ModeInv'
<1> USE DEF IInv, OffInv, SourceInv, MaskInv, ModeInv, TypeOK, setting, hw, isr
<1>1. CASE Advance
  BY <1>1 DEF Advance
<1>2. CASE Feed
  BY <1>2 DEF Feed
<1>3. CASE Handler
  BY <1>3 DEF Handler, Interrupt, Restart, Pending, ReadLow, ReadHigh, Mix, Give
<1>4. CASE MainStep
  BY <1>4 DEF MainStep, HaltToPlay, HaltToRecord, HaltForGood, Halt, Prepare, Wanted,
     EnableInterrupt, Fail, Transfer, SetChannel
<1>5. CASE Call
  BY <1>5 DEF Call, InitCard, StartRecording, StopRecord, Shutdown, StopCard, Undisturbed
<1>6. CASE UNCHANGED vars
  BY <1>6 DEF vars
<1> QED BY <1>1, <1>2, <1>3, <1>4, <1>5, <1>6 DEF Next

\* what is to be played,
LEMMA AheadStep ==
    ASSUME IInv, MaskInv, ModeInv, AheadInv, [Next]_vars
    PROVE  AheadInv'
<1> SUFFICES ASSUME ~masked', ~lapse', callback' = "play"
             PROVE  AheadInv'
  BY DEF AheadInv
<1> USE DEF setting, hw, isr
<1>t. Page \in PageIds /\ content \in [PageIds -> {"blank", "full", "old"}]
  BY PageType DEF IInv, TypeOK
<1>n. NextPage(Page) \in PageIds /\ NextPage(Page) # Page
  BY <1>t, NextPageOther
<1>1. CASE Advance
  <2>1. ~masked /\ ~lapse /\ callback = "play"
    BY <1>1 DEF Advance, IInv, TypeOK
  <2>2. UNCHANGED <<ipc, page, masked>>
    BY <1>1 DEF Advance
  <2>3. CASE at % 2 = 0
    <3>1. Page' = Page
      BY <1>1, <2>3, AfterPage DEF Advance, IInv, TypeOK, Page
    <3>2. UNCHANGED <<line, content>>
      BY <1>1, <2>3 DEF Advance
    <3> QED BY <2>1, <2>2, <3>1, <3>2 DEF AheadInv
  <2>4. CASE at % 2 # 0
    <3>1. Page' = NextPage(Page)
      BY <1>1, <2>4, AfterPage DEF Advance, IInv, TypeOK, Page
    <3>2. ~line /\ ipc = "idle" /\ line'
      BY <1>1, <2>1, <2>4 DEF Advance, Pending, MaskInv, IInv, TypeOK
    <3>3. content' = [content EXCEPT ![Page] = "old"]
      BY <1>1, <2>1, <2>4 DEF Advance, Through, ModeInv
    <3> QED BY <1>t, <1>n, <2>1, <2>2, <3>1, <3>2, <3>3 DEF AheadInv
  <2> QED BY <2>3, <2>4
<1>2. CASE Feed
  <2>1. ~masked /\ ~lapse /\ callback = "play" /\ ipc = "idle" /\ ~line
    BY <1>2 DEF Feed, IInv, SourceInv
  <2>2. ~line'
    BY <1>2, <2>1 DEF Feed
  <2>3. CASE at % 2 = 0
    <3>1. Page' = Page
      BY <1>2, <2>3, AfterPage DEF Feed, IInv, TypeOK, Page
    <3>2. UNCHANGED <<ipc, page, content>>
      BY <1>2, <2>3 DEF Feed
    <3> QED BY <2>1, <2>2, <3>1, <3>2 DEF AheadInv
  <2>4. CASE at % 2 # 0
    <3>1. Page' = NextPage(Page)
      BY <1>2, <2>4, AfterPage DEF Feed, IInv, TypeOK, Page
    <3>2. ipc' = "mix" /\ page' = NextPage(Page')
      BY <1>2, <2>4, <3>1 DEF Feed, IInv, SourceInv, Page
    <3>3. content' = [content EXCEPT ![Page] = "old"]
      BY <1>2, <2>4 DEF Feed, Through
    <3> QED BY <1>t, <1>n, <2>1, <2>2, <3>1, <3>2, <3>3 DEF AheadInv
  <2> QED BY <2>3, <2>4
<1>3. CASE Interrupt
  <2>1. ~masked /\ ~lapse /\ callback = "play" /\ line /\ ipc = "idle"
    BY <1>3 DEF Interrupt, Pending
  <2>2. ~line' /\ ipc' # "idle" /\ Page' = Page /\ content' = content
    BY <1>3, <2>1 DEF Interrupt, Acknowledge, Page
  <2>3. ipc' = "mix" => page' = NextPage(Page')
    <3> SUFFICES ASSUME ipc' = "mix" PROVE page' = NextPage(Page')
      OBVIOUS
    <3>1. ~channel /\ page' = NextPage(page)
      BY <1>3 DEF Interrupt
    <3>2. card # "source"
      BY <2>1 DEF IInv, SourceInv
    <3>3. page = Page
      BY <2>1, <3>1, <3>2, <1>3 DEF IInv, FirstInv, Page
    <3> QED BY <2>2, <3>1, <3>3
  <2> QED BY <2>1, <2>2, <2>3 DEF AheadInv
<1>4. CASE ReadLow
  BY <1>4 DEF ReadLow, AheadInv, Page
<1>5. CASE ReadHigh
  <2>1. ~masked /\ ~lapse /\ callback = "play" /\ ipc = "high" /\ ~Torn
    BY <1>5 DEF ReadHigh, IInv, TypeOK
  <2>2. Position = Page
    BY <1>5, <2>1, PositionRight, SkewType DEF Torn, IInv, TypeOK, Page
  <2>3. page' = NextPage(Page') /\ ipc' = "mix" /\ Page' = Page
    BY <1>5, <2>2 DEF ReadHigh, Page
  <2>4. UNCHANGED <<line, content>>
    BY <1>5 DEF ReadHigh
  <2> QED BY <2>1, <2>3, <2>4 DEF AheadInv
<1>6. CASE Mix
  <2>1. ~masked /\ ~lapse /\ callback = "play" /\ ipc = "mix"
    BY <1>6 DEF Mix
  <2>2. page = NextPage(Page) /\ ~line
    BY <2>1 DEF AheadInv
  <2>3. content' = [content EXCEPT ![NextPage(Page)] = "full"]
    BY <1>6, <2>2 DEF Mix
  <2>4. ipc' = "idle" /\ ~line' /\ Page' = Page
    BY <1>6, <2>2 DEF Mix, Page
  <2> QED BY <1>t, <1>n, <2>1, <2>2, <2>3, <2>4 DEF AheadInv
<1>7. CASE Give
  BY <1>7 DEF Give, ModeInv
<1>8. CASE Prepare
  <2>1. ipc' = "idle" /\ content' = [p \in PageIds |-> "blank"]
    BY <1>8 DEF Prepare
  <2>2. Page' \in PageIds /\ NextPage(Page') \in PageIds
    BY <1>8, FirstPages, FirstPage DEF Prepare, Page, PageIds
  <2> QED BY <2>1, <2>2 DEF AheadInv
<1>9. CASE HaltToPlay \/ HaltToRecord \/ HaltForGood \/ Fail
  BY <1>9 DEF HaltToPlay, HaltToRecord, HaltForGood, Fail, Halt, MaskInv
<1>10. CASE Transfer \/ SetChannel
  BY <1>10 DEF Transfer, SetChannel, AheadInv, Page
<1>11. CASE Call
  BY <1>11 DEF Call, InitCard, StartRecording, StopRecord, Shutdown, StopCard, MaskInv
<1>12. CASE UNCHANGED vars
  BY <1>12 DEF vars, AheadInv, Page
<1> QED
  BY <1>1, <1>2, <1>3, <1>4, <1>5, <1>6, <1>7, <1>8, <1>9, <1>10, <1>11, <1>12
  DEF Next, Handler, MainStep

\* and what has been recorded.
LEMMA RecordStep ==
    ASSUME IInv, MaskInv, ModeInv, RecordInv, [Next]_vars
    PROVE  RecordInv'
<1> SUFFICES ASSUME card' = "pas", ~masked', ~lapse', callback' = "record"
             PROVE  RecordInv'
  BY DEF RecordInv
<1> USE DEF setting, hw, isr
<1>t. Page \in PageIds /\ content \in [PageIds -> {"blank", "full", "old"}]
  BY PageType DEF IInv, TypeOK
<1>1. CASE Advance
  <2>1. card = "pas" /\ ~masked /\ ~lapse /\ callback = "record"
    BY <1>1 DEF Advance, IInv, TypeOK
  <2>2. UNCHANGED <<ipc, page, masked>>
    BY <1>1 DEF Advance
  <2>3. CASE at % 2 = 0
    <3>1. Page' = Page
      BY <1>1, <2>3, AfterPage DEF Advance, IInv, TypeOK, Page
    <3>2. UNCHANGED <<line, content>>
      BY <1>1, <2>3 DEF Advance
    <3> QED BY <2>1, <2>2, <3>1, <3>2 DEF RecordInv
  <2>4. CASE at % 2 # 0
    <3>1. Page' = NextPage(Page)
      BY <1>1, <2>4, AfterPage DEF Advance, IInv, TypeOK, Page
    <3>2. ~line /\ ipc = "idle" /\ line'
      BY <1>1, <2>1, <2>4 DEF Advance, Pending, MaskInv, IInv, TypeOK
    <3>3. content' = [content EXCEPT ![Page] = "full"]
      BY <1>1, <2>1, <2>4 DEF Advance, Through, ModeInv
    <3> QED BY <1>t, <2>1, <2>2, <3>1, <3>2, <3>3 DEF RecordInv
  <2> QED BY <2>3, <2>4
<1>2. CASE Feed
  BY <1>2 DEF Feed
<1>3. CASE Interrupt
  BY <1>3 DEF Interrupt, Pending, Acknowledge, RecordInv, Page
<1>4. CASE ReadLow \/ ReadHigh \/ Mix
  BY <1>4 DEF ReadLow, ReadHigh, Mix, ModeInv
<1>5. CASE Give
  <2>1. card = "pas" /\ ~masked /\ ~lapse /\ callback = "record" /\ ipc = "give"
    BY <1>5 DEF Give
  <2>2. NextPage(page) = Page /\ ~line
    BY <2>1 DEF RecordInv
  <2> QED BY <1>5, <2>2 DEF Give, RecordInv, Page
<1>6. CASE Prepare
  <2>1. ~line' /\ ipc' = "idle" /\ at' = 0
    BY <1>6 DEF Prepare, EnableInterrupt
  <2>2. page' = 0
    BY <1>6 DEF Prepare
  <2> QED BY <2>1, <2>2 DEF RecordInv, Page
<1>7. CASE HaltToPlay \/ HaltToRecord \/ HaltForGood \/ Fail
  BY <1>7 DEF HaltToPlay, HaltToRecord, HaltForGood, Fail, Halt, MaskInv
<1>8. CASE Transfer \/ SetChannel
  BY <1>8 DEF Transfer, SetChannel, RecordInv, Page
<1>9. CASE Call
  BY <1>9 DEF Call, InitCard, StartRecording, StopRecord, Shutdown, StopCard, MaskInv
<1>10. CASE UNCHANGED vars
  BY <1>10 DEF vars, RecordInv, Page
<1> QED
  BY <1>1, <1>2, <1>3, <1>4, <1>5, <1>6, <1>7, <1>8, <1>9, <1>10
  DEF Next, Handler, MainStep

\* So they hold always.
LEMMA ContentInvariant == Spec => []ContentInv
<1>1. IInv /\ ContentInv /\ [Next]_vars => ContentInv'
  BY MaskStep, ModeStep, AheadStep, RecordStep DEF ContentInv
<1> QED BY Invariant, ContentInit, <1>1, PTL DEF Spec

\* Every page that the card plays is new and none is mixed twice, for every kind of
\* card and any number of pages, unless an interrupt was too late or an address torn.
THEOREM EveryPageOnceCorrect == Spec => []EveryPageOnce
<1>1. IInv /\ ContentInv => EveryPageOnce
  <2> SUFFICES ASSUME IInv, ContentInv, ~lapse, ~masked
               PROVE  /\ running = "play" => content[Page] # "old"
                      /\ ipc = "mix" => content[page] # "full"
    BY DEF EveryPageOnce
  <2>1. Page \in PageIds /\ NextPage(Page) \in PageIds /\ NextPage(Page) # Page
    BY PageType, NextPageOther DEF IInv
  <2> QED BY <2>1 DEF ContentInv, ModeInv, AheadInv
<1> QED BY Invariant, ContentInvariant, <1>1, PTL

\* A PAS gives the program what has been recorded and not been given before.
THEOREM GivesWhatIsRecordedCorrect == Spec => []GivesWhatIsRecorded
<1>1. ContentInv => GivesWhatIsRecorded
  BY DEF GivesWhatIsRecorded, ContentInv, MaskInv, ModeInv, RecordInv
<1> QED BY ContentInvariant, <1>1, PTL
===============================================================================
