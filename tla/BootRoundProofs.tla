-------------------------- MODULE BootRoundProofs --------------------------
(***************************************************************************)
(* Proofs about BootRound, for every number of phases and passes and every  *)
(* timing that TimingAssumption allows, with commands at any time.  The two *)
(* cores have no lock between them; Timing says how the remaining time of   *)
(* what Core 1 is doing compares with the deadline of Core 0, and every     *)
(* action keeps the difference: Tick because both sides shrink together.    *)
(***************************************************************************)
EXTENDS BootRound, TLAPS

USE SizeAssumption, TimeAssumption, TimingAssumption

(* The flags.                                                                *)
LEMMA FlagStepTypes ==
    ASSUME FlagTypes, [NextCmd]_vars
    PROVE  FlagTypes'
<1> USE DEF FlagTypes,
           core0, core1, shared, timers, rings, alog, hist, bounds
<1>1. CASE Milestone
  BY <1>1 DEF Milestone, Capture, CartRead
<1>2. CASE OtherRead
  BY <1>2 DEF OtherRead, Capture, CartRead
<1>3. CASE Request
  BY <1>3 DEF Request
<1>4. CASE StartRound
  BY <1>4 DEF StartRound
<1>5. CASE PassBegin
  BY <1>5 DEF PassBegin, Rearm, RestartTxn
<1>6. CASE AssertReset
  BY <1>6 DEF AssertReset
<1>7. CASE ReleaseReset
  BY <1>7 DEF ReleaseReset
<1>8. CASE EndWindow
  BY <1>8 DEF EndWindow, StopDrain
<1>9. CASE Verdict
  BY <1>9 DEF Verdict
<1>10. CASE BeginDrain
  BY <1>10 DEF BeginDrain
<1>11. CASE EndDrain
  BY <1>11 DEF EndDrain
<1>12. CASE BeginProbe
  BY <1>12 DEF BeginProbe
<1>13. CASE EndProbe
  BY <1>13 DEF EndProbe
<1>14. CASE Tick
  BY <1>14 DEF Tick
<1>15. CASE CmdReset
  BY <1>15 DEF CmdReset, Command, CartServeResetPipeline
<1>16. CASE ComboReset
  BY <1>16 DEF ComboReset, Command, CartServeResetPipeline
<1>17. CASE CmdRelease
  BY <1>17 DEF CmdRelease
<1>18. CASE EmuOff
  BY <1>18 DEF EmuOff, Command
<1>19. CASE AlogReset
  BY <1>19 DEF AlogReset, Command
<1>20. CASE UNCHANGED vars
  BY <1>20 DEF vars
<1> QED
  BY <1>1, <1>2, <1>3, <1>4, <1>5, <1>6, <1>7, <1>8, <1>9, <1>10, <1>11,
     <1>12, <1>13, <1>14, <1>15, <1>16, <1>17, <1>18, <1>19, <1>20
     DEF NextCmd, Next, Msx, RoundStep, Core1

(* The variables of boot_diag.c and the detector, with their counters.      *)
LEMMA RoundStepTypes ==
    ASSUME RoundTypes, Counting, Timing, [NextCmd]_vars
    PROVE  RoundTypes' /\ Counting'
<1> USE DEF RoundTypes, Counting, Phases, Idle, CartScan,
           core0, core1, shared, timers, rings, alog, hist, bounds
<1>1. CASE Milestone
  BY <1>1 DEF Milestone, Capture
<1>2. CASE OtherRead
  BY <1>2 DEF OtherRead, Capture
<1>3. CASE Request
  BY <1>3 DEF Request
<1>4. CASE StartRound
  BY <1>4 DEF StartRound
<1>5. CASE PassBegin
  BY <1>5 DEF PassBegin, Rearm, RestartTxn
<1>6. CASE AssertReset
  BY <1>6 DEF AssertReset
<1>7. CASE ReleaseReset
  BY <1>7 DEF ReleaseReset, AfterPulse, Timing
<1>8. CASE EndWindow
  BY <1>8 DEF EndWindow, StopDrain, SettleTime
<1>9. CASE Verdict
  <2>1. s_pass \in Nat /\ s_pass < MaxPasses /\ s_pass' = s_pass + 1
    BY <1>9 DEF Verdict
  <2>2. s_anom' \subseteq {"NO_BUS_CYCLES"}
    BY <1>9 DEF Verdict
  <2>3. UNCHANGED <<s_request, s_inited, det, reads, rounds, resets>>
    BY <1>9 DEF Verdict
  <2>4. s_phase' = "DONE" \/ (s_phase' = "PASS_BEGIN" /\ s_pass' < MaxPasses)
    <3>1. CASE ShouldStop BY <1>9, <3>1 DEF Verdict
    <3>2. CASE ~ShouldStop
      <4>1. s_phase' = "PASS_BEGIN" BY <1>9, <3>2 DEF Verdict
      <4> QED BY <2>1, <3>2, <4>1 DEF ShouldStop
    <3> QED BY <3>1, <3>2
  <2> QED BY <2>1, <2>2, <2>3, <2>4
<1>10. CASE BeginDrain
  BY <1>10 DEF BeginDrain
<1>11. CASE EndDrain
  <2>0. HeadersIn(alogrd + 1 .. alogn) \subseteq Phases
    BY DEF HeadersIn
  <2>1. det' \subseteq Phases
    <3>1. det' = det \cup (batch \cap Phases) \cup HeadersIn(alogrd + 1 .. alogn)
      BY <1>11 DEF EndDrain
    <3> QED BY <2>0, <3>1
  <2>3. UNCHANGED <<s_phase, s_pass, s_anom, rounds, resets, s_request>>
    BY <1>11 DEF EndDrain
  <2> QED BY <2>1, <2>3
<1>12. CASE BeginProbe
  BY <1>12 DEF BeginProbe
<1>13. CASE EndProbe
  BY <1>13 DEF EndProbe
<1>14. CASE Tick
  BY <1>14 DEF Tick, Less
<1>15. CASE CmdReset
  BY <1>15 DEF CmdReset, Command, CartServeResetPipeline, PullReset
<1>16. CASE ComboReset
  BY <1>16 DEF ComboReset, Command, CartServeResetPipeline, PullReset
<1>17. CASE CmdRelease
  BY <1>17 DEF CmdRelease
<1>18. CASE EmuOff
  BY <1>18 DEF EmuOff, Command
<1>19. CASE AlogReset
  BY <1>19 DEF AlogReset, Command
<1>20. CASE UNCHANGED vars
  BY <1>20 DEF vars
<1> QED
  BY <1>1, <1>2, <1>3, <1>4, <1>5, <1>6, <1>7, <1>8, <1>9, <1>10, <1>11,
     <1>12, <1>13, <1>14, <1>15, <1>16, <1>17, <1>18, <1>19, <1>20
     DEF NextCmd, Next, Msx, RoundStep, Core1

(* The two cores and their clocks.                                          *)
LEMMA CoreStepTypes ==
    ASSUME CoreTypes, [NextCmd]_vars
    PROVE  CoreTypes'
<1> USE DEF CoreTypes,
           core0, core1, shared, timers, rings, alog, hist, bounds
<1>1. CASE Milestone
  BY <1>1 DEF Milestone, Capture
<1>2. CASE OtherRead
  BY <1>2 DEF OtherRead, Capture
<1>3. CASE Request
  BY <1>3 DEF Request
<1>4. CASE StartRound
  BY <1>4 DEF StartRound
<1>5. CASE PassBegin
  BY <1>5 DEF PassBegin, Rearm, RestartTxn
<1>6. CASE AssertReset
  BY <1>6 DEF AssertReset
<1>7. CASE ReleaseReset
  BY <1>7 DEF ReleaseReset, AfterPulse
<1>8. CASE EndWindow
  BY <1>8 DEF EndWindow, StopDrain, SettleTime
<1>9. CASE Verdict
  BY <1>9 DEF Verdict, ShouldStop
<1>10. CASE BeginDrain
  BY <1>10 DEF BeginDrain
<1>11. CASE EndDrain
  BY <1>11 DEF EndDrain
<1>12. CASE BeginProbe
  BY <1>12 DEF BeginProbe
<1>13. CASE EndProbe
  BY <1>13 DEF EndProbe
<1>14. CASE Tick
  BY <1>14 DEF Tick, Less
<1>15. CASE CmdReset
  BY <1>15 DEF CmdReset, Command, CartServeResetPipeline, PullReset
<1>16. CASE ComboReset
  BY <1>16 DEF ComboReset, Command, CartServeResetPipeline, PullReset
<1>17. CASE CmdRelease
  BY <1>17 DEF CmdRelease
<1>18. CASE EmuOff
  BY <1>18 DEF EmuOff, Command
<1>19. CASE AlogReset
  BY <1>19 DEF AlogReset, Command
<1>20. CASE UNCHANGED vars
  BY <1>20 DEF vars
<1> QED
  BY <1>1, <1>2, <1>3, <1>4, <1>5, <1>6, <1>7, <1>8, <1>9, <1>10, <1>11,
     <1>12, <1>13, <1>14, <1>15, <1>16, <1>17, <1>18, <1>19, <1>20
     DEF NextCmd, Next, Msx, RoundStep, Core1

(* What the rings get of a bus cycle, at most and at least.                  *)
LEMMA CaptureAdds ==
    ASSUME NEW items, Capture(items)
    PROVE  /\ pending \subseteq pending' /\ pending' \subseteq pending \cup items
           /\ armed /\ txnruns /\ ~tapped => pending' = pending \cup items
BY DEF Capture

(* The rings and what is known of the bus.                                  *)
LEMMA BusStepTypes ==
    ASSUME BusTypes, [NextCmd]_vars
    PROVE  BusTypes'
<1> USE DEF BusTypes, Phases, Items, Read,
           core0, core1, shared, timers, rings, alog, hist, bounds
<1>1. CASE Milestone
  BY <1>1 DEF Milestone, Capture
<1>2. CASE OtherRead
  BY <1>2 DEF OtherRead, Capture
<1>3. CASE Request
  BY <1>3 DEF Request
<1>4. CASE StartRound
  BY <1>4 DEF StartRound
<1>5. CASE PassBegin
  BY <1>5 DEF PassBegin, Rearm, RestartTxn
<1>6. CASE AssertReset
  BY <1>6 DEF AssertReset
<1>7. CASE ReleaseReset
  BY <1>7 DEF ReleaseReset, AfterPulse
<1>8. CASE EndWindow
  BY <1>8 DEF EndWindow, StopDrain, SettleTime
<1>9. CASE Verdict
  BY <1>9 DEF Verdict, ShouldStop
<1>10. CASE BeginDrain
  BY <1>10 DEF BeginDrain
<1>11. CASE EndDrain
  BY <1>11 DEF EndDrain
<1>12. CASE BeginProbe
  BY <1>12 DEF BeginProbe
<1>13. CASE EndProbe
  BY <1>13 DEF EndProbe
<1>14. CASE Tick
  BY <1>14 DEF Tick, Less
<1>15. CASE CmdReset
  <2>1. /\ UNCHANGED <<batch, captured>>
        /\ solid' = solid \cap {Read} /\ pending' = pending \cap {Read}
    BY <1>15 DEF CmdReset
  <2>2. pos' \in 0 .. NPhases
    BY <1>15 DEF CmdReset, PullReset
  <2>3. pending' \subseteq Items /\ solid' \subseteq Items
    BY <2>1
  <2> QED BY <2>1, <2>2, <2>3
<1>16. CASE ComboReset
  <2>1. UNCHANGED <<batch, captured, solid, pending>>
    BY <1>16 DEF ComboReset
  <2>2. pos' \in 0 .. NPhases
    BY <1>16 DEF ComboReset, PullReset
  <2> QED BY <2>1, <2>2
<1>17. CASE CmdRelease
  BY <1>17 DEF CmdRelease
<1>18. CASE EmuOff
  BY <1>18 DEF EmuOff, Command
<1>19. CASE AlogReset
  BY <1>19 DEF AlogReset, Command
<1>20. CASE UNCHANGED vars
  BY <1>20 DEF vars
<1> QED
  BY <1>1, <1>2, <1>3, <1>4, <1>5, <1>6, <1>7, <1>8, <1>9, <1>10, <1>11,
     <1>12, <1>13, <1>14, <1>15, <1>16, <1>17, <1>18, <1>19, <1>20
     DEF NextCmd, Next, Msx, RoundStep, Core1

(* The alog buffer and its cursor.                                          *)
LEMMA AlogStepTypes ==
    ASSUME AlogTypes, [NextCmd]_vars
    PROVE  AlogTypes'
<1> USE DEF AlogTypes, CartRead,
           core0, core1, shared, timers, rings, alog, hist, bounds
<1>1. CASE Milestone
  <2>1. CASE CartRead(TRUE) BY <1>1, <2>1 DEF Milestone
  <2>2. CASE UNCHANGED alog BY <1>1, <2>2 DEF Milestone
  <2> QED BY <1>1, <2>1, <2>2 DEF Milestone
<1>2. CASE OtherRead
  <2>1. CASE CartRead(FALSE) BY <1>2, <2>1 DEF OtherRead
  <2>2. CASE UNCHANGED alog BY <1>2, <2>2 DEF OtherRead
  <2> QED BY <1>2, <2>1, <2>2 DEF OtherRead
<1>3. CASE Request
  BY <1>3 DEF Request
<1>4. CASE StartRound
  <2>1. (alogn' = 0 \/ alogn' = alogn)
    BY <1>4 DEF StartRound
  <2>2. (alogown' = TRUE \/ alogown' = alogown) /\ (alogrd' = 0 \/ alogrd' = alogrd)
    BY <1>4 DEF StartRound
  <2> QED BY <2>1, <2>2
<1>5. CASE PassBegin
  BY <1>5 DEF PassBegin, Rearm, RestartTxn
<1>6. CASE AssertReset
  BY <1>6 DEF AssertReset
<1>7. CASE ReleaseReset
  BY <1>7 DEF ReleaseReset, AfterPulse
<1>8. CASE EndWindow
  BY <1>8 DEF EndWindow, StopDrain, SettleTime
<1>9. CASE Verdict
  BY <1>9 DEF Verdict, ShouldStop
<1>10. CASE BeginDrain
  BY <1>10 DEF BeginDrain
<1>11. CASE EndDrain
  BY <1>11 DEF EndDrain
<1>12. CASE BeginProbe
  BY <1>12 DEF BeginProbe
<1>13. CASE EndProbe
  BY <1>13 DEF EndProbe
<1>14. CASE Tick
  BY <1>14 DEF Tick, Less
<1>15. CASE CmdReset
  <2>1. alogn' = AlogTotal /\ alogown' = FALSE
    BY <1>15 DEF CmdReset, CartServeResetPipeline
  <2>2. alogrd' = 0 \/ alogrd' = alogrd
    BY <1>15 DEF CmdReset
  <2> QED BY <2>1, <2>2
<1>16. CASE ComboReset
  <2>1. alogn' = AlogTotal /\ alogown' = FALSE
    BY <1>16 DEF ComboReset, CartServeResetPipeline
  <2>2. alogrd' = 0 \/ alogrd' = alogrd
    BY <1>16 DEF ComboReset
  <2> QED BY <2>1, <2>2
<1>17. CASE CmdRelease
  BY <1>17 DEF CmdRelease
<1>18. CASE EmuOff
  BY <1>18 DEF EmuOff, Command
<1>19. CASE AlogReset
  BY <1>19 DEF AlogReset, Command
<1>20. CASE UNCHANGED vars
  BY <1>20 DEF vars
<1> QED
  BY <1>1, <1>2, <1>3, <1>4, <1>5, <1>6, <1>7, <1>8, <1>9, <1>10, <1>11,
     <1>12, <1>13, <1>14, <1>15, <1>16, <1>17, <1>18, <1>19, <1>20
     DEF NextCmd, Next, Msx, RoundStep, Core1

(* Only the verdict writes the result, from well-typed parts.                *)
LEMMA ResultStepType ==
    ASSUME FlagTypes, RoundTypes, RoundTypes', ResultType, [NextCmd]_vars
    PROVE  ResultType'
<1>1. CASE Verdict /\ ShouldStop
  <2>1. s_result' = [phases |-> det, reads |-> reads, anom |-> s_anom',
                     passes |-> s_pass']
    BY <1>1 DEF Verdict
  <2>2. /\ det \in SUBSET Phases /\ reads \in BOOLEAN
        /\ s_anom' \in SUBSET {"NO_BUS_CYCLES"} /\ s_pass' \in 0 .. MaxPasses
    BY DEF RoundTypes, FlagTypes
  <2> QED BY <2>1, <2>2 DEF ResultType
<1>2. CASE ~(Verdict /\ ShouldStop)
  <2>1. s_result' = s_result
    BY <1>2 DEF NextCmd, Next, Msx, RoundStep, Core1, Milestone, OtherRead,
       Request, StartRound, PassBegin, AssertReset, ReleaseReset, EndWindow,
       Verdict, BeginDrain, EndDrain, BeginProbe, EndProbe, Tick, CmdReset,
       ComboReset, CmdRelease, EmuOff, AlogReset, core0, vars
  <2> QED BY <2>1 DEF ResultType
<1> QED BY <1>1, <1>2

(* The alog buffer only ever gets one more word.                             *)
LEMMA AlogMemoryStep ==
    ASSUME AlogMemory, [NextCmd]_vars
    PROVE  AlogMemory'
<1>1. CASE CartRead(TRUE) \/ CartRead(FALSE)
  <2>1. \/ alogmem' = alogmem
        \/ alogmem' = [alogmem EXCEPT ![alogn + 1] = TRUE]
        \/ alogmem' = [alogmem EXCEPT ![alogn + 1] = FALSE]
    BY <1>1 DEF CartRead
  <2> QED BY <2>1 DEF AlogMemory
<1>2. CASE alogmem' = alogmem
  BY <1>2 DEF AlogMemory
<1>3. CartRead(TRUE) \/ CartRead(FALSE) \/ alogmem' = alogmem
  BY DEF NextCmd, Next, Msx, RoundStep, Core1, Milestone, OtherRead,
     Request, StartRound, PassBegin, AssertReset, ReleaseReset, EndWindow,
     Verdict, BeginDrain, EndDrain, BeginProbe, EndProbe, Tick, CmdReset,
     ComboReset, CmdRelease, EmuOff, AlogReset, CartServeResetPipeline, alog, vars
<1> QED BY <1>1, <1>2, <1>3

(* A step keeps all types.                                                   *)
LEMMA TypeStep ==
    ASSUME TypeOK, Counting, Timing, [NextCmd]_vars
    PROVE  TypeOK' /\ Counting'
BY FlagStepTypes, RoundStepTypes, ResultStepType, CoreStepTypes, BusStepTypes, AlogStepTypes,
   AlogMemoryStep DEF TypeOK

(* A step keeps the two cores apart.                                        *)
LEMMA TimingStep ==
    ASSUME TypeOK, Timing, [NextCmd]_vars
    PROVE  Timing'
<1> USE DEF Timing, Idle,
           core0, core1, shared, timers, rings, alog, hist, bounds
<1>t. /\ wait \in Nat /\ c1left \in Nat
      /\ s_capture_active \in BOOLEAN /\ fresh \in BOOLEAN /\ snapfresh \in BOOLEAN
      /\ c1 \in {"loop", "drain", "probe"}
      /\ pc0 \in {"loop", "arm", "pulse", "cmdpulse"}
  BY DEF TypeOK, CoreTypes, FlagTypes
<1>1. CASE Milestone
  BY <1>1, <1>t DEF Milestone, Capture, CartRead
<1>2. CASE OtherRead
  BY <1>2, <1>t DEF OtherRead, Capture, CartRead
<1>3. CASE Request
  BY <1>3, <1>t DEF Request
<1>4. CASE StartRound
  BY <1>4, <1>t DEF StartRound
<1>5. CASE PassBegin
  BY <1>5, <1>t DEF PassBegin, Rearm, RestartTxn
<1>6. CASE AssertReset
  BY <1>6, <1>t DEF AssertReset
<1>7. CASE ReleaseReset
  BY <1>7, <1>t DEF ReleaseReset, AfterPulse
<1>8. CASE EndWindow
  BY <1>8, <1>t DEF EndWindow, StopDrain, SettleTime
<1>9. CASE Verdict
  BY <1>9, <1>t DEF Verdict, ShouldStop
<1>10. CASE BeginDrain
  BY <1>10, <1>t DEF BeginDrain
<1>11. CASE EndDrain
  BY <1>11, <1>t DEF EndDrain
<1>12. CASE BeginProbe
  <2>1. s_phase = "SETTLE" => fresh'
    BY <1>12, Zenon DEF BeginProbe
  <2> QED BY <1>12, <1>t, <2>1 DEF BeginProbe
<1>13. CASE EndProbe
  BY <1>13, <1>t DEF EndProbe
<1>14. CASE Tick
  BY <1>14, <1>t DEF Tick, Less
<1>15. CASE CmdReset
  BY <1>15, <1>t DEF CmdReset, Command, CartServeResetPipeline, PullReset
<1>16. CASE ComboReset
  BY <1>16, <1>t DEF ComboReset, Command, CartServeResetPipeline, PullReset
<1>17. CASE CmdRelease
  BY <1>17, <1>t DEF CmdRelease
<1>18. CASE EmuOff
  BY <1>18, <1>t DEF EmuOff, Command
<1>19. CASE AlogReset
  BY <1>19, <1>t DEF AlogReset, Command
<1>20. CASE UNCHANGED vars
  BY <1>20, <1>t DEF vars
<1> QED
  BY <1>1, <1>2, <1>3, <1>4, <1>5, <1>6, <1>7, <1>8, <1>9, <1>10, <1>11,
     <1>12, <1>13, <1>14, <1>15, <1>16, <1>17, <1>18, <1>19, <1>20, <1>t
     DEF NextCmd, Next, Msx, RoundStep, Core1

IInv == TypeOK /\ Counting /\ Timing

(* The inductive invariant holds at power-up.                               *)
LEMMA InitiallyApart == Init => IInv
<1> SUFFICES ASSUME Init PROVE IInv OBVIOUS
<1> USE DEF Init
<1>1. FlagTypes BY DEF FlagTypes
<1>2. RoundTypes /\ Counting BY DEF RoundTypes, Counting, Idle
<1>3. ResultType BY DEF ResultType, NoResult
<1>4. CoreTypes BY DEF CoreTypes
<1>5. BusTypes BY DEF BusTypes
<1>6. AlogMemory /\ AlogTypes
  <2>1. AlogMemory BY DEF AlogMemory
  <2>2. AlogTypes BY DEF AlogTypes
  <2> QED BY <2>1, <2>2
<1>7. Timing BY DEF Timing
<1> QED BY <1>1, <1>2, <1>3, <1>4, <1>5, <1>6, <1>7 DEF IInv, TypeOK

(* Every step, commands included, preserves it.                             *)
LEMMA StaysApart == IInv /\ [NextCmd]_vars => IInv'
BY TypeStep, TimingStep DEF IInv

(* Every variable keeps its type and every counter its bound: passes never  *)
(* exceed BOOT_DIAG_MAX_PASSES and alog never outgrows its buffer.          *)
THEOREM TypeCorrect == SpecCmd => []TypeOK
<1>1. IInv => TypeOK BY DEF IInv
<1> QED BY <1>1, InitiallyApart, StaysApart, PTL DEF SpecCmd

(* Core 0 and Core 1 never work on the detector, the accumulators or the    *)
(* ring cursors at the same time in a round, for every settle time that     *)
(* exceeds the longest drain and probe.                                     *)
THEOREM CoresKeptApart == SpecCmd => []DetectorOwned
<1>1. IInv => DetectorOwned
  <2> SUFFICES ASSUME IInv, Touches PROVE c1 # "drain" /\ ~s_capture_active
    BY DEF DetectorOwned
  <2>1. wait \in Nat /\ c1left \in Nat BY DEF IInv, TypeOK, CoreTypes, FlagTypes
  <2> QED BY <2>1 DEF IInv, Touches, Timing
<1> QED BY <1>1, InitiallyApart, StaysApart, PTL DEF SpecCmd

(* The probe the verdict is passed on began after the window closed.        *)
THEOREM VerdictIsFresh == SpecCmd => []FreshVerdict
<1>1. IInv => FreshVerdict
  <2> SUFFICES ASSUME IInv, s_phase = "SETTLE", wait = 0 PROVE snapfresh
    BY DEF FreshVerdict
  <2>1. c1left \in Nat /\ snapfresh \in BOOLEAN BY DEF IInv, TypeOK, CoreTypes, FlagTypes
  <2> QED BY <2>1 DEF IInv, Timing
<1> QED BY <1>1, InitiallyApart, StaysApart, PTL DEF SpecCmd
-----------------------------------------------------------------------------
(* What a round reports.  The cores are kept apart; from that it follows     *)
(* that nothing is fed behind a frozen result, that what is reported was     *)
(* seen, that later passes make up for what commands have done, and that a   *)
(* round keeps the safety part of what RoundService promises.               *)

(* Without commands the invariants above hold as well.                       *)
LEMMA StepIsStep == [Next]_vars => [NextCmd]_vars
BY DEF NextCmd

-----------------------------------------------------------------------------
(* Once a round is done, the detector and the accumulator rest.              *)
LEMMA StaysFrozen == IInv /\ FrozenIsFinal /\ [Next]_vars => FrozenIsFinal'
<1> SUFFICES ASSUME IInv, FrozenIsFinal, [Next]_vars PROVE FrozenIsFinal'
  OBVIOUS
<1> USE DEF FrozenIsFinal, core0, core1, shared, timers, rings, alog, hist, bounds
<1>1. CASE Msx
  BY <1>1 DEF Msx, Milestone, OtherRead
<1>2. CASE Request
  BY <1>2 DEF Request
<1>3. CASE StartRound \/ PassBegin \/ AssertReset \/ ReleaseReset \/ EndWindow
  BY <1>3 DEF StartRound, PassBegin, Rearm, AssertReset, ReleaseReset, AfterPulse,
     EndWindow
<1>4. CASE Verdict
  <2>1. CASE ShouldStop
    <3>1. s_result'.phases = det /\ s_result'.reads = reads
      BY <1>4, <2>1 DEF Verdict
    <3> QED BY <1>4, <3>1 DEF Verdict
  <2>2. CASE ~ShouldStop
    BY <1>4, <2>2 DEF Verdict
  <2> QED BY <2>1, <2>2
<1>5. CASE BeginDrain \/ BeginProbe \/ EndProbe
  BY <1>5 DEF BeginDrain, BeginProbe, EndProbe
<1>6. CASE EndDrain
  <2>1. s_phase # "DONE"
    BY <1>6 DEF EndDrain, IInv, Timing
  <2> QED BY <1>6, <2>1 DEF EndDrain
<1>7. CASE Tick
  BY <1>7 DEF Tick
<1>8. CASE UNCHANGED vars
  BY <1>8 DEF vars
<1> QED BY <1>1, <1>2, <1>3, <1>4, <1>5, <1>6, <1>7, <1>8
        DEF Next, RoundStep, Core1

(* Without a RESET the live detector agrees with the frozen result until     *)
(* the next round: no drain outlasts the settle time.                       *)
THEOREM ResultIsFinal == Spec => []FrozenIsFinal
<1>1. Init => FrozenIsFinal
  BY DEF Init, FrozenIsFinal
<1> QED BY <1>1, StepIsStep, InitiallyApart, StaysApart, StaysFrozen, PTL DEF Spec

-----------------------------------------------------------------------------
(* What Core 0 shows the main loop: it asks, begins and ends rounds, and     *)
(* nothing else moves the phase or the request.                             *)
THEOREM RoundKeepsService == SpecCmd => Service!ServiceSafety
<1> DEFINE Shown == IF s_phase \in Idle THEN s_phase ELSE "RUN"
<1>1. Init => Service!ServiceInit
  BY DEF Init, Service!ServiceInit, Idle
<1>2. IInv /\ [NextCmd]_vars => [Service!ServiceNext]_(Service!serviceVars)
  <2> SUFFICES ASSUME IInv, [NextCmd]_vars
               PROVE  \/ Service!ServiceNext
                      \/ Shown' = Shown /\ s_request' = s_request
    BY DEF Service!serviceVars
  <2> USE DEF Idle, core0
  <2>1. CASE Msx \/ Core1 \/ Tick
    BY <2>1 DEF Msx, Milestone, OtherRead, Core1, BeginDrain, EndDrain, BeginProbe,
       EndProbe, Tick
  <2>2. CASE CmdReset \/ ComboReset \/ CmdRelease \/ EmuOff \/ AlogReset
    BY <2>2 DEF CmdReset, ComboReset, CmdRelease, EmuOff, AlogReset
  <2>3. CASE Request
    BY <2>3 DEF Request, Service!ServiceNext, Service!Ask
  <2>4. CASE StartRound
    BY <2>4 DEF StartRound, Service!ServiceNext, Service!Begin
  <2>5. CASE PassBegin \/ AssertReset \/ EndWindow
    BY <2>5 DEF PassBegin, AssertReset, EndWindow
  <2>6. CASE ReleaseReset
    BY <2>6 DEF ReleaseReset, AfterPulse, IInv, Timing
  <2>7. CASE Verdict
    BY <2>7 DEF Verdict, Service!ServiceNext, Service!End
  <2>8. CASE UNCHANGED vars
    BY <2>8 DEF vars
  <2> QED BY <2>1, <2>2, <2>3, <2>4, <2>5, <2>6, <2>7, <2>8
          DEF NextCmd, Next, RoundStep
<1> QED BY <1>1, <1>2, InitiallyApart, StaysApart, PTL
        DEF SpecCmd, Service!ServiceSafety

-----------------------------------------------------------------------------
(* Where what is reported comes from: the bus while the capture was active,  *)
(* by way of the rings and the drain, or the alog words.                    *)
Told     == captured \cup HeadersIn(1 .. alogn)
Sourced  ==
    /\ det \subseteq Told
    /\ s_capture_active => pending \subseteq captured
    /\ c1 = "drain" => batch \subseteq captured

(* alog words only join the others while a round goes on.                    *)
LEMMA ToldGrows ==
    ASSUME AlogTypes, CartRead(TRUE) \/ CartRead(FALSE) \/ UNCHANGED alog
    PROVE  HeadersIn(1 .. alogn) \subseteq HeadersIn(1 .. alogn)'
<1>1. CASE UNCHANGED alog
  BY <1>1 DEF alog, HeadersIn
<1>2. ASSUME NEW h \in BOOLEAN, CartRead(h), ~ UNCHANGED alog
      PROVE  HeadersIn(1 .. alogn) \subseteq HeadersIn(1 .. alogn)'
  <2>1. /\ alogmem' = [alogmem EXCEPT ![alogn + 1] = h]
        /\ alogn' = alogn + 1
    BY <1>2 DEF CartRead, alog
  <2>2. \A i \in 1 .. alogn : i \in 1 .. alogn' /\ alogmem'[i] = alogmem[i]
    BY <2>1 DEF AlogTypes
  <2> QED BY <2>2 DEF HeadersIn
<1> QED BY <1>1, <1>2

(* Every step, a drain included, keeps what is held to what was captured.   *)
LEMMA StaysSourced == IInv /\ Sourced /\ [Next]_vars => Sourced'
<1> SUFFICES ASSUME IInv, Sourced, [Next]_vars PROVE Sourced'
  OBVIOUS
<1> USE DEF Sourced, Told, core0, core1, shared, timers, rings, hist, bounds
<1>t. AlogTypes
  BY DEF IInv, TypeOK
<1>1. CASE Msx
  <2>1. HeadersIn(1 .. alogn) \subseteq HeadersIn(1 .. alogn)'
    BY <1>1, <1>t, ToldGrows DEF Msx, Milestone, OtherRead
  <2>2. PICK items : Capture(items)
    BY <1>1 DEF Msx, Milestone, OtherRead
  <2>3. UNCHANGED <<det, c1, batch, s_capture_active>>
    BY <1>1 DEF Msx, Milestone, OtherRead
  <2>4. /\ captured \subseteq captured'
        /\ s_capture_active => pending' \subseteq captured'
    BY <2>2, CaptureAdds DEF Capture
  <2> QED BY <2>1, <2>3, <2>4
<1>2. CASE StartRound
  <2>1. c1 # "drain" /\ ~s_capture_active
    BY <1>2 DEF StartRound, IInv, Timing, Idle
  <2> QED BY <1>2, <2>1 DEF StartRound
<1>3. CASE PassBegin
  <2>1. c1 # "drain"
    BY <1>3 DEF PassBegin, IInv, Timing
  <2>2. UNCHANGED HeadersIn(1 .. alogn)
    BY <1>3 DEF PassBegin, HeadersIn, alog
  <2> QED BY <1>3, <2>1, <2>2 DEF PassBegin, Rearm
<1>4. CASE Request \/ AssertReset \/ ReleaseReset \/ EndWindow \/ Verdict
  <2>1. /\ UNCHANGED <<det, captured, pending, batch, c1, alog>>
        /\ s_capture_active' => s_capture_active
    BY <1>4 DEF Request, AssertReset, ReleaseReset, EndWindow, StopDrain, Verdict, alog
  <2>2. UNCHANGED HeadersIn(1 .. alogn)
    BY <2>1 DEF HeadersIn, alog
  <2> QED BY <2>1, <2>2
<1>5. CASE BeginDrain \/ BeginProbe \/ EndProbe \/ Tick \/ UNCHANGED vars
  <2>1. UNCHANGED HeadersIn(1 .. alogn)
    BY <1>5 DEF BeginDrain, BeginProbe, EndProbe, Tick, vars, HeadersIn, alog
  <2> QED BY <1>5, <2>1 DEF BeginDrain, BeginProbe, EndProbe, Tick, vars
<1>6. CASE EndDrain
  <2>1. UNCHANGED HeadersIn(1 .. alogn)
    BY <1>6 DEF EndDrain, HeadersIn, alog
  <2>2. HeadersIn(alogrd + 1 .. alogn) \subseteq HeadersIn(1 .. alogn)
    BY <1>t DEF AlogTypes, HeadersIn
  <2>3. det' \subseteq Told
    BY <1>6, <2>2 DEF EndDrain
  <2> QED BY <1>6, <2>1, <2>3 DEF EndDrain
<1> QED BY <1>1, <1>2, <1>3, <1>4, <1>5, <1>6 DEF Next, RoundStep, Core1

(* Every phase in the detector was on the bus in a capture window of this    *)
(* round, or is the cartridge scan that some alog word tells of.            *)
THEOREM ReportedWasSeen == Spec => []NothingInvented
<1>1. Init => Sourced
  BY DEF Init, Sourced, Told
<1>2. Sourced => NothingInvented
  BY DEF Sourced, Told, NothingInvented
<1> QED BY <1>1, <1>2, StepIsStep, InitiallyApart, StaysApart, StaysSourced, PTL
        DEF Spec

-----------------------------------------------------------------------------
(* What the bus has shown early enough is in the detector, in the hands of   *)
(* the drain, or in a ring, and what is in a ring will still be drained.  A  *)
(* command ends what can be promised of its pass (clean), and a channel 0    *)
(* on the FIFO what can be promised of its round (tappedpass).               *)
Known   == det \cup (IF reads THEN {Read} ELSE {})
Late    == ~ (solid \subseteq Known \cup batch)
Caught  == solid \subseteq Known \cup batch \cup pending
InTime  == Late => s_capture_active /\ wait > IF c1 = "loop" THEN 0 ELSE c1left
Open    == s_capture_active /\ clean =>
               armed /\ txnruns /\ (tapped => tappedpass)
Emptied == c1 # "drain" => batch = {}
Covered == (~tappedpass => Caught /\ InTime) /\ Open /\ Emptied

(* What the bus shows is caught by an open window, or comes too late.        *)
LEMMA BusIsCovered ==
    ASSUME DrainMax <= ProbeMax, IInv, Covered, Msx
    PROVE  Covered'
<1>1. PICK items : Capture(items)
  BY DEF Msx, Milestone, OtherRead
<1>2. /\ UNCHANGED <<det, reads, batch, c1, c1left, wait, s_capture_active>>
      /\ UNCHANGED <<armed, txnruns, tapped>>
  BY DEF Msx, Milestone, OtherRead, core1, shared, timers
<1>3. Known' = Known
  BY <1>2 DEF Known
<1>4. /\ pending \subseteq pending' /\ UNCHANGED <<clean, tappedpass>>
      /\ armed /\ txnruns /\ ~tapped => pending' = pending \cup items
  BY <1>1, CaptureAdds DEF Capture
<1>5. Open' /\ Emptied'
  BY <1>2, <1>4 DEF Covered, Open, Emptied
<1>6. ASSUME ~tappedpass, solid' = solid PROVE Caught' /\ InTime'
  BY <1>2, <1>3, <1>4, <1>6 DEF Covered, Caught, InTime, Late
<1>7. ASSUME ~tappedpass, solid' # solid PROVE Caught' /\ InTime'
  <2>1. /\ s_capture_active /\ clean /\ wait > ProbeMax
        /\ solid' = solid \cup items
    BY <1>1, <1>7 DEF Capture
  <2>2. pending' = pending \cup items
    BY <1>4, <1>7, <2>1 DEF Covered, Open
  <2>3. Caught'
    BY <1>2, <1>3, <1>7, <2>1, <2>2 DEF Covered, Caught
  <2>4. wait > IF c1 = "loop" THEN 0 ELSE c1left
    <3>1. wait \in Nat /\ c1left \in Nat /\ c1 \in {"loop", "drain", "probe"}
      BY DEF IInv, TypeOK, CoreTypes
    <3>2. c1 \in {"drain", "probe"} => c1left <= ProbeMax
      BY <3>1 DEF IInv, Timing
    <3> QED BY <2>1, <3>1, <3>2
  <2>5. InTime'
    BY <1>2, <2>1, <2>4 DEF InTime
  <2> QED BY <2>3, <2>5
<1> QED BY <1>4, <1>5, <1>6, <1>7 DEF Covered

(* A drain keeps what it knows, and ends with nothing in its hands.          *)
LEMMA DrainIsCovered ==
    ASSUME IInv, Covered, BeginDrain \/ EndDrain
    PROVE  Covered'
<1> USE DEF Covered, Caught, InTime, Late, Open, Emptied
<1>1. CASE BeginDrain
  <2>1. /\ UNCHANGED <<det, reads, solid, clean, tappedpass>>
        /\ UNCHANGED <<armed, txnruns, tapped, s_capture_active>>
    BY <1>1 DEF BeginDrain, shared, hist
  <2>2. Known' = Known
    BY <2>1 DEF Known
  <2>3. batch = {} /\ batch' = pending /\ c1' = "drain"
    BY <1>1 DEF BeginDrain
  <2>4. ~tappedpass => solid' \subseteq Known' \cup batch'
    BY <2>1, <2>2, <2>3
  <2> QED BY <2>1, <2>3, <2>4
<1>2. CASE EndDrain
  <2>1. /\ UNCHANGED <<solid, clean, tappedpass, pending, armed, txnruns, tapped>>
        /\ UNCHANGED <<s_capture_active, wait>>
    BY <1>2 DEF EndDrain, hist, rings, timers
  <2>2. batch \subseteq Phases \cup {Read}
    BY DEF IInv, TypeOK, BusTypes, Items
  <2>3. Known \cup batch \subseteq Known'
    <3>1. det \cup (batch \cap Phases) \subseteq det'
      BY <1>2 DEF EndDrain
    <3>2. reads' = (reads \/ Read \in batch)
      BY <1>2 DEF EndDrain
    <3>3. reads \/ Read \in batch => Read \in Known'
      BY <3>2 DEF Known
    <3> QED BY <2>2, <3>1, <3>3 DEF Known
  <2>4. c1' = "loop" /\ batch' = {} /\ c1 = "drain"
    BY <1>2 DEF EndDrain
  <2>5. c1left \in Nat /\ wait \in Nat
    BY DEF IInv, TypeOK, CoreTypes
  <2>6. Late' => Late
    BY <2>1, <2>3
  <2>7. ~tappedpass => InTime'
    <3>1. ASSUME Late, ~tappedpass PROVE s_capture_active /\ wait > c1left
      BY <3>1, <2>4
    <3> QED BY <2>1, <2>4, <2>5, <2>6, <3>1
  <2> QED BY <2>1, <2>3, <2>4, <2>7
<1> QED BY <1>1, <1>2

(* RESET forgets phases, wherever they are, and takes no read away.          *)
LEMMA CmdResetIsCovered ==
    ASSUME IInv, Covered, CmdReset
    PROVE  Covered'
<1>1. /\ UNCHANGED <<reads, batch, tappedpass, c1, c1left, wait, s_capture_active>>
      /\ solid' = solid \cap {Read} /\ pending' = pending \cap {Read}
      /\ det' = {} /\ clean' = FALSE
  BY DEF CmdReset, Command, core1
<1>2. Read \notin det
  BY DEF IInv, TypeOK, RoundTypes, Phases, Read
<1>3. Known' = Known \cap {Read}
  BY <1>1, <1>2 DEF Known
<1>4. Caught => Caught'
  BY <1>1, <1>3 DEF Caught
<1>5. Late' => Late
  BY <1>1, <1>3 DEF Late
<1> QED BY <1>1, <1>4, <1>5 DEF Covered, InTime, Open, Emptied

(* The other commands leave detector, rings and time alone.                  *)
LEMMA CommandsAreCovered ==
    ASSUME Covered, ComboReset \/ CmdRelease \/ EmuOff \/ AlogReset
    PROVE  Covered'
<1>1. /\ UNCHANGED <<det, reads, batch, pending, solid, tappedpass>>
      /\ UNCHANGED <<c1, c1left, wait, s_capture_active>>
  BY DEF ComboReset, CmdRelease, EmuOff, AlogReset, core1, shared, timers, rings, hist
<1>2. Open'
  BY DEF Covered, Open, ComboReset, CmdRelease, EmuOff, AlogReset, Command, rings, hist
<1> QED BY <1>1, <1>2 DEF Covered, Caught, InTime, Late, Known, Emptied

(* Every step keeps early phases in the window, the batch or the detector.   *)
LEMMA StaysCovered ==
    DrainMax <= ProbeMax /\ IInv /\ Covered /\ [NextCmd]_vars => Covered'
<1> SUFFICES ASSUME DrainMax <= ProbeMax, IInv, Covered, [NextCmd]_vars
             PROVE  Covered'
  OBVIOUS
<1>t. /\ c1left \in Nat /\ wait \in Nat /\ Window \in Nat
      /\ c1 \in {"loop", "drain", "probe"}
  BY DEF IInv, TypeOK, CoreTypes
<1> USE DEF Covered, Caught, InTime, Late, Open, Emptied, Known,
            core0, core1, shared, timers, rings, hist
<1>1. CASE Msx
  BY <1>1, BusIsCovered
<1>2. CASE BeginDrain \/ EndDrain
  BY <1>2, DrainIsCovered
<1>3. CASE StartRound
  <2>1. ~s_capture_active /\ c1 # "drain"
    BY <1>3 DEF StartRound, IInv, Timing, Idle
  <2> QED BY <1>3, <2>1 DEF StartRound
<1>4. CASE PassBegin
  <2>1. ~s_capture_active /\ c1 # "drain"
    BY <1>4 DEF PassBegin, IInv, Timing
  <2>2. ~tappedpass => ~Late
    BY <2>1
  <2> QED BY <1>4, <2>1, <2>2 DEF PassBegin, Rearm, RestartTxn
<1>5. CASE Request \/ AssertReset \/ ReleaseReset \/ Verdict
  BY <1>5 DEF Request, AssertReset, ReleaseReset, Verdict
<1>6. CASE EndWindow
  <2>1. ~tappedpass => ~Late
    BY <1>6, <1>t DEF EndWindow
  <2> QED BY <1>6, <2>1 DEF EndWindow, StopDrain
<1>7. CASE BeginProbe
  BY <1>7 DEF BeginProbe
<1>8. CASE EndProbe
  BY <1>8, <1>t DEF EndProbe
<1>9. CASE Tick
  BY <1>9, <1>t DEF Tick, Less
<1>10. CASE CmdReset
  BY <1>10, CmdResetIsCovered
<1>11. CASE ComboReset \/ CmdRelease \/ EmuOff \/ AlogReset
  BY <1>11, CommandsAreCovered
<1>12. CASE UNCHANGED vars
  BY <1>12 DEF vars
<1> QED BY <1>1, <1>2, <1>3, <1>4, <1>5, <1>6, <1>7, <1>8, <1>9, <1>10, <1>11, <1>12
        DEF NextCmd, Next, RoundStep, Core1

(* At power-up nothing has been seen.                                        *)
LEMMA InitiallyCovered == Init => Covered
BY DEF Init, Covered, Caught, InTime, Late, Open, Emptied

(* When the verdict is due no drain is left to come: all is in the detector. *)
LEMMA CoveredIsReported == IInv /\ Covered => EveryPassRepaired
<1> SUFFICES ASSUME IInv, Covered, ~tappedpass, Touches
             PROVE  solid \subseteq Known
  BY DEF EveryPassRepaired, NothingOverlooked, Known
<1>1. wait \in Nat /\ c1left \in Nat BY DEF IInv, TypeOK, CoreTypes
<1>2. c1 # "drain" /\ ~s_capture_active
  BY <1>1 DEF IInv, Touches, Timing
<1> QED BY <1>2 DEF Covered, InTime, Late, Emptied

(* With commands at any moment: what a pass that none disturbs sees early    *)
(* enough is in the verdict, whatever state commands have left the capture   *)
(* hardware in, unless channel 0 was still on its FIFO when a pass began.    *)
(* A drain must not be longer than a probe.                                  *)
THEOREM DamageIsRepaired ==
    ASSUME DrainMax <= ProbeMax PROVE SpecCmd => []EveryPassRepaired
<1>1. IInv /\ Covered /\ [NextCmd]_vars => Covered'
  BY StaysCovered
<1> QED BY <1>1, InitiallyApart, StaysApart, InitiallyCovered, CoveredIsReported, PTL
        DEF SpecCmd

(* Without commands channel 0 stays with alog.                               *)
Untapped == ~tapped /\ ~tappedpass

(* No step of Next arms channel 0, and passes and rounds keep the record.    *)
LEMMA StaysUntapped == Untapped /\ [Next]_vars => Untapped'
<1> SUFFICES ASSUME Untapped, [Next]_vars PROVE Untapped'
  OBVIOUS
<1>1. tapped' = tapped \/ StartRound
  BY DEF Next, Msx, RoundStep, Core1, Milestone, OtherRead, Request, PassBegin,
     RestartTxn, AssertReset, ReleaseReset, EndWindow, Verdict, BeginDrain,
     EndDrain, BeginProbe, EndProbe, Tick, rings, vars
<1>2. tappedpass' = tappedpass \/ StartRound \/ PassBegin
  BY DEF Next, Msx, RoundStep, Core1, Milestone, OtherRead, Capture, Request,
     AssertReset, ReleaseReset, EndWindow, Verdict, BeginDrain, EndDrain,
     BeginProbe, EndProbe, Tick, hist, vars
<1>3. CASE StartRound
  BY <1>3 DEF StartRound, Untapped
<1>4. CASE PassBegin
  BY <1>4 DEF PassBegin, RestartTxn, Untapped
<1> QED BY <1>1, <1>2, <1>3, <1>4 DEF Untapped

(* Whatever the bus has shown more than a probe before the deadline is in    *)
(* the verdict, if a drain is not longer than a probe.                      *)
THEOREM SeenIsReported ==
    ASSUME DrainMax <= ProbeMax PROVE Spec => []NothingOverlooked
<1>1. Init => Untapped
  BY DEF Init, Untapped
<1>2. IInv /\ Covered /\ Untapped => NothingOverlooked
  BY CoveredIsReported DEF EveryPassRepaired, Untapped
<1>3. IInv /\ Covered /\ [NextCmd]_vars => Covered'
  BY StaysCovered
<1> QED BY <1>1, <1>2, <1>3, StepIsStep, InitiallyApart, StaysApart, InitiallyCovered,
           StaysUntapped, PTL
        DEF Spec

=============================================================================
