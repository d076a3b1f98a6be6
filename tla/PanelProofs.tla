---------------------------- MODULE PanelProofs -----------------------------
(***************************************************************************)
(* The invariants of the panel, for any number of pages.  What the results  *)
(* view relies on is that a round that is DONE has frozen its result; with  *)
(* that and the types the properties of Panel are inductive together.       *)
(***************************************************************************)
EXTENDS Panel, TLAPS

DoneIsFrozen == phase = "DONE" => frozen

IInv == /\ TypeOK /\ DoneIsFrozen
        /\ LevelMatchesPage /\ ResultsAreFrozen /\ FirstRoundShown

USE PagesAssumption

(* Moving a cursor keeps it inside its range.                               *)
LEMMA MovedStays ==
    ASSUME NEW n \in Nat \ {0}, NEW i \in 0 .. n - 1, NEW e
    PROVE  Moved(e, i, n) \in 0 .. n - 1
BY DEF Moved, Bounded, Back

(* The initial state is consistent.                                         *)
LEMMA InitiallyConsistent == Init => IInv
<1> SUFFICES ASSUME Init PROVE IInv OBVIOUS
<1>1. FlagTypes
  BY DEF Init, FlagTypes, Round!ServiceInit
<1>2. StateTypes /\ LevelMatchesPage
  BY DEF Init, StateTypes, LevelMatchesPage, Round!ServiceInit, BACK, N_SETTINGS_ROWS
<1>3. DoneIsFrozen /\ ResultsAreFrozen /\ FirstRoundShown
  BY DEF Init, DoneIsFrozen, ResultsAreFrozen, FirstRoundShown, Round!ServiceInit
<1> QED BY <1>1, <1>2, <1>3 DEF IInv, TypeOK

(* boot_diag_tick changes the round, never the panel.                       *)
LEMMA TickStep == IInv /\ Tick => IInv'
<1> SUFFICES ASSUME IInv, Tick PROVE IInv' OBVIOUS
<1> USE DEF Tick, panel, IInv, TypeOK
<1>1. StateTypes' /\ LevelMatchesPage'
  BY DEF StateTypes, LevelMatchesPage, BeginRound, EndRound, GoOn, round,
         Round!Begin, Round!End
<1>2. CASE BeginRound
  BY <1>1, <1>2 DEF BeginRound, Round!Begin, FlagTypes, DoneIsFrozen,
                    ResultsAreFrozen, FirstRoundShown
<1>3. CASE EndRound
  BY <1>1, <1>3 DEF EndRound, Round!End, FlagTypes, DoneIsFrozen,
                    ResultsAreFrozen, FirstRoundShown
<1>4. CASE GoOn
  BY <1>1, <1>4 DEF GoOn, round, FlagTypes, DoneIsFrozen,
                    ResultsAreFrozen, FirstRoundShown
<1> QED BY <1>2, <1>3, <1>4

(* A button moves a cursor, changes the view or level, or starts a round.   *)
LEMMA ButtonStep == IInv /\ PollButtons => IInv'
<1> SUFFICES ASSUME IInv, PollButtons PROVE IInv' OBVIOUS
<1> USE DEF IInv, TypeOK, FlagTypes, StateTypes, DoneIsFrozen, LevelMatchesPage, ResultsAreFrozen,
            FirstRoundShown, BACK, N_SETTINGS_ROWS
<1>1. turn' = "cmd" /\ oled_present' = oled_present
  BY DEF PollButtons
<1>2. CASE Ignore
  BY <1>1, <1>2 DEF Ignore, panel, round
<1>3. ASSUME NEW e \in {"UP", "DOWN", "SELECT"}, HandleBtn(e),
             s_diag_view = "RESULTS"
      PROVE  IInv'
  <2>1. InResults(e) BY <1>3 DEF HandleBtn
  <2>2. Moved(e, s_diag_page, N_DIAG_PAGES) \in 0 .. N_DIAG_PAGES - 1
    BY MovedStays
  <2>3. CASE e = "SELECT"
    <3>1. /\ s_diag_view' = "NONE" /\ s_level' = "MAIN" /\ s_page_idx' = 0
          /\ UNCHANGED <<s_diag_page, s_selector_idx, phase, request, frozen, asked>>
      BY <2>1, <2>3 DEF InResults, round
    <3>2. ~(asked /\ ~frozen)
      BY <1>3
    <3> HIDE DEF IInv, TypeOK, FlagTypes, StateTypes, DoneIsFrozen, LevelMatchesPage,
                 ResultsAreFrozen, FirstRoundShown
    <3>3. StateTypes' /\ LevelMatchesPage'
      BY <1>1, <3>1 DEF IInv, TypeOK, StateTypes, LevelMatchesPage
    <3>4. FlagTypes'
      BY <1>1, <3>1 DEF IInv, TypeOK, FlagTypes
    <3>5. DoneIsFrozen' /\ ResultsAreFrozen' /\ FirstRoundShown'
      BY <3>1, <3>2 DEF IInv, DoneIsFrozen, ResultsAreFrozen, FirstRoundShown
    <3> QED BY <3>3, <3>4, <3>5 DEF IInv, TypeOK
  <2>4. CASE e # "SELECT"
    BY <1>1, <2>1, <2>2, <2>4 DEF InResults, round
  <2> QED BY <2>3, <2>4
<1>4. ASSUME NEW e \in {"UP", "DOWN", "SELECT"}, HandleBtn(e),
             s_diag_view = "NONE", s_level = "SETTINGS"
      PROVE  IInv'
  <2>1. InSettings(e) BY <1>4 DEF HandleBtn
  <2>2. Moved(e, s_selector_idx, N_SETTINGS_ROWS) \in 0 .. 1
    BY MovedStays
  <2>3. CASE UNCHANGED <<round, asked>> /\ e # "SELECT"
    BY <1>1, <1>4, <2>1, <2>2, <2>3 DEF InSettings, round
  <2>4. CASE e = "SELECT" /\ s_selector_idx = BACK
    BY <1>1, <1>4, <2>1, <2>4 DEF InSettings, round
  <2>5. CASE RunBootDiag
    <3>1. /\ phase' = phase /\ request' \in BOOLEAN /\ frozen' = frozen
          /\ asked' = TRUE
          /\ s_diag_view' = "PROGRESS" /\ s_level' = "MAIN"
          /\ UNCHANGED <<s_diag_page, s_page_idx, s_selector_idx>>
      BY <2>5 DEF RunBootDiag, Start, Round!Ask, ShowProgress
    <3> QED BY <1>1, <1>4, <3>1
  <2> QED BY <2>1, <2>3, <2>4, <2>5 DEF InSettings
<1>5. ASSUME NEW e \in {"UP", "DOWN", "SELECT"}, HandleBtn(e),
             s_diag_view = "NONE", s_level # "SETTINGS"
      PROVE  IInv'
  <2>1. InCarousel(e) BY <1>5 DEF HandleBtn
  <2>2. Moved(e, s_page_idx, N_PAGES) \in 0 .. N_PAGES - 1
    BY MovedStays
  <2>3. CASE e = "SELECT"
    BY <1>1, <1>5, <2>1, <2>3 DEF InCarousel, round
  <2>4. CASE e # "SELECT"
    BY <1>1, <1>5, <2>1, <2>2, <2>4 DEF InCarousel, LevelOf, round
  <2> QED BY <2>3, <2>4
<1>6. ASSUME NEW e \in {"UP", "DOWN", "SELECT"}, HandleBtn(e),
             s_diag_view = "PROGRESS"
      PROVE  IInv'
  <2>1. Ignore BY <1>6 DEF HandleBtn
  <2> QED BY <1>2, <2>1
<1>7. \E e \in {"UP", "DOWN", "SELECT"} : Ignore \/ HandleBtn(e)
  BY DEF PollButtons
<1> QED BY <1>2, <1>3, <1>4, <1>5, <1>6, <1>7

(* Commands, refresh and idling: only the refresh touches the view.         *)
LEMMA OtherStep == IInv /\ (DispatchCmd \/ Refresh \/ NothingDue) => IInv'
<1> SUFFICES ASSUME IInv, DispatchCmd \/ Refresh \/ NothingDue PROVE IInv' OBVIOUS
<1> USE DEF IInv, TypeOK, panel, round
<1>1. CASE DispatchCmd
  <2>1. StateTypes' /\ LevelMatchesPage'
    BY <1>1 DEF StateTypes, LevelMatchesPage, DispatchCmd, Ignore, Boot, Start,
                Round!Ask
  <2>2. /\ UNCHANGED <<phase, frozen, asked, s_diag_view, oled_present>>
        /\ request' = request \/ request' = TRUE
    BY <1>1 DEF DispatchCmd, Ignore, Boot, Start, Round!Ask
  <2>3. FlagTypes'
    BY <2>2 DEF FlagTypes
  <2>4. DoneIsFrozen' /\ ResultsAreFrozen' /\ FirstRoundShown'
    BY <2>2 DEF DoneIsFrozen, ResultsAreFrozen, FirstRoundShown
  <2> QED BY <2>1, <2>3, <2>4
<1>2. CASE Refresh
  <2>1. StateTypes' /\ LevelMatchesPage'
    BY <1>2 DEF StateTypes, LevelMatchesPage, Refresh, Finished
  <2>2. FlagTypes' /\ DoneIsFrozen' /\ ResultsAreFrozen' /\ FirstRoundShown'
    BY <1>2 DEF FlagTypes, DoneIsFrozen, ResultsAreFrozen, FirstRoundShown,
                Refresh, Finished
  <2> QED BY <2>1, <2>2
<1>3. CASE NothingDue
  <2>1. StateTypes' /\ LevelMatchesPage'
    BY <1>3 DEF StateTypes, LevelMatchesPage, NothingDue
  <2>2. FlagTypes' /\ DoneIsFrozen' /\ ResultsAreFrozen' /\ FirstRoundShown'
    BY <1>3 DEF FlagTypes, DoneIsFrozen, ResultsAreFrozen, FirstRoundShown,
                NothingDue
  <2> QED BY <2>1, <2>2
<1> QED BY <1>1, <1>2, <1>3

(* Every step keeps the panel consistent.                                   *)
LEMMA StaysConsistent == IInv /\ [Next]_vars => IInv'
<1> SUFFICES ASSUME IInv, [Next]_vars PROVE IInv' OBVIOUS
<1>1. CASE UNCHANGED vars
  BY <1>1 DEF IInv, TypeOK, FlagTypes, StateTypes, DoneIsFrozen, LevelMatchesPage, ResultsAreFrozen,
              FirstRoundShown, vars, panel, round
<1> QED BY <1>1, TickStep, ButtonStep, OtherStep DEF Next

(* ui.c never indexes a page, a result page or a row that is not there.     *)
THEOREM TypeCorrect == Spec => []TypeOK
<1>1. IInv => TypeOK BY DEF IInv
<1> QED BY <1>1, InitiallyConsistent, StaysConsistent, PTL DEF Spec

(* The level that ui_handle_btn keeps always agrees with the page.          *)
THEOREM LevelsAgree == Spec => []LevelMatchesPage
<1>1. IInv => LevelMatchesPage BY DEF IInv
<1> QED BY <1>1, InitiallyConsistent, StaysConsistent, PTL DEF Spec

(* ui_render never shows the result pages of a round that never ended.       *)
THEOREM ViewsAreTrue == Spec => []ResultsAreFrozen
<1>1. IInv => ResultsAreFrozen BY DEF IInv
<1> QED BY <1>1, InitiallyConsistent, StaysConsistent, PTL DEF Spec

(* From the request of the settings to the first frozen result the display   *)
(* shows the progress view, whatever the buttons and commands do meanwhile.  *)
THEOREM ProgressStays == Spec => []FirstRoundShown
<1>1. IInv => FirstRoundShown BY DEF IInv
<1> QED BY <1>1, InitiallyConsistent, StaysConsistent, PTL DEF Spec
=============================================================================
