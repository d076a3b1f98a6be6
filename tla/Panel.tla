------------------------------- MODULE Panel --------------------------------
(***************************************************************************)
(* The panel of the cartridge: the user interface (ui.c) in the turn of     *)
(* Core 0's main loop (main.c), and the rounds it starts.  A turn advances  *)
(* the round, polls the buttons, dispatches one command and, when 100 ms    *)
(* have passed, renders; what the loop does in between cannot be told from  *)
(* the panel.  Rounds are those of RoundService.                            *)
(***************************************************************************)
EXTENDS Naturals

CONSTANTS
    N_PAGES,       \* pages of the carousel (5)
    N_DIAG_PAGES   \* pages of a result (6)

ASSUME PagesAssumption == N_PAGES \in Nat \ {0} /\ N_DIAG_PAGES \in Nat \ {0}

VARIABLES
    turn,           \* what the main loop does next
    phase, request, \* boot_diag.c, as in RoundService
    frozen,         \* s_result.passes_run > 0
    s_diag_view, s_diag_page, s_level, s_page_idx, s_selector_idx,  \* ui.c
    oled_present,
    asked           \* the settings asked for a round that has not ended (history)

round == <<phase, request, frozen>>
panel == <<s_diag_view, s_diag_page, s_level, s_page_idx, s_selector_idx>>
vars  == <<turn, round, panel, oled_present, asked>>

Round == INSTANCE RoundService

N_SETTINGS_ROWS == 2                    \* "Run boot diag" and "back"
BACK == N_SETTINGS_ROWS - 1

Init ==
    /\ turn = "tick"
    /\ Round!ServiceInit /\ frozen = FALSE
    /\ s_diag_view = "NONE" /\ s_diag_page = 0
    /\ s_level = "MAIN" /\ s_page_idx = 0 /\ s_selector_idx = 0
    /\ oled_present \in BOOLEAN
    /\ asked = FALSE

-----------------------------------------------------------------------------
(* boot_diag_tick: begin what was requested, or go on, or end.              *)

BeginRound == Round!Begin /\ UNCHANGED <<frozen, asked>>
EndRound   == Round!End /\ frozen' = TRUE /\ asked' = FALSE
GoOn       == (phase = "RUN" \/ ~request) /\ UNCHANGED <<round, asked>>

Tick ==
    /\ turn = "tick" /\ turn' = "buttons"
    /\ BeginRound \/ EndRound \/ GoOn
    /\ UNCHANGED <<panel, oled_present>>

(* boot_diag_start.                                                         *)
Start == Round!Ask \/ (phase = "RUN" /\ UNCHANGED <<phase, request>>)

-----------------------------------------------------------------------------
(* ui_handle_btn, one case per view or level.                               *)

Unbounded(i, n)    == i
Bounded(i, n)      == IF i < n THEN i ELSE n - 1
Back(i)            == IF i > 0 THEN i - 1 ELSE 0
LevelSkewed(page)  == IF page <= 1 THEN "MAIN" ELSE "DETAIL"
LevelOf(page)      == IF page = 0 THEN "MAIN" ELSE "DETAIL"

Moved(e, i, n) == IF e = "DOWN" THEN Bounded(i + 1, n) ELSE Back(i)

Ignore == UNCHANGED <<panel, round, asked>>

InResults(e) ==
    /\ IF e = "SELECT"
       THEN /\ s_diag_view' = "NONE" /\ s_level' = "MAIN" /\ s_page_idx' = 0
            /\ UNCHANGED s_diag_page
       ELSE /\ s_diag_page' = Moved(e, s_diag_page, N_DIAG_PAGES)
            /\ UNCHANGED <<s_diag_view, s_level, s_page_idx>>
    /\ UNCHANGED <<s_selector_idx, round, asked>>

MenuStays    == s_diag_view
ShowProgress == "PROGRESS"

RunBootDiag ==
    /\ Start
    /\ s_diag_view' = ShowProgress /\ s_level' = "MAIN"
    /\ asked' = TRUE
    /\ UNCHANGED <<frozen, s_diag_page, s_page_idx, s_selector_idx>>

InSettings(e) ==
    \/ /\ e # "SELECT"
       /\ s_selector_idx' = Moved(e, s_selector_idx, N_SETTINGS_ROWS)
       /\ UNCHANGED <<s_diag_view, s_diag_page, s_level, s_page_idx, round, asked>>
    \/ /\ e = "SELECT" /\ s_selector_idx = BACK
       /\ s_level' = "MAIN"
       /\ UNCHANGED <<s_diag_view, s_diag_page, s_page_idx, s_selector_idx,
                      round, asked>>
    \/ e = "SELECT" /\ s_selector_idx # BACK /\ RunBootDiag

InCarousel(e) ==
    /\ IF e = "SELECT"
       THEN /\ IF s_level = "MAIN"
               THEN s_level' = "SETTINGS" /\ s_selector_idx' = BACK
               ELSE UNCHANGED <<s_level, s_selector_idx>>
            /\ UNCHANGED s_page_idx
       ELSE /\ s_page_idx' = Moved(e, s_page_idx, N_PAGES)
            /\ s_level' = IF s_page_idx' = s_page_idx THEN s_level
                          ELSE LevelOf(s_page_idx')
            /\ UNCHANGED s_selector_idx
    /\ UNCHANGED <<s_diag_view, s_diag_page, round, asked>>

HandleBtn(e) ==
    CASE s_diag_view = "PROGRESS" -> Ignore
      [] s_diag_view = "RESULTS"  -> InResults(e)
      [] OTHER -> IF s_level = "SETTINGS" THEN InSettings(e) ELSE InCarousel(e)

PollButtons ==
    /\ turn = "buttons" /\ turn' = "cmd"
    /\ Ignore \/ \E e \in {"UP", "DOWN", "SELECT"} : HandleBtn(e)
    /\ UNCHANGED oled_present

-----------------------------------------------------------------------------
(* cmd_dispatch: only BOOT matters here.  It starts a round and leaves the  *)
(* view as it is.                                                           *)
Boot == Start /\ UNCHANGED <<frozen, panel, asked>>

DispatchCmd ==
    /\ turn = "cmd" /\ turn' = "oled"
    /\ Ignore \/ Boot
    /\ UNCHANGED oled_present

(* oled_refresh, which does nothing without a display, and ui_render.       *)
NotRunning == phase # "RUN"
AtRest     == phase = "IDLE"
Finished   == phase = "DONE"

Refresh ==
    /\ turn = "oled" /\ turn' = "tick"
    /\ oled_present
    /\ IF s_diag_view = "PROGRESS" /\ Finished
       THEN s_diag_view' = "RESULTS" /\ s_diag_page' = 0
       ELSE UNCHANGED <<s_diag_view, s_diag_page>>
    /\ UNCHANGED <<s_level, s_page_idx, s_selector_idx, round, oled_present, asked>>

NothingDue ==
    /\ turn = "oled" /\ turn' = "tick"
    /\ UNCHANGED <<panel, round, oled_present, asked>>

Next == Tick \/ PollButtons \/ DispatchCmd \/ Refresh \/ NothingDue

(* The main loop never blocks for good, a round ends by RoundService, and a *)
(* refresh falls due every 100 ms.                                          *)
Fairness == WF_vars(Next) /\ SF_vars(Tick /\ EndRound) /\ SF_vars(Refresh)
Spec == Init /\ [][Next]_vars /\ Fairness

-----------------------------------------------------------------------------
(* Properties.                                                              *)

FlagTypes ==
    /\ request \in BOOLEAN /\ frozen \in BOOLEAN
    /\ oled_present \in BOOLEAN /\ asked \in BOOLEAN
StateTypes ==
    /\ turn \in {"tick", "buttons", "cmd", "oled"}
    /\ phase \in {"IDLE", "RUN", "DONE"}
    /\ s_diag_view \in {"NONE", "PROGRESS", "RESULTS"}
    /\ s_diag_page \in 0 .. N_DIAG_PAGES - 1
    /\ s_level \in {"MAIN", "DETAIL", "SETTINGS"}
    /\ s_page_idx \in 0 .. N_PAGES - 1
    /\ s_selector_idx \in 0 .. BACK
TypeOK == FlagTypes /\ StateTypes

(* The level and the page, kept in two variables by different branches,     *)
(* agree: the header says "MAIN" on page 0 and "n/N" elsewhere, settings    *)
(* and diagnostic views are left to the page they were entered from.        *)
LevelMatchesPage ==
    /\ s_level = "DETAIL" <=> s_page_idx > 0
    /\ s_diag_view # "NONE" => s_level = "MAIN"

(* The results view never shows a result that no round has written.         *)
ResultsAreFrozen == s_diag_view = "RESULTS" => frozen

(* The first round that the settings start keeps its progress view to the   *)
(* end, also if BOOT had started it before.                                 *)
FirstRoundShown == asked /\ ~frozen => s_diag_view = "PROGRESS"

(* With a display the progress view, in which every button is ignored, is   *)
(* followed by the results, unless BOOT commands never cease: one that      *)
(* comes between the end of a round and the next refresh hides that end.    *)
BootCeases == <>[][turn = "cmd" => UNCHANGED request]_vars
ProgressEnds ==
    BootCeases =>
      (oled_present /\ s_diag_view = "PROGRESS" ~> s_diag_view = "RESULTS")

(* "ignore buttons during a round" (ui.c:336): no button does anything      *)
(* between the start of a round in the settings and its end.                *)
ButtonsIgnored == [][turn = "buttons" /\ asked => UNCHANGED panel]_vars
=============================================================================
