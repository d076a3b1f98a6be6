------------------------------ MODULE Buttons ------------------------------
(***************************************************************************)
(* The three buttons of the cartridge (buttons.c).  The main loop polls     *)
(* them: each poll samples the pins, debounces, and returns at most one     *)
(* event; right after it the loop asks whether the UP+DOWN combination has  *)
(* been held long enough to reset the MSX (main.c:154-164).                 *)
(*                                                                          *)
(* A set of buttons stands for a flag of btn_state_t.  The code compares    *)
(* now_ms with the time of an event; the age of the event is kept here      *)
(* instead, while something is compared with it and up to the threshold it  *)
(* is compared with.  A poll may come late, because some turns of the loop  *)
(* block.                                                                   *)
(***************************************************************************)
EXTENDS Integers, FiniteSets

CONSTANTS
    DEBOUNCE, COMBO_WINDOW, SELECT_HOLD,  \* buttons.c:24-27, in ticks
    ComboHold,  \* hold_ms of buttons_set_combo(BTN_UP, BTN_DOWN, 500)
    Gaps        \* how many ticks may lie between two polls

ASSUME ThresholdAssumption ==
    {DEBOUNCE, COMBO_WINDOW, SELECT_HOLD, ComboHold} \subseteq Nat \ {0}
ASSUME LongestAssumption == ComboHold >= COMBO_WINDOW /\ ComboHold >= SELECT_HOLD
ASSUME GapAssumption == Gaps \subseteq Nat \ {0}

VARIABLES
    prev_raw,    \* buttons whose pin was HIGH (released) at the last poll
    change_age,  \* now_ms - last_change_ms
    stable,      \* buttons without a debounced press
    press_age,   \* now_ms - press_start_ms
    pending_short, armed, hold_fired,
    intent_active, both_age, fired, consumed,  \* g_combo
    event,       \* what the last poll returned
    reset,       \* the last poll was followed by msx_reset_pulse
    level_age,   \* how long every sample has shown the present level (history)
    released,    \* SELECT, once it was seen stably HIGH (history)
    overlapped,  \* presses during which both combo buttons were down (history)
    answers      \* what each press, and each hold of both, has led to (history)

btns    == <<prev_raw, change_age, stable, press_age, pending_short, armed,
             hold_fired>>
g_combo == <<intent_active, both_age, fired, consumed>>
hist    == <<level_age, released, overlapped, answers>>
vars    == <<btns, g_combo, event, reset, hist>>

BTN_UP     == "UP"
BTN_DOWN   == "DOWN"
BTN_SELECT == "SELECT"
BTN_NONE   == "NONE"
Combo      == {BTN_UP, BTN_DOWN}
Buttons    == Combo \cup {BTN_SELECT}
RESET      == "RESET"                    \* the outcome of holding both

HOLD(b) == IF b = BTN_SELECT THEN SELECT_HOLD ELSE COMBO_WINDOW
Older(age, dt, limit) == IF age + dt < limit THEN age + dt ELSE limit
NoSample == -1

(* buttons_init: last_change_ms is 0, and by the first poll the display     *)
(* has been set up, which takes longer than DEBOUNCE.                       *)
Init ==
    /\ prev_raw = Buttons /\ stable = Buttons
    /\ change_age = [b \in Buttons |-> DEBOUNCE]
    /\ press_age = [b \in Buttons |-> 0]
    /\ pending_short = {} /\ hold_fired = {} /\ armed = Combo
    /\ intent_active = FALSE /\ both_age = 0
    /\ fired = FALSE /\ consumed = TRUE
    /\ event = BTN_NONE /\ reset = FALSE
    /\ level_age = [b \in Buttons |-> NoSample]
    /\ released = {} /\ overlapped = {}
    /\ answers = [o \in Buttons \cup {RESET} |-> 0]

-----------------------------------------------------------------------------
(* Pass 1: debounce, detect new presses.                                    *)

is_debounced_pressed(b) == b \notin prev_raw' /\ change_age'[b] >= DEBOUNCE
Pressed == {b \in Buttons : is_debounced_pressed(b)}

NewPresses  == Pressed \cap stable \cap armed'

ArmAtOnce(raw)  == raw
ArmStable(raw)  == {b \in raw : change_age'[b] >= DEBOUNCE}

Sample(dt, raw) ==
    /\ prev_raw' = raw
    /\ change_age' = [b \in Buttons |-> IF b \in raw <=> b \in prev_raw
                                        THEN Older(change_age[b], dt, DEBOUNCE) ELSE 0]
    /\ armed' = armed \cup ArmStable(raw)

Debounce(dt) ==
    /\ stable' = (stable \ NewPresses) \cup (Buttons \ Pressed)
    /\ press_age' = [b \in Buttons |-> IF b \in NewPresses \cup stable'
                                       THEN 0 ELSE Older(press_age[b], dt, HOLD(b))]

(* Shorts of the combo buttons are deferred; an early release drops them.   *)
OnlyNew  == NewPresses \cap Combo
AnyPress == (pending_short \cup NewPresses) \cap Pressed
Deferred == (pending_short \cup (NewPresses \cap Combo)) \cap Pressed

(* Pass 2: the combo suppresses the shorts while both are down, and fires   *)
(* once; buttons_combo_check consumes it right after the poll.              *)
BothPressed == Combo \subseteq Pressed
KeepAll(shorts)  == shorts
Unstolen(shorts) == IF BothPressed THEN {} ELSE shorts

NeverEnds     == intent_active \/ BothPressed
StillIntended == BothPressed

ComboStep(dt) ==
    LET begins == BothPressed /\ ~intent_active
        latch  == fired /\ ~begins
        fires  == BothPressed /\ ~latch /\ both_age' >= ComboHold
        done   == consumed /\ ~begins /\ ~fires
    IN  /\ intent_active' = StillIntended
        /\ both_age' = IF begins \/ ~intent_active' THEN 0
                      ELSE Older(both_age, dt, ComboHold)
        /\ fired' = (latch \/ fires)
        /\ reset' = (fired' /\ ~done)
        /\ consumed' = (done \/ fired')

(* Passes 3 and 4: at most one event.                                       *)
Shorts == {b \in Unstolen(Deferred) : press_age'[b] >= COMBO_WINDOW}

SelectFires ==
    /\ Shorts = {}
    /\ BTN_SELECT \in Pressed \ (stable' \cup (hold_fired \ NewPresses))
    /\ press_age'[BTN_SELECT] >= SELECT_HOLD

Kept(shorts, e)  == shorts
Taken(shorts, e) == shorts \ {e}

Dispatch ==
    /\ event' = IF Shorts # {} THEN CHOOSE b \in Shorts : TRUE
                ELSE IF SelectFires THEN BTN_SELECT ELSE BTN_NONE
    /\ pending_short' = Taken(Unstolen(Deferred), event')
    /\ hold_fired' = (hold_fired \ NewPresses) \cup ({BTN_SELECT} \cap {event'})

Remember(dt, raw) ==
    /\ level_age' = [b \in Buttons |->
           IF (b \in raw <=> b \in prev_raw) /\ level_age[b] # NoSample
           THEN Older(level_age[b], dt, DEBOUNCE + ComboHold) ELSE 0]
    /\ released' = released \cup {b \in raw \cap {BTN_SELECT} :
           level_age'[b] >= DEBOUNCE \/ level_age[b] = NoSample}
    /\ overlapped' = (overlapped \cup (IF BothPressed THEN Combo ELSE {})) \ raw
    /\ answers' = [o \in Buttons \cup {RESET} |->
           IF o \in raw \/ (o = RESET /\ ~BothPressed) THEN 0
           ELSE IF event' = o \/ (o = RESET /\ reset') THEN answers[o] + 1
           ELSE answers[o]]

(* buttons_poll and buttons_combo_check, as main.c calls them.              *)
Poll(dt, raw) ==
    /\ Sample(dt, raw) /\ Debounce(dt)
    /\ ComboStep(dt) /\ Dispatch
    /\ Remember(dt, raw)

Next == \E dt \in Gaps, raw \in SUBSET Buttons : Poll(dt, raw)

Spec == Init /\ [][Next]_vars

-----------------------------------------------------------------------------
(* Properties.                                                              *)

TypeOK ==
    /\ {prev_raw, stable, armed, released} \subseteq SUBSET Buttons
    /\ pending_short \subseteq Combo /\ overlapped \subseteq Combo
    /\ hold_fired \subseteq {BTN_SELECT}
    /\ change_age \in [Buttons -> 0 .. DEBOUNCE]
    /\ \A b \in Buttons : press_age[b] \in 0 .. HOLD(b)
    /\ {intent_active, fired, consumed, reset} \subseteq BOOLEAN
    /\ both_age \in 0 .. ComboHold
    /\ event \in Buttons \cup {BTN_NONE}
    /\ level_age \in [Buttons -> NoSample .. DEBOUNCE + ComboHold]
    /\ answers \in [Buttons \cup {RESET} -> Nat]

(* One press leads to one event and one hold of both to one reset, however  *)
(* irregularly the loop polls and whatever the other buttons do meanwhile.  *)
OncePerPress == \A o \in Buttons \cup {RESET} : answers[o] <= 1

(* A press that overlapped with the other combo button never moves the UI,  *)
(* also after one of the two is released ("Suppresses short-press UP/DOWN   *)
(* events during combo intent", main.c:94-95).                              *)
ComboStealsShorts == event \in Combo => event \notin overlapped

(* Every event was preceded by samples that were all LOW for the debounce   *)
(* time and the hold of its kind; a reset by such samples of both buttons.  *)
(* So no short fires at an early release: the code drops it there           *)
(* (buttons.c:155-158, "released before window elapsed: drop"), although    *)
(* the comment at buttons.c:15-17 says that it fires "once this window has  *)
(* passed since the debounced press, or if the button is released early".   *)
HeldFor(b, time) == b \notin prev_raw /\ level_age[b] >= DEBOUNCE + time
HeldLongEnough ==
    /\ event \in Combo => HeldFor(event, COMBO_WINDOW)
    /\ event = BTN_SELECT => HeldFor(event, SELECT_HOLD)
    /\ reset => \A b \in Combo : HeldFor(b, ComboHold)

(* A press that is held is answered, and so is a hold of both buttons; the  *)
(* event of SELECT may have to let a short of another button pass first.    *)
NoPressLost ==
    /\ \A b \in Combo \ (stable \cup overlapped) :
          press_age[b] >= COMBO_WINDOW => answers[b] = 1
    /\ BTN_SELECT \notin stable /\ press_age[BTN_SELECT] >= SELECT_HOLD =>
          answers[BTN_SELECT] = 1 \/ event \in Combo
    /\ intent_active /\ both_age >= ComboHold => answers[RESET] = 1

(* "A press counts only after the line is seen stably released (HIGH past   *)
(* the full debounce window); one stray idle-high sample won't arm it"      *)
(* (buttons.c:73-75), with the one exception the code makes: the first      *)
(* sample ever taken counts as stable, as last_change_ms starts at 0 and    *)
(* the first poll comes later than DEBOUNCE after power-up.                 *)
PressNeedsRelease == event = BTN_SELECT => BTN_SELECT \in released

=============================================================================
