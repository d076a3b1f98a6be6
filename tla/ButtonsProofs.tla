--------------------------- MODULE ButtonsProofs ---------------------------
(***************************************************************************)
(* Proofs about Buttons, for every debounce time, combo window, hold time    *)
(* and every spacing of the polls.                                          *)
(***************************************************************************)
EXTENDS Buttons, TLAPS

(* The sets, the ages and the flags, which TypeOK states together.           *)
SetTypes ==
    /\ prev_raw \subseteq Buttons /\ stable \subseteq Buttons
    /\ armed \subseteq Buttons /\ released \subseteq Buttons
    /\ pending_short \subseteq Combo /\ overlapped \subseteq Combo
    /\ hold_fired \subseteq {BTN_SELECT}
    /\ event \in Buttons \cup {BTN_NONE}
AgeTypes ==
    /\ change_age \in [Buttons -> 0 .. DEBOUNCE]
    /\ press_age \in [Buttons -> Nat]
    /\ \A b \in Buttons : press_age[b] <= HOLD(b)
    /\ both_age \in 0 .. ComboHold
    /\ level_age \in [Buttons -> NoSample .. DEBOUNCE + ComboHold]
    /\ answers \in [Buttons \cup {RESET} -> Nat]
FlagTypes ==
    /\ intent_active \in BOOLEAN /\ fired \in BOOLEAN
    /\ consumed \in BOOLEAN /\ reset \in BOOLEAN

(* What the code knows of the time a level has lasted is never more than     *)
(* it has lasted; only the level of the very first samples is believed.     *)
Trusted(b) == b \in prev_raw /\ b \notin {BTN_SELECT} \ released
AgesAgree == \A b \in Buttons :
    /\ level_age[b] = NoSample => b \in prev_raw
    /\ level_age[b] = NoSample \/ Trusted(b) \/ change_age[b] <= level_age[b]

(* A button without debounced press has not been answered; one with it is    *)
(* held, and has been for the debounce time before its press began.         *)
Held(b) == b \notin prev_raw /\ change_age[b] = DEBOUNCE
PressesAreHeld ==
    /\ \A b \in Buttons \ stable :
          /\ Held(b) /\ b \in armed
          /\ level_age[b] >= DEBOUNCE + press_age[b]
    /\ \A b \in stable : answers[b] = 0 /\ press_age[b] = 0
    /\ armed \subseteq Combo \cup released /\ Combo \subseteq armed
    /\ \A b \in Combo : Held(b) => b \notin stable

(* A deferred short is a press that is young and not answered; a press of    *)
(* the combo that is not deferred is answered, unless it overlapped.        *)
ShortsAreOwed ==
    /\ pending_short \cap (stable \cup overlapped) = {}
    /\ overlapped \cap stable = {}
    /\ \A b \in pending_short : answers[b] = 0 /\ press_age[b] < COMBO_WINDOW
    /\ \A b \in Combo \ (stable \cup overlapped \cup pending_short) : answers[b] = 1
    /\ \A b \in Combo : answers[b] <= 1

(* SELECT is answered by its hold or by its short press, never by both.      *)
HoldsFireOnce ==
    /\ BTN_SELECT \notin hold_fired => answers[BTN_SELECT] = 0
    /\ BTN_SELECT \notin stable /\ BTN_SELECT \in hold_fired => answers[BTN_SELECT] = 1

(* The combo: armed by both presses, fired once, consumed at once.           *)
ComboFiresOnce ==
    /\ intent_active => \A b \in Combo : Held(b) /\ level_age[b] >= DEBOUNCE + both_age
    /\ fired => consumed
    /\ answers[RESET] = IF intent_active /\ fired THEN 1 ELSE 0
    /\ intent_active /\ both_age >= ComboHold => fired

IInv ==
    /\ SetTypes /\ AgeTypes /\ FlagTypes
    /\ AgesAgree /\ PressesAreHeld /\ ShortsAreOwed
    /\ HoldsFireOnce /\ ComboFiresOnce
    /\ HeldLongEnough /\ ComboStealsShorts /\ NoPressLost /\ PressNeedsRelease
-----------------------------------------------------------------------------
(* What the assumptions say of each threshold.                               *)
LEMMA Thresholds ==
    /\ DEBOUNCE \in Nat /\ DEBOUNCE > 0
    /\ ComboHold \in Nat /\ ComboHold > 0
    /\ \A b \in Buttons : HOLD(b) \in Nat /\ HOLD(b) > 0 /\ HOLD(b) <= ComboHold
    /\ HOLD(BTN_SELECT) = SELECT_HOLD
    /\ \A b \in Combo : HOLD(b) = COMBO_WINDOW
    /\ \A dt \in Gaps : dt \in Nat /\ dt > 0
BY ThresholdAssumption, LongestAssumption, GapAssumption
   DEF HOLD, Buttons, Combo, BTN_SELECT, BTN_UP, BTN_DOWN

(* What a poll does to one button.                                           *)
LEMMA PollOfOne ==
    ASSUME SetTypes, AgeTypes, NEW dt \in Gaps, NEW raw \in SUBSET Buttons,
           Poll(dt, raw), NEW b \in Buttons
    PROVE  /\ b \in prev_raw' <=> b \in raw
           /\ change_age'[b] = IF b \in raw <=> b \in prev_raw
                               THEN Older(change_age[b], dt, DEBOUNCE) ELSE 0
           /\ b \in Pressed <=> b \notin raw /\ change_age'[b] >= DEBOUNCE
           /\ b \in armed' <=> b \in armed \/ (b \in raw /\ change_age'[b] >= DEBOUNCE)
           /\ b \in NewPresses <=> b \in Pressed /\ b \in stable /\ b \in armed'
           /\ b \in stable' <=> (b \in stable /\ b \notin NewPresses) \/ b \notin Pressed
           /\ press_age'[b] = IF b \in NewPresses \/ b \in stable' THEN 0
                              ELSE Older(press_age[b], dt, HOLD(b))
           /\ level_age'[b] = IF (b \in raw <=> b \in prev_raw) /\ level_age[b] # NoSample
                              THEN Older(level_age[b], dt, DEBOUNCE + ComboHold) ELSE 0
<1>1. Sample(dt, raw) /\ Debounce(dt) /\ Remember(dt, raw) BY DEF Poll
<1>2. /\ b \in prev_raw' <=> b \in raw
      /\ change_age'[b] = IF b \in raw <=> b \in prev_raw
                          THEN Older(change_age[b], dt, DEBOUNCE) ELSE 0
      /\ b \in Pressed <=> b \notin raw /\ change_age'[b] >= DEBOUNCE
  BY <1>1 DEF Sample, Pressed, is_debounced_pressed
<1>3. /\ b \in armed' <=> b \in armed \/ (b \in raw /\ change_age'[b] >= DEBOUNCE)
      /\ b \in NewPresses <=> b \in Pressed /\ b \in stable /\ b \in armed'
  BY <1>1 DEF Sample, ArmStable, NewPresses
<1>4. /\ b \in stable' <=> (b \in stable /\ b \notin NewPresses) \/ b \notin Pressed
      /\ press_age'[b] = IF b \in NewPresses \/ b \in stable' THEN 0
                         ELSE Older(press_age[b], dt, HOLD(b))
  BY <1>1 DEF Debounce
<1>5. level_age'[b] = IF (b \in raw <=> b \in prev_raw) /\ level_age[b] # NoSample
                      THEN Older(level_age[b], dt, DEBOUNCE + ComboHold) ELSE 0
  BY <1>1 DEF Remember
<1> QED BY <1>2, <1>3, <1>4, <1>5
(* An age grows to its limit and stays there.                                *)
LEMMA GrowingOlder ==
    ASSUME NEW age \in Int, NEW dt \in Nat, NEW limit \in Nat, age >= 0, age <= limit
    PROVE  /\ Older(age, dt, limit) \in Nat
           /\ Older(age, dt, limit) >= age /\ Older(age, dt, limit) <= limit
           /\ Older(age, dt, limit) <= age + dt
           /\ age + dt <= limit => Older(age, dt, limit) = age + dt
           /\ age + dt >= limit => Older(age, dt, limit) = limit
BY DEF Older

(* The debounce, press and level ages of a button and how they compare.      *)
LEMMA AgesOfOne ==
    ASSUME SetTypes, AgeTypes, AgesAgree, NEW dt \in Gaps, NEW raw \in SUBSET Buttons,
           Poll(dt, raw), NEW b \in Buttons
    PROVE  /\ change_age'[b] \in 0 .. DEBOUNCE
           /\ press_age'[b] \in Nat /\ press_age'[b] <= HOLD(b)
           /\ level_age'[b] \in 0 .. DEBOUNCE + ComboHold
           /\ level_age[b] # NoSample /\ change_age[b] <= level_age[b] =>
                 change_age'[b] <= level_age'[b]
           /\ b \notin prev_raw => change_age'[b] <= level_age'[b]
           /\ b \notin raw => change_age'[b] <= level_age'[b]
           /\ b \notin prev_raw /\ b \notin raw =>
                 /\ level_age'[b] = Older(level_age[b], dt, DEBOUNCE + ComboHold)
                 /\ change_age[b] = DEBOUNCE => change_age'[b] = DEBOUNCE
<1> DEFINE l == level_age[b]
           c == change_age[b]
           p == press_age[b]
<1>1. /\ c \in 0 .. DEBOUNCE /\ p \in Nat /\ p <= HOLD(b)
      /\ l \in NoSample .. DEBOUNCE + ComboHold
  BY DEF AgeTypes
<1>2. /\ DEBOUNCE \in Nat /\ ComboHold \in Nat /\ HOLD(b) \in Nat
      /\ dt \in Nat /\ DEBOUNCE > 0
  BY Thresholds
<1>3. /\ change_age'[b] = IF b \in raw <=> b \in prev_raw
                          THEN Older(c, dt, DEBOUNCE) ELSE 0
      /\ level_age'[b] = IF (b \in raw <=> b \in prev_raw) /\ l # NoSample
                         THEN Older(l, dt, DEBOUNCE + ComboHold) ELSE 0
  BY PollOfOne
<1>4. press_age'[b] = 0 \/ press_age'[b] = Older(p, dt, HOLD(b))
  BY PollOfOne
<1>5. b \notin prev_raw => l # NoSample /\ c <= l
  BY DEF AgesAgree, Trusted
<1> HIDE DEF l, c, p
<1>6. NoSample = -1 BY DEF NoSample
<1>7. press_age'[b] \in Nat /\ press_age'[b] <= HOLD(b)
  BY <1>1, <1>2, <1>4 DEF Older
<1>8. /\ Older(c, dt, DEBOUNCE) \in 0 .. DEBOUNCE
      /\ c = DEBOUNCE => Older(c, dt, DEBOUNCE) = DEBOUNCE
  BY <1>1, <1>2 DEF Older
<1>9. l # NoSample => /\ Older(l, dt, DEBOUNCE + ComboHold) \in 0 .. DEBOUNCE + ComboHold
                      /\ c <= l => Older(c, dt, DEBOUNCE) <= Older(l, dt, DEBOUNCE + ComboHold)
  BY <1>1, <1>2, <1>6 DEF Older
<1> QED BY <1>1, <1>2, <1>3, <1>5, <1>6, <1>7, <1>8, <1>9 DEF l, c

(* Only the level of the very first samples is trusted without its age.      *)
LEMMA AgesStep ==
    ASSUME IInv, NEW dt \in Gaps, NEW raw \in SUBSET Buttons, Poll(dt, raw)
    PROVE  AgesAgree'
<1> SUFFICES ASSUME NEW b \in Buttons
             PROVE  /\ level_age'[b] # NoSample
                    /\ Trusted(b)' \/ change_age'[b] <= level_age'[b]
  BY DEF AgesAgree
<1>1. SetTypes /\ AgeTypes /\ AgesAgree BY DEF IInv
<1>2. level_age'[b] # NoSample BY <1>1, AgesOfOne DEF NoSample
<1>3. CASE b \notin raw \/ b \notin prev_raw
  BY <1>1, <1>2, <1>3, AgesOfOne
<1>4. CASE b \in raw /\ b \in prev_raw
  <2>1. b \in prev_raw' BY <1>1, <1>4, PollOfOne
  <2>2. released' = released \cup {a \in raw \cap {BTN_SELECT} :
           level_age'[a] >= DEBOUNCE \/ level_age[a] = NoSample}
    BY DEF Poll, Remember
  <2>3. CASE level_age[b] = NoSample \/ Trusted(b)
    BY <1>2, <1>4, <2>1, <2>2, <2>3 DEF Trusted
  <2>4. CASE level_age[b] # NoSample /\ change_age[b] <= level_age[b]
    BY <1>1, <1>2, <2>4, AgesOfOne
  <2> QED BY <1>1, <2>3, <2>4 DEF AgesAgree
<1> QED BY <1>3, <1>4

(* What a poll adds to the answers of a press or a hold of both.             *)
LEMMA AnswersOfOne ==
    ASSUME AgeTypes, NEW dt \in Gaps, NEW raw \in SUBSET Buttons, Poll(dt, raw)
    PROVE  /\ \A b \in Buttons :
                 answers'[b] = IF b \in raw THEN 0
                               ELSE IF event' = b THEN answers[b] + 1 ELSE answers[b]
           /\ answers'[RESET] = IF ~BothPressed THEN 0
                                ELSE IF reset' THEN answers[RESET] + 1 ELSE answers[RESET]
<1>1. answers' = [o \in Buttons \cup {RESET} |->
           IF o \in raw \/ (o = RESET /\ ~BothPressed) THEN 0
           ELSE IF event' = o \/ (o = RESET /\ reset') THEN answers[o] + 1
           ELSE answers[o]]
  BY DEF Poll, Remember
<1>2. RESET \notin Buttons
  BY DEF RESET, Buttons, Combo, BTN_UP, BTN_DOWN, BTN_SELECT
<1>3. event' # RESET
  <2>1. event' \in Buttons \cup {BTN_NONE}
    BY DEF Poll, Dispatch, Shorts, Unstolen, Deferred, Pressed, Buttons
  <2> QED BY <1>2, <2>1 DEF RESET, BTN_NONE
<1> QED BY <1>1, <1>2, <1>3
-----------------------------------------------------------------------------
(* A deferred short is one of a press that is held and has no answer.        *)
LEMMA DeferredAreOwed ==
    ASSUME IInv, NEW dt \in Gaps, NEW raw \in SUBSET Buttons, Poll(dt, raw),
           NEW b \in Deferred
    PROVE  /\ b \in Combo /\ b \in Pressed /\ b \notin raw /\ b \notin stable'
           /\ answers[b] = 0
<1>1. /\ SetTypes /\ AgeTypes /\ pending_short \cap stable = {}
      /\ \A a \in pending_short \cup stable : answers[a] = 0
  BY DEF IInv, ShortsAreOwed, PressesAreHeld
<1>2. b \in Pressed /\ (b \in pending_short \/ (b \in NewPresses /\ b \in Combo))
  BY DEF Deferred
<1>3. b \in Combo /\ b \in Buttons
  BY <1>1, <1>2 DEF SetTypes, Buttons
<1>4. /\ b \notin raw
      /\ b \in NewPresses => b \in stable
      /\ b \in stable' <=> (b \in stable /\ b \notin NewPresses) \/ b \notin Pressed
  BY <1>1, <1>2, <1>3, PollOfOne
<1> QED BY <1>1, <1>2, <1>3, <1>4

(* At most one short is due, as two would be the combo.                      *)
LEMMA ShortsAreOne ==
    ASSUME IInv, NEW dt \in Gaps, NEW raw \in SUBSET Buttons, Poll(dt, raw)
    PROVE  /\ Shorts \subseteq Deferred
           /\ Shorts # {} => ~BothPressed
           /\ \A b \in Shorts : event' = b
           /\ event' \in Combo => event' \in Shorts
           /\ event' = BTN_SELECT <=> Shorts = {} /\ SelectFires
           /\ \A b \in Buttons : event' = b => b \notin stable'
           /\ event' \in Buttons \cup {BTN_NONE}
<1>1. /\ Shorts \subseteq Deferred
      /\ Shorts # {} => ~BothPressed
  BY DEF Shorts, Unstolen
<1>2. \A b \in Deferred : b \in Combo /\ b \in Pressed /\ b \notin stable'
  BY DeferredAreOwed
<1>3. ASSUME NEW b \in Shorts, NEW c \in Shorts, b # c PROVE FALSE
  <2>1. b \in Combo /\ c \in Combo /\ b \in Pressed /\ c \in Pressed
    BY <1>1, <1>2
  <2>2. Combo \subseteq Pressed
    BY <1>3, <2>1 DEF Combo
  <2> QED BY <1>1, <2>2 DEF BothPressed
<1>4. event' = IF Shorts # {} THEN CHOOSE b \in Shorts : TRUE
               ELSE IF SelectFires THEN BTN_SELECT ELSE BTN_NONE
  BY DEF Poll, Dispatch
<1>5. Shorts # {} => event' \in Shorts
  BY <1>4
<1>6. \A b \in Shorts : event' = b
  BY <1>3, <1>5
<1>7. BTN_SELECT \notin Combo /\ BTN_NONE \notin Buttons
  BY DEF BTN_SELECT, BTN_NONE, Buttons, Combo, BTN_UP, BTN_DOWN
<1>8. Shorts \subseteq Combo /\ Combo \subseteq Buttons /\ BTN_SELECT \in Buttons
  BY <1>1, <1>2 DEF Buttons
<1>9. SelectFires => BTN_SELECT \notin stable'
  BY DEF SelectFires
<1>10. /\ event' \in Combo => event' \in Shorts
       /\ event' = BTN_SELECT <=> Shorts = {} /\ SelectFires
       /\ event' \in Buttons \cup {BTN_NONE}
  BY <1>4, <1>5, <1>7, <1>8
<1>11. ASSUME NEW b \in Buttons, event' = b PROVE b \notin stable'
  <2>1. CASE Shorts # {}
    BY <1>1, <1>2, <1>5, <1>11, <2>1
  <2>2. CASE Shorts = {}
    BY <1>4, <1>7, <1>9, <1>11, <2>2
  <2> QED BY <2>1, <2>2
<1> QED BY <1>1, <1>6, <1>10, <1>11

(* A debounced press is held until it ends, and its age never exceeds the    *)
(* time the level has lasted after the debounce time.                       *)
LEMMA PressesStep ==
    ASSUME IInv, NEW dt \in Gaps, NEW raw \in SUBSET Buttons, Poll(dt, raw)
    PROVE  PressesAreHeld'
<1>1. /\ SetTypes /\ AgeTypes /\ AgesAgree /\ PressesAreHeld BY DEF IInv
<1>2. ASSUME NEW b \in Buttons, b \notin stable'
      PROVE  /\ Held(b)' /\ b \in armed'
             /\ level_age'[b] >= DEBOUNCE + press_age'[b]
  <2>1. /\ b \in Pressed /\ b \notin raw /\ b \notin prev_raw'
        /\ b \in NewPresses \/ b \notin stable
        /\ b \in NewPresses => b \in armed'
        /\ change_age'[b] >= DEBOUNCE
    BY <1>1, <1>2, PollOfOne
  <2>2. /\ change_age'[b] \in 0 .. DEBOUNCE /\ DEBOUNCE \in Nat
        /\ level_age'[b] \in Nat /\ change_age'[b] <= level_age'[b]
    BY <1>1, <2>1, AgesOfOne, Thresholds
  <2>3. Held(b)'
    BY <2>1, <2>2 DEF Held
  <2>4. CASE b \in NewPresses
    <3>1. press_age'[b] = 0 BY <1>1, <2>4, PollOfOne
    <3> QED BY <2>1, <2>2, <2>3, <2>4, <3>1
  <2>5. CASE b \notin NewPresses
    <3>1. b \notin stable /\ Held(b) /\ b \in armed
          /\ level_age[b] >= DEBOUNCE + press_age[b]
      BY <1>1, <2>1, <2>5 DEF PressesAreHeld
    <3>2. /\ press_age'[b] = Older(press_age[b], dt, HOLD(b)) /\ b \in armed'
      BY <1>1, <1>2, <2>5, <3>1, PollOfOne
    <3>3. level_age'[b] = Older(level_age[b], dt, DEBOUNCE + ComboHold)
      BY <1>1, <2>1, <3>1, AgesOfOne DEF Held
    <3>4. /\ HOLD(b) \in Nat /\ ComboHold \in Nat /\ HOLD(b) <= ComboHold /\ dt \in Nat
          /\ press_age[b] \in Nat
          /\ level_age[b] \in Int
      BY <1>1, Thresholds DEF AgeTypes, NoSample
    <3>5. Older(level_age[b], dt, DEBOUNCE + ComboHold)
             >= DEBOUNCE + Older(press_age[b], dt, HOLD(b))
      BY <2>2, <3>1, <3>4 DEF Older
    <3> QED BY <2>3, <3>2, <3>3, <3>5
  <2> QED BY <2>4, <2>5
<1>3. ASSUME NEW b \in Buttons, b \in stable'
      PROVE  answers'[b] = 0 /\ press_age'[b] = 0
  <2>1. event' # b BY <1>3, ShortsAreOne
  <2>2. press_age'[b] = 0 BY <1>1, <1>3, PollOfOne
  <2>3. b \notin raw => b \in stable
    <3> SUFFICES ASSUME b \notin raw, b \notin stable PROVE FALSE OBVIOUS
    <3>1. b \notin Pressed /\ change_age'[b] < DEBOUNCE
      <4>1. b \notin Pressed BY <1>1, <1>3, PollOfOne
      <4>2. change_age'[b] \in Nat /\ DEBOUNCE \in Nat
        BY <1>1, AgesOfOne, Thresholds
      <4> QED BY <1>1, <4>1, <4>2, PollOfOne
    <3>2. b \notin prev_raw /\ change_age[b] = DEBOUNCE
      BY <1>1 DEF PressesAreHeld, Held
    <3>3. change_age'[b] = DEBOUNCE BY <1>1, <3>2, AgesOfOne
    <3> QED BY <3>1, <3>3, Thresholds
  <2>4. b \in stable => answers[b] = 0 BY <1>1 DEF PressesAreHeld
  <2>5. answers'[b] = IF b \in raw THEN 0
                      ELSE IF event' = b THEN answers[b] + 1 ELSE answers[b]
    BY <1>1, AnswersOfOne
  <2> QED BY <2>1, <2>2, <2>3, <2>4, <2>5
<1>4. ASSUME NEW b \in Combo PROVE b \in armed' /\ (Held(b)' => b \notin stable')
  <2>1. b \in Buttons /\ b \in armed BY <1>1 DEF Buttons, PressesAreHeld
  <2>2. b \in armed' BY <1>1, <2>1, PollOfOne
  <2>3. ASSUME Held(b)' PROVE b \notin stable'
    <3>1. b \notin raw /\ change_age'[b] >= DEBOUNCE
      BY <1>1, <2>1, <2>3, Thresholds, PollOfOne DEF Held
    <3>2. b \in Pressed /\ (b \in NewPresses <=> b \in stable)
      BY <1>1, <2>1, <2>2, <3>1, PollOfOne
    <3> QED BY <1>1, <2>1, <3>2, PollOfOne
  <2> QED BY <2>2, <2>3
<1>5. ASSUME NEW b \in armed' PROVE b \in Combo \cup released'
  <2>1. /\ armed' = armed \cup ArmStable(raw)
        /\ released' = released \cup {a \in raw \cap {BTN_SELECT} :
              level_age'[a] >= DEBOUNCE \/ level_age[a] = NoSample}
    BY DEF Poll, Sample, Remember
  <2>2. CASE b \in armed BY <1>1, <2>1, <2>2 DEF PressesAreHeld
  <2>3. CASE b \in ArmStable(raw) /\ b = BTN_SELECT
    <3>1. b \in raw /\ change_age'[b] >= DEBOUNCE /\ b \in Buttons
      BY <2>3 DEF ArmStable, Buttons
    <3>2. CASE b \in released \/ level_age[b] = NoSample
      BY <2>1, <2>3, <3>1, <3>2
    <3>3. CASE b \notin released /\ level_age[b] # NoSample
      <4>1. change_age[b] <= level_age[b]
        BY <1>1, <2>3, <3>1, <3>3 DEF AgesAgree, Trusted
      <4>2. /\ change_age'[b] <= level_age'[b]
            /\ change_age'[b] \in Nat /\ level_age'[b] \in Nat /\ DEBOUNCE \in Nat
        BY <1>1, <3>1, <3>3, <4>1, AgesOfOne, Thresholds
      <4>3. level_age'[b] >= DEBOUNCE BY <3>1, <4>2
      <4> QED BY <2>1, <2>3, <3>1, <4>3
    <3> QED BY <3>2, <3>3
  <2>4. CASE b \in ArmStable(raw) /\ b # BTN_SELECT
    BY <2>4 DEF ArmStable, Buttons
  <2> QED BY <2>1, <2>2, <2>3, <2>4
<1>6. stable' \subseteq Buttons
  BY <1>1 DEF Poll, Debounce, SetTypes
<1>7. \A b \in stable' : answers'[b] = 0 /\ press_age'[b] = 0 BY <1>3, <1>6
<1> QED BY <1>2, <1>4, <1>5, <1>7 DEF PressesAreHeld
(* A poll defers, answers or steals a short, and never forgets one.          *)
LEMMA ShortsStep ==
    ASSUME IInv, NEW dt \in Gaps, NEW raw \in SUBSET Buttons, Poll(dt, raw)
    PROVE  ShortsAreOwed'
<1>1. /\ SetTypes /\ AgeTypes /\ AgesAgree /\ PressesAreHeld /\ ShortsAreOwed
      /\ PressesAreHeld'
  BY PressesStep DEF IInv
<1>2. /\ pending_short' = Unstolen(Deferred) \ {event'}
      /\ overlapped' = (overlapped \cup (IF BothPressed THEN Combo ELSE {})) \ raw
  BY DEF Poll, Dispatch, Taken, Remember
<1>3. \A b \in Combo :
        /\ b \in Buttons
        /\ answers'[b] = IF b \in raw THEN 0
                         ELSE IF event' = b THEN answers[b] + 1 ELSE answers[b]
        /\ event' = b => b \in Deferred
        /\ answers[b] \in Nat
  BY <1>1, AnswersOfOne, ShortsAreOne DEF Buttons, AgeTypes
<1>4. ASSUME NEW b \in pending_short'
      PROVE  /\ b \in Combo /\ b \notin stable' /\ b \notin overlapped'
             /\ answers'[b] = 0 /\ press_age'[b] < COMBO_WINDOW
  <2>1. /\ b \in Deferred /\ ~BothPressed /\ event' # b
        /\ b \in pending_short \/ b \in NewPresses
    BY <1>2 DEF Unstolen, Deferred
  <2>2. b \in Combo /\ b \notin raw /\ b \notin stable' /\ answers[b] = 0
    BY <2>1, DeferredAreOwed
  <2>3. b \in pending_short \/ b \in stable
    BY <1>1, <1>3, <2>1, <2>2, PollOfOne
  <2>4. b \notin overlapped'
    BY <1>1, <1>2, <2>1, <2>3 DEF ShortsAreOwed
  <2>5. press_age'[b] < COMBO_WINDOW
    <3>1. b \notin Shorts BY <2>1, ShortsAreOne
    <3>2. ~ (press_age'[b] >= COMBO_WINDOW)
      BY <2>1, <3>1 DEF Shorts, Unstolen
    <3>3. press_age'[b] \in Nat /\ COMBO_WINDOW \in Nat
      BY <1>1, <1>3, <2>2, AgesOfOne, ThresholdAssumption
    <3> QED BY <3>2, <3>3
  <2> QED BY <1>3, <2>1, <2>2, <2>4, <2>5
<1>5. ASSUME NEW b \in overlapped' PROVE b \notin stable'
  <2>1. b \notin raw /\ (b \in overlapped \/ (BothPressed /\ b \in Combo))
    BY <1>2
  <2>2. b \in Combo BY <1>1, <2>1 DEF SetTypes
  <2>3. change_age'[b] = DEBOUNCE
    <3>1. CASE b \in overlapped
      <4>1. b \in Buttons \ stable
        BY <1>1, <1>3, <2>2, <3>1 DEF ShortsAreOwed
      <4>2. Held(b) BY <1>1, <4>1 DEF PressesAreHeld
      <4> QED BY <1>1, <2>1, <4>1, <4>2, AgesOfOne DEF Held
    <3>2. CASE BothPressed
      <4>1. b \in Pressed BY <2>2, <3>2 DEF BothPressed
      <4>2. change_age'[b] >= DEBOUNCE BY <1>1, <1>3, <2>2, <4>1, PollOfOne
      <4>3. change_age'[b] \in 0 .. DEBOUNCE BY <1>1, <1>3, <2>2, AgesOfOne
      <4> QED BY <4>2, <4>3, Thresholds
    <3> QED BY <2>1, <3>1, <3>2
  <2>4. Held(b)' BY <1>1, <1>3, <2>1, <2>2, <2>3, PollOfOne DEF Held
  <2> QED BY <1>1, <2>2, <2>4 DEF PressesAreHeld
<1>6. ASSUME NEW b \in Combo, b \notin stable', b \notin overlapped',
             b \notin pending_short'
      PROVE  answers'[b] = 1
  <2>1. /\ b \in Pressed /\ b \notin raw
        /\ b \in stable => b \in NewPresses
    BY <1>1, <1>3, <1>6, PollOfOne
  <2>2. ~BothPressed /\ b \notin overlapped
    BY <1>2, <1>6, <2>1
  <2>3. CASE b \in Deferred
    <3>1. event' = b BY <1>2, <1>6, <2>2, <2>3 DEF Unstolen
    <3>2. answers[b] = 0 BY <2>3, DeferredAreOwed
    <3> QED BY <1>3, <2>1, <3>1, <3>2
  <2>4. CASE b \notin Deferred
    <3>1. b \notin pending_short /\ b \notin stable
      BY <2>1, <2>4 DEF Deferred
    <3>2. answers[b] = 1 BY <1>1, <2>2, <3>1 DEF ShortsAreOwed
    <3> QED BY <1>3, <2>1, <2>4, <3>2
  <2> QED BY <2>3, <2>4
<1>7. ASSUME NEW b \in Combo PROVE answers'[b] <= 1
  <2>1. answers[b] \in Nat /\ answers[b] <= 1 BY <1>1, <1>3 DEF ShortsAreOwed
  <2>2. event' = b => answers[b] = 0 BY <1>3, DeferredAreOwed
  <2> QED BY <1>3, <2>1, <2>2
<1>8. \A b \in pending_short' : answers'[b] = 0 /\ press_age'[b] < COMBO_WINDOW
  BY <1>4
<1>9. pending_short' \cap (stable' \cup overlapped') = {}
  BY <1>4
<1>10. overlapped' \cap stable' = {}
  BY <1>5
<1> QED BY <1>6, <1>7, <1>8, <1>9, <1>10 DEF ShortsAreOwed

(* SELECT fires once in a press: hold_fired remembers it until the next.     *)
LEMMA HoldsStep ==
    ASSUME IInv, NEW dt \in Gaps, NEW raw \in SUBSET Buttons, Poll(dt, raw)
    PROVE  HoldsFireOnce'
<1> DEFINE s == BTN_SELECT
<1>1. /\ SetTypes /\ AgeTypes /\ HoldsFireOnce /\ s \in Buttons
      /\ s \in stable => answers[s] = 0
  BY DEF IInv, PressesAreHeld, Buttons
<1>2. hold_fired' = (hold_fired \ NewPresses) \cup ({s} \cap {event'})
  BY DEF Poll, Dispatch
<1>3. /\ answers'[s] = IF s \in raw THEN 0
                       ELSE IF event' = s THEN answers[s] + 1 ELSE answers[s]
      /\ s \in NewPresses => s \in stable
      /\ s \notin stable' => s \notin raw /\ (s \in NewPresses \/ s \notin stable)
      /\ event' = s => s \notin stable' /\ s \notin hold_fired \ NewPresses
  <2>1. event' = s => SelectFires BY ShortsAreOne
  <2>2. SelectFires => s \notin stable' /\ s \notin hold_fired \ NewPresses
    BY DEF SelectFires
  <2> QED BY <1>1, <2>1, <2>2, AnswersOfOne, PollOfOne
<1>4. s \notin hold_fired => answers[s] = 0
  BY <1>1 DEF HoldsFireOnce
<1>5. s \notin hold_fired' => answers'[s] = 0
  BY <1>1, <1>2, <1>3, <1>4
<1>6. ASSUME s \notin stable', s \in hold_fired' PROVE answers'[s] = 1
  <2>1. CASE event' = s
    <3>1. answers[s] = 0 BY <1>1, <1>3, <1>4, <2>1
    <3> QED BY <1>3, <1>6, <2>1, <3>1
  <2>2. CASE event' # s
    <3>1. s \in hold_fired /\ s \notin NewPresses BY <1>2, <1>6, <2>2
    <3>2. answers[s] = 1 BY <1>1, <1>3, <1>6, <3>1 DEF HoldsFireOnce
    <3> QED BY <1>3, <1>6, <2>2, <3>2
  <2> QED BY <2>1, <2>2
<1> QED BY <1>5, <1>6 DEF HoldsFireOnce

(* The combo fires once in a hold of both, and is consumed in that poll.     *)
LEMMA ComboOnce ==
    ASSUME IInv, NEW dt \in Gaps, NEW raw \in SUBSET Buttons, Poll(dt, raw)
    PROVE  /\ ComboFiresOnce'
           /\ reset' => BothPressed /\ both_age' >= ComboHold
<1> DEFINE begins == BothPressed /\ ~intent_active
           latch  == fired /\ ~begins
           fires  == BothPressed /\ ~latch /\ both_age' >= ComboHold
           done   == consumed /\ ~begins /\ ~fires
<1>1. /\ SetTypes /\ AgeTypes /\ AgesAgree /\ FlagTypes /\ ComboFiresOnce BY DEF IInv
<1>2. /\ intent_active' <=> BothPressed
      /\ both_age' = IF begins \/ ~BothPressed THEN 0 ELSE Older(both_age, dt, ComboHold)
      /\ fired' <=> latch \/ fires
      /\ reset' <=> fired' /\ ~done
      /\ consumed' <=> done \/ fired'
  BY DEF Poll, ComboStep, StillIntended
<1>3. fired => consumed BY <1>1 DEF ComboFiresOnce
<1>4. ComboHold \in Nat /\ ComboHold > 0 /\ DEBOUNCE \in Nat /\ dt \in Nat
      /\ both_age \in Nat /\ both_age <= ComboHold
  BY <1>1, Thresholds DEF AgeTypes
<1>5. ~begins \/ ~fires
  BY <1>2, <1>4
<1>6. reset' <=> fires
  BY <1>1, <1>2, <1>3, <1>5 DEF FlagTypes
<1>7. answers'[RESET] = IF ~BothPressed THEN 0
                        ELSE IF reset' THEN answers[RESET] + 1 ELSE answers[RESET]
  BY <1>1, AnswersOfOne
<1>8. answers[RESET] = IF intent_active /\ fired THEN 1 ELSE 0
  BY <1>1 DEF ComboFiresOnce
<1>9. answers'[RESET] = IF intent_active' /\ fired' THEN 1 ELSE 0
  <2>1. CASE ~BothPressed BY <1>2, <1>7, <2>1
  <2>2. CASE BothPressed /\ fires
    <3>1. answers[RESET] = 0 BY <1>8, <2>2
    <3> QED BY <1>2, <1>6, <1>7, <2>2, <3>1
  <2>3. CASE BothPressed /\ ~fires
    BY <1>2, <1>6, <1>7, <1>8, <2>3
  <2> QED BY <2>1, <2>2, <2>3
<1>10. intent_active' /\ both_age' >= ComboHold => fired'
  BY <1>2
<1>11. ASSUME intent_active', NEW b \in Combo
       PROVE  Held(b)' /\ level_age'[b] >= DEBOUNCE + both_age'
  <2>1. b \in Pressed /\ b \in Buttons BY <1>2, <1>11 DEF BothPressed, Buttons
  <2>2. b \notin raw /\ b \notin prev_raw' /\ change_age'[b] >= DEBOUNCE
    BY <1>1, <2>1, PollOfOne
  <2>3. /\ change_age'[b] \in 0 .. DEBOUNCE /\ level_age'[b] \in Nat
        /\ change_age'[b] <= level_age'[b]
    BY <1>1, <2>1, <2>2, AgesOfOne
  <2>4. Held(b)' BY <1>4, <2>2, <2>3 DEF Held
  <2>5. CASE begins
    <3>1. both_age' = 0 BY <1>2, <2>5
    <3> QED BY <1>4, <2>2, <2>3, <2>4, <3>1
  <2>6. CASE ~begins
    <3>1. intent_active BY <1>1, <1>2, <1>11, <2>6 DEF FlagTypes
    <3>2. Held(b) /\ level_age[b] >= DEBOUNCE + both_age
      BY <1>1, <3>1 DEF ComboFiresOnce
    <3>3. /\ level_age'[b] = Older(level_age[b], dt, DEBOUNCE + ComboHold)
          /\ both_age' = Older(both_age, dt, ComboHold)
      BY <1>1, <1>2, <1>11, <2>1, <2>2, <2>6, <3>2, AgesOfOne DEF Held
    <3>4. level_age[b] \in Int BY <1>1, <2>1, <1>4 DEF AgeTypes, NoSample
    <3>5. Older(level_age[b], dt, DEBOUNCE + ComboHold)
             >= DEBOUNCE + Older(both_age, dt, ComboHold)
      BY <1>4, <3>2, <3>4 DEF Older
    <3> QED BY <2>4, <3>3, <3>5
  <2> QED BY <2>5, <2>6
<1>12. fired' => consumed' BY <1>2
<1>13. reset' => BothPressed /\ both_age' >= ComboHold BY <1>6
<1>14. ComboFiresOnce' BY <1>9, <1>10, <1>11, <1>12 DEF ComboFiresOnce
<1> QED BY <1>13, <1>14
-----------------------------------------------------------------------------
(* The sets, ages and flags keep their types.                                *)
LEMMA TypesStep ==
    ASSUME IInv, NEW dt \in Gaps, NEW raw \in SUBSET Buttons, Poll(dt, raw)
    PROVE  SetTypes' /\ AgeTypes' /\ FlagTypes'
<1>1. SetTypes /\ AgeTypes /\ FlagTypes /\ AgesAgree BY DEF IInv
<1>2. SetTypes'
  <2>1. prev_raw' = raw /\ armed' = armed \cup ArmStable(raw) /\ ArmStable(raw) \subseteq raw
    BY DEF Poll, Sample, ArmStable
  <2>2. stable' \subseteq Buttons BY <1>1 DEF SetTypes, Poll, Debounce
  <2>3. /\ released' \subseteq released \cup raw
        /\ overlapped' \subseteq overlapped \cup Combo
    BY DEF Poll, Remember
  <2>4. pending_short' \subseteq Deferred /\ hold_fired' \subseteq hold_fired \cup {BTN_SELECT}
    BY DEF Poll, Dispatch, Taken, Unstolen
  <2>5. Deferred \subseteq Combo /\ event' \in Buttons \cup {BTN_NONE}
    BY DeferredAreOwed, ShortsAreOne
  <2> QED BY <1>1, <2>1, <2>2, <2>3, <2>4, <2>5 DEF SetTypes
<1>3. AgeTypes'
  <2>1. /\ change_age' = [b \in Buttons |-> change_age'[b]]
        /\ press_age' = [b \in Buttons |-> press_age'[b]]
        /\ level_age' = [b \in Buttons |-> level_age'[b]]
        /\ answers' = [o \in Buttons \cup {RESET} |-> answers'[o]]
    BY DEF Poll, Sample, Debounce, Remember
  <2>2. \A b \in Buttons : /\ change_age'[b] \in 0 .. DEBOUNCE
                           /\ press_age'[b] \in Nat /\ press_age'[b] <= HOLD(b)
                           /\ level_age'[b] \in NoSample .. DEBOUNCE + ComboHold
    <3>1. DEBOUNCE \in Nat /\ ComboHold \in Nat BY Thresholds
    <3> QED BY <1>1, <3>1, AgesOfOne DEF NoSample
  <2>3. \A o \in Buttons \cup {RESET} : answers'[o] \in Nat
    <3>1. \A o \in Buttons \cup {RESET} : answers[o] \in Nat BY <1>1 DEF AgeTypes
    <3> QED BY <1>1, <3>1, AnswersOfOne
  <2>4. both_age' \in 0 .. ComboHold
    <3>1. both_age' = 0 \/ both_age' = Older(both_age, dt, ComboHold)
      BY DEF Poll, ComboStep
    <3>2. both_age \in 0 .. ComboHold /\ ComboHold \in Nat /\ dt \in Nat
      BY <1>1, Thresholds DEF AgeTypes
    <3> QED BY <3>1, <3>2 DEF Older
  <2>5. /\ change_age' \in [Buttons -> 0 .. DEBOUNCE]
        /\ press_age' \in [Buttons -> Nat]
        /\ level_age' \in [Buttons -> NoSample .. DEBOUNCE + ComboHold]
        /\ answers' \in [Buttons \cup {RESET} -> Nat]
    BY <2>1, <2>2, <2>3
  <2> QED BY <2>2, <2>4, <2>5 DEF AgeTypes
<1>4. FlagTypes'
  BY <1>1 DEF FlagTypes, Poll, ComboStep, StillIntended, BothPressed
<1> QED BY <1>2, <1>3, <1>4

(* The properties of a poll follow from what holds after it.                 *)
LEMMA PollIsRight ==
    ASSUME IInv, NEW dt \in Gaps, NEW raw \in SUBSET Buttons, Poll(dt, raw)
    PROVE  /\ HeldLongEnough' /\ ComboStealsShorts' /\ NoPressLost'
           /\ PressNeedsRelease'
<1>1. /\ SetTypes /\ AgeTypes /\ AgesAgree /\ PressesAreHeld' /\ ShortsAreOwed'
      /\ HoldsFireOnce' /\ ComboFiresOnce'
      /\ SetTypes' /\ AgeTypes' /\ FlagTypes'
  BY PressesStep, ShortsStep, HoldsStep, ComboOnce, TypesStep DEF IInv
<1>2. /\ BTN_SELECT \in Buttons /\ BTN_SELECT \notin Combo /\ Combo \subseteq Buttons
      /\ BTN_NONE \notin Buttons
  BY DEF BTN_SELECT, BTN_NONE, Buttons, Combo, BTN_UP, BTN_DOWN
<1>3. /\ DEBOUNCE \in Nat /\ COMBO_WINDOW \in Nat /\ SELECT_HOLD \in Nat
      /\ ComboHold \in Nat /\ SELECT_HOLD > 0
  BY ThresholdAssumption
<1>4. ASSUME NEW b \in Buttons, NEW time \in Nat, b \notin stable', press_age'[b] >= time
      PROVE  HeldFor(b, time)'
  <2>1. /\ b \notin prev_raw' /\ level_age'[b] >= DEBOUNCE + press_age'[b]
        /\ press_age'[b] \in Nat /\ level_age'[b] \in Int
    BY <1>1, <1>3, <1>4 DEF PressesAreHeld, Held, AgeTypes, NoSample
  <2> QED BY <1>3, <1>4, <2>1 DEF HeldFor
<1>5. HeldLongEnough'
  <2>1. event' \in Combo => HeldFor(event, COMBO_WINDOW)'
    <3> SUFFICES ASSUME event' \in Combo PROVE HeldFor(event, COMBO_WINDOW)' OBVIOUS
    <3>1. event' \in Shorts /\ event' \notin stable' BY <1>2, ShortsAreOne
    <3>2. press_age'[event'] >= COMBO_WINDOW BY <3>1 DEF Shorts
    <3>3. event' \in Buttons BY <1>2
    <3>4. PICK b \in Buttons : b = event' BY <3>3
    <3>5. HeldFor(b, COMBO_WINDOW)' BY <1>3, <1>4, <3>1, <3>2, <3>4
    <3> QED BY <3>4, <3>5 DEF HeldFor
  <2>2. event' = BTN_SELECT => HeldFor(event, SELECT_HOLD)'
    <3> SUFFICES ASSUME event' = BTN_SELECT PROVE HeldFor(BTN_SELECT, SELECT_HOLD)'
      BY DEF HeldFor
    <3>1. SelectFires /\ event' \notin stable' BY <1>2, ShortsAreOne
    <3>2. press_age'[BTN_SELECT] >= SELECT_HOLD BY <3>1 DEF SelectFires
    <3> QED BY <1>2, <1>3, <1>4, <3>1, <3>2
  <2>3. reset' => \A b \in Combo : HeldFor(b, ComboHold)'
    <3> SUFFICES ASSUME reset', NEW b \in Combo PROVE HeldFor(b, ComboHold)' OBVIOUS
    <3>1. BothPressed /\ both_age' >= ComboHold BY ComboOnce
    <3>2. intent_active' BY <3>1 DEF Poll, ComboStep, StillIntended
    <3>3. b \notin prev_raw' /\ level_age'[b] >= DEBOUNCE + both_age'
      BY <1>1, <3>2 DEF ComboFiresOnce, Held
    <3>4. level_age'[b] \in Int /\ both_age' \in Int
      BY <1>1, <1>2, <1>3 DEF AgeTypes, NoSample
    <3> QED BY <1>3, <3>1, <3>3, <3>4 DEF HeldFor
  <2> QED BY <2>1, <2>2, <2>3 DEF HeldLongEnough
<1>6. ComboStealsShorts'
  <2> SUFFICES ASSUME event' \in Combo PROVE event' \notin overlapped'
    BY DEF ComboStealsShorts
  <2>1. event' \in Shorts /\ ~BothPressed /\ event' \in Deferred
    BY ShortsAreOne
  <2>2. overlapped' \subseteq overlapped BY <2>1 DEF Poll, Remember
  <2>3. event' \in pending_short \/ event' \in NewPresses
    BY <2>1 DEF Deferred
  <2>4. event' \in NewPresses => event' \in stable
    BY DEF NewPresses
  <2>5. overlapped \cap (pending_short \cup stable) = {}
    BY DEF IInv, ShortsAreOwed
  <2> QED BY <2>2, <2>3, <2>4, <2>5
<1>7. NoPressLost'
  <2>1. ASSUME NEW b \in Combo, b \notin stable' \cup overlapped',
               press_age'[b] >= COMBO_WINDOW
        PROVE  answers'[b] = 1
    <3>1. press_age'[b] \in Nat BY <1>1, <1>2 DEF AgeTypes
    <3>2. b \notin pending_short' BY <1>1, <1>3, <2>1, <3>1 DEF ShortsAreOwed
    <3> QED BY <1>1, <2>1, <3>2 DEF ShortsAreOwed
  <2>2. ASSUME BTN_SELECT \notin stable', press_age'[BTN_SELECT] >= SELECT_HOLD,
               event' \notin Combo
        PROVE  answers'[BTN_SELECT] = 1
    <3>1. Shorts = {}
      <4>1. \A b \in Shorts : event' = b /\ b \in Combo
        BY ShortsAreOne, DeferredAreOwed
      <4> QED BY <2>2, <4>1
    <3>2. BTN_SELECT \in Pressed BY <1>1, <1>2, <2>2, PollOfOne
    <3>3. hold_fired' = (hold_fired \ NewPresses) \cup ({BTN_SELECT} \cap {event'})
      BY DEF Poll, Dispatch
    <3>4. CASE BTN_SELECT \in hold_fired \ NewPresses
      BY <1>1, <2>2, <3>3, <3>4 DEF HoldsFireOnce
    <3>5. CASE BTN_SELECT \notin hold_fired \ NewPresses
      <4>1. SelectFires BY <2>2, <3>1, <3>2, <3>5 DEF SelectFires
      <4>2. event' = BTN_SELECT BY <3>1, <4>1, ShortsAreOne
      <4> QED BY <1>1, <2>2, <3>3, <4>2 DEF HoldsFireOnce
    <3> QED BY <3>4, <3>5
  <2>3. ASSUME intent_active', both_age' >= ComboHold PROVE answers'[RESET] = 1
    BY <1>1, <2>3 DEF ComboFiresOnce
  <2> QED BY <2>1, <2>2, <2>3 DEF NoPressLost
<1>8. PressNeedsRelease'
  <2> SUFFICES ASSUME event' = BTN_SELECT PROVE BTN_SELECT \in released'
    BY DEF PressNeedsRelease
  <2>1. BTN_SELECT \notin stable' BY <1>2, ShortsAreOne
  <2> QED BY <1>1, <1>2, <2>1 DEF PressesAreHeld
<1> QED BY <1>5, <1>6, <1>7, <1>8

(* A poll keeps everything.                                                  *)
LEMMA StaysRight == IInv /\ [Next]_vars => IInv'
<1> SUFFICES ASSUME IInv, [Next]_vars PROVE IInv' OBVIOUS
<1>1. CASE UNCHANGED vars
  <2> USE <1>1 DEF IInv, vars, btns, g_combo, hist
  <2>1. SetTypes' /\ AgeTypes' /\ FlagTypes'
    BY DEF SetTypes, AgeTypes, FlagTypes
  <2>2. AgesAgree' /\ PressesAreHeld' /\ ShortsAreOwed' /\ HoldsFireOnce' /\ ComboFiresOnce'
    BY DEF AgesAgree, Trusted, PressesAreHeld, Held, ShortsAreOwed, HoldsFireOnce,
           ComboFiresOnce
  <2>3. HeldLongEnough' /\ ComboStealsShorts' /\ NoPressLost' /\ PressNeedsRelease'
    BY DEF HeldLongEnough, HeldFor, ComboStealsShorts, NoPressLost, PressNeedsRelease
  <2> QED BY <2>1, <2>2, <2>3
<1>2. CASE Next
  <2>1. PICK dt \in Gaps, raw \in SUBSET Buttons : Poll(dt, raw) BY <1>2 DEF Next
  <2>2. SetTypes' /\ AgeTypes' /\ FlagTypes' BY <2>1, TypesStep
  <2>3. AgesAgree' /\ PressesAreHeld' BY <2>1, AgesStep, PressesStep
  <2>4. ShortsAreOwed' /\ HoldsFireOnce' BY <2>1, ShortsStep, HoldsStep
  <2>5. ComboFiresOnce' BY <2>1, ComboOnce
  <2>6. HeldLongEnough' /\ ComboStealsShorts' /\ NoPressLost' /\ PressNeedsRelease'
    BY <2>1, PollIsRight
  <2> QED BY <2>2, <2>3, <2>4, <2>5, <2>6 DEF IInv
<1> QED BY <1>1, <1>2

(* After buttons_init no button has been pressed or sampled.                 *)
LEMMA InitiallyRight == Init => IInv
<1> SUFFICES ASSUME Init PROVE IInv OBVIOUS
<1> USE DEF Init
<1>1. /\ DEBOUNCE \in Nat /\ DEBOUNCE > 0 /\ ComboHold \in Nat /\ ComboHold > 0
      /\ \A b \in Buttons : HOLD(b) \in Nat
      /\ SELECT_HOLD > 0 /\ SELECT_HOLD \in Nat
  BY Thresholds, ThresholdAssumption
<1>2. /\ BTN_SELECT \in Buttons /\ Combo \subseteq Buttons /\ BTN_SELECT \notin Combo
      /\ BTN_NONE \notin Buttons
  BY DEF BTN_SELECT, BTN_NONE, Buttons, Combo, BTN_UP, BTN_DOWN
<1>3. SetTypes /\ FlagTypes
  BY <1>2 DEF SetTypes, FlagTypes
<1>4. AgeTypes
  BY <1>1 DEF AgeTypes, NoSample
<1>5. AgesAgree
  BY DEF AgesAgree
<1>6. PressesAreHeld
  BY <1>2 DEF PressesAreHeld, Held
<1>7. ShortsAreOwed
  BY <1>2 DEF ShortsAreOwed
<1>8. HoldsFireOnce /\ ComboFiresOnce
  BY <1>1, <1>2 DEF HoldsFireOnce, ComboFiresOnce
<1>9. HeldLongEnough /\ ComboStealsShorts /\ NoPressLost /\ PressNeedsRelease
  BY <1>2 DEF HeldLongEnough, ComboStealsShorts, NoPressLost, PressNeedsRelease
<1> QED BY <1>3, <1>4, <1>5, <1>6, <1>7, <1>8, <1>9 DEF IInv
-----------------------------------------------------------------------------
(* Every button state and age keeps its type: no age passes its threshold,   *)
(* only the combo buttons are deferred and only SELECT is held.             *)
THEOREM TypeCorrect == Spec => []TypeOK
<1>1. SetTypes /\ FlagTypes =>
        /\ {prev_raw, stable, armed, released} \subseteq SUBSET Buttons
        /\ pending_short \subseteq Combo /\ overlapped \subseteq Combo
        /\ hold_fired \subseteq {BTN_SELECT}
        /\ {intent_active, fired, consumed, reset} \subseteq BOOLEAN
        /\ event \in Buttons \cup {BTN_NONE}
  BY DEF SetTypes, FlagTypes
<1>2. AgeTypes =>
        /\ change_age \in [Buttons -> 0 .. DEBOUNCE]
        /\ \A b \in Buttons : press_age[b] \in 0 .. HOLD(b)
        /\ both_age \in 0 .. ComboHold
        /\ level_age \in [Buttons -> NoSample .. DEBOUNCE + ComboHold]
        /\ answers \in [Buttons \cup {RESET} -> Nat]
  BY Thresholds DEF AgeTypes
<1>3. IInv => TypeOK BY <1>1, <1>2 DEF IInv, TypeOK
<1> QED BY <1>3, InitiallyRight, StaysRight, PTL DEF Spec

(* buttons_poll returns one event per press and buttons_combo_check one      *)
(* reset per hold of both, whatever the thresholds and the poll times are.  *)
THEOREM PressAnsweredOnce == Spec => []OncePerPress
<1>1. IInv => OncePerPress
  <2> SUFFICES ASSUME IInv, NEW o \in Buttons \cup {RESET} PROVE answers[o] <= 1
    BY DEF OncePerPress
  <2>1. CASE o \in Combo BY <2>1 DEF IInv, ShortsAreOwed
  <2>2. CASE o = BTN_SELECT
    <3>1. answers[BTN_SELECT] = 0 \/ answers[BTN_SELECT] = 1
      BY DEF IInv, HoldsFireOnce, PressesAreHeld
    <3> QED BY <2>2, <3>1
  <2>3. CASE o = RESET BY <2>3 DEF IInv, ComboFiresOnce
  <2> QED BY <2>1, <2>2, <2>3 DEF Buttons
<1> QED BY <1>1, InitiallyRight, StaysRight, PTL DEF Spec

(* A short whose press overlapped with the other combo button is never sent. *)
THEOREM ComboWins == Spec => []ComboStealsShorts
<1>1. IInv => ComboStealsShorts BY DEF IInv
<1> QED BY <1>1, InitiallyRight, StaysRight, PTL DEF Spec

(* No event or reset without LOW samples over the debounce and hold times.   *)
THEOREM EventsAreEarned == Spec => []HeldLongEnough
<1>1. IInv => HeldLongEnough BY DEF IInv
<1> QED BY <1>1, InitiallyRight, StaysRight, PTL DEF Spec

(* Every press and every hold of both that lasts is answered in time.        *)
THEOREM HeldPressAnswered == Spec => []NoPressLost
<1>1. IInv => NoPressLost BY DEF IInv
<1> QED BY <1>1, InitiallyRight, StaysRight, PTL DEF Spec

(* SELECT fires only after it has been armed by a stably released line.      *)
THEOREM SelectIsArmed == Spec => []PressNeedsRelease
<1>1. IInv => PressNeedsRelease BY DEF IInv
<1> QED BY <1>1, InitiallyRight, StaysRight, PTL DEF Spec
=============================================================================
