-------------------------------- MODULE Rails ---------------------------------
(***************************************************************************)
(* The supply monitor: adc_rails.c takes one sample of one rail in every     *)
(* turn of the main loop and keeps a running average per rail; main.c takes  *)
(* a snapshot every 500 ms and shows POWER FAULT after four failing          *)
(* snapshots in a row.                                                      *)
(***************************************************************************)
EXTENDS Integers

CONSTANTS
    AdcMax,      \* 4095
    Weight,      \* 64
    Supplies,    \* what the converter would read of each rail: functions of Rail
    PollTurns,   \* fewest turns of the main loop in 500 ms
    Left,        \* how far above its supply an average is, at most, after so
                 \* many samples of a steady supply
    ChangeAt     \* bound: after which of them the supply may change

FAULT_DEBOUNCE == 4
Rail == 0 .. 2   \* +5 V, +12 V, -12 V

ASSUME RailAssumption == {AdcMax, Weight, PollTurns} \subseteq Nat \ {0}
ASSUME SupplyAssumption == Supplies \subseteq [Rail -> 0 .. AdcMax]

VARIABLES
    avg,             \* avg[3]
    current_rail,
    status,          \* status_5v, status_12v, status_m12v of rail_snap
    fault_count,
    s_power_fault,   \* of ui.c
    turns,           \* turns since the last snapshot, up to PollTurns
    supply,
    disturbed,       \* whether the supply changed or was not a good one at some
                     \* moment since the last snapshot (history)
    unsteady         \* snapshots in a row with a disturbed interval before
                     \* them, up to FAULT_DEBOUNCE (history)

vars == <<avg, current_rail, status, fault_count, s_power_fault, turns, supply,
          disturbed, unsteady>>

-------------------------------------------------------------------------------
(* adc_rails_raw_to_v and adc_rails_calc_voltage, in mV.                    *)
calc_voltage(rail, raw) ==
    LET mv(gain) == (raw * gain) \div AdcMax
    IN  CASE rail = 0 -> mv(6600) [] rail = 1 -> mv(14190)
          [] rail = 2 -> mv(30360) - 27060

nominal == [r \in Rail |-> CASE r = 0 -> 5000 [] r = 1 -> 12000 [] r = 2 -> -12000]
Magnitude(n) == IF n < 0 THEN -n ELSE n

check_threshold(rail, v) ==
    LET off == 100 * Magnitude(v - nominal[rail]) IN
    IF (rail # 2 /\ v < 1000) \/ (rail = 2 /\ v >= -2000) THEN "ABSENT"
    ELSE IF off > 10 * Magnitude(nominal[rail]) THEN "FAIL"
    ELSE IF off > 5 * Magnitude(nominal[rail]) THEN "WARN" ELSE "OK"

Status(readings) == [r \in Rail |-> check_threshold(r, calc_voltage(r, readings[r]))]
Failing(st) == {st[0], st[1]} # {"ABSENT"} /\ \E r \in Rail : st[r] = "FAIL"

(* With the averages of a steady supply, which stay below it by up to        *)
(* Weight - 1 counts, the monitor shows a fault in any case, or in none.     *)
Lagging(s) == {[r \in Rail |-> s[r] - lag[r]] : lag \in [Rail -> 0 .. Weight - 1]}
Broken(s)  == \A a \in Lagging(s) : Failing(Status(a))
Good(s)    == \A a \in Lagging(s) : ~Failing(Status(a))

-------------------------------------------------------------------------------
AverageUp(a, raw) == (a * (Weight - 1) + raw + Weight - 1) \div Weight
Average(a, raw)   == (a * (Weight - 1) + raw) \div Weight

(* 500 ms are time enough for any average to settle: each rail gets so many  *)
(* samples between two snapshots, and one that starts above decays in them.  *)
Samples == (PollTurns - 1) \div 3
ASSUME SettleAssumption ==
    /\ Left \in [0 .. Samples -> Nat]
    /\ Left[0] >= AdcMax /\ Left[Samples] = 0
    /\ \A k \in 1 .. Samples : Left[k] >= (Left[k - 1] * (Weight - 1)) \div Weight

(* adc_rails_init and the sample taken by main before its loop.             *)
Init ==
    /\ supply \in Supplies
    /\ avg = [[r \in Rail |-> 0] EXCEPT ![0] = Average(0, supply[0])]
    /\ current_rail = 1
    /\ status = [r \in Rail |-> "OK"]   \* zeroes
    /\ fault_count = 0 /\ s_power_fault = FALSE
    /\ turns = PollTurns                \* of the time since power-on
    /\ disturbed = TRUE /\ unsteady = 0

adc_rails_sample ==
    /\ avg' = [avg EXCEPT ![current_rail] = Average(@, supply[current_rail])]
    /\ current_rail' = (current_rail + 1) % 3

(* A turn in which the 500 ms have not passed, however many turns there were. *)
Turn ==
    /\ adc_rails_sample
    /\ turns' = IF turns < PollTurns THEN turns + 1 ELSE turns
    /\ UNCHANGED <<status, fault_count, s_power_fault, supply, disturbed, unsteady>>

Latched   == UNCHANGED <<fault_count, s_power_fault>>
Decaying  == fault_count' = fault_count /\ s_power_fault' = FALSE
GoodPoll  == fault_count' = 0 /\ s_power_fault' = FALSE
FaultPoll ==
    /\ fault_count' = IF fault_count < FAULT_DEBOUNCE THEN fault_count + 1
                      ELSE fault_count
    /\ s_power_fault' = (s_power_fault \/ fault_count' >= FAULT_DEBOUNCE)

(* A turn with adc_rails_snapshot and the debounce of main.                 *)
PollTurn ==
    /\ turns = PollTurns
    /\ adc_rails_sample
    /\ turns' = 0
    /\ status' = Status(avg')
    /\ IF Failing(status') THEN FaultPoll ELSE GoodPoll
    /\ unsteady' = IF ~disturbed THEN 0
                   ELSE IF unsteady < FAULT_DEBOUNCE THEN unsteady + 1 ELSE unsteady
    /\ disturbed' = ~Good(supply)
    /\ UNCHANGED supply

SupplyChanges ==
    /\ turns \in ChangeAt
    /\ supply' \in Supplies \ {supply}
    /\ disturbed' = TRUE
    /\ UNCHANGED <<avg, current_rail, status, fault_count, s_power_fault, turns,
                   unsteady>>

Next == Turn \/ PollTurn \/ SupplyChanges

(* The loop turns, and 500 ms pass.                                         *)
Spec == Init /\ [][Next]_vars /\ WF_vars(Turn) /\ WF_vars(PollTurn)

-------------------------------------------------------------------------------
(* Properties.                                                              *)

(* A POWER FAULT on the display takes four intervals of 500 ms in a row with *)
(* a supply that fails or changes in each ("4 consecutive 500 ms FAIL polls *)
(* (2 s)", main.c:128-132): the averages left over from an earlier dip, from  *)
(* the start at zero, or from the ramp of a soft start never add to that.    *)
OnlyLastingFaultsShow == s_power_fault => unsteady = FAULT_DEBOUNCE

(* Once the supply stays as it is, each average comes to rest at the sample  *)
(* or below it by less than Weight counts, from wherever it started: the     *)
(* division truncates, and never lifts an average over its samples.          *)
AveragesSettle ==
    \A s \in Supplies :
        <>[](supply = s) =>
            <>[](\A r \in Rail : avg[r] \in s[r] - (Weight - 1) .. s[r])

(* A supply that stays broken is shown, and one that stays good, or absent,  *)
(* clears the fault: it neither latches nor comes and goes.                  *)
FaultFollowsSupply ==
    \A s \in Supplies :
        /\ Broken(s) /\ <>[](supply = s) => <>[]s_power_fault
        /\ Good(s)   /\ <>[](supply = s) => <>[]~s_power_fault

===============================================================================
