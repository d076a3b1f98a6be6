----------------------------- MODULE RailsProofs ------------------------------
(***************************************************************************)
(* The power fault, for every converter, every weight of the average, every  *)
(* set of supplies and every time at which the supply changes.  An interval  *)
(* of a good and steady supply ends with averages that have settled,         *)
(* wherever they started, and so with a snapshot that does not fail.        *)
(***************************************************************************)
EXTENDS Rails, TLAPS

Reading == 0 .. AdcMax

Types ==
    /\ avg \in [Rail -> Reading] /\ supply \in [Rail -> Reading]
    /\ current_rail \in Rail
    /\ fault_count \in 0 .. FAULT_DEBOUNCE /\ unsteady \in 0 .. FAULT_DEBOUNCE
    /\ s_power_fault \in BOOLEAN /\ disturbed \in BOOLEAN
    /\ turns \in 0 .. PollTurns

(* How many turns ago rail r was sampled, when c is the next.                *)
Ago(c, r) == (c + 2 - r) % 3

(* An average is at most l above its supply, and not further below it than   *)
(* that and what the division costs.                                        *)
Near(a, raw, l) == a <= raw + l /\ raw <= a + l + Weight - 1

(* While the supply is good and steady, each sample brings an average nearer *)
(* to it.                                                                    *)
Settling ==
    ~disturbed =>
        /\ Good(supply)
        /\ \A r \in Rail, k \in 0 .. Samples :
              3 * k + Ago(current_rail, r) <= turns => Near(avg[r], supply[r], Left[k])

(* Only snapshots after a disturbed interval count towards a fault.          *)
FaultsCounted ==
    /\ fault_count <= unsteady
    /\ s_power_fault => fault_count = FAULT_DEBOUNCE

IInv == Types /\ Settling /\ FaultsCounted

-----------------------------------------------------------------------------
(* The constants.                                                            *)
LEMMA Constants ==
    /\ AdcMax \in Nat /\ Weight \in Nat /\ Weight > 0
    /\ PollTurns \in Nat /\ PollTurns > 0
    /\ Samples \in Nat /\ 3 * Samples + 1 <= PollTurns
BY RailAssumption DEF Samples

(* A product with the weight, and the quotient.                              *)
W(x) == Weight * x
V(x) == x * (Weight - 1)

(* An average lies between two products, so far as it is a quotient.         *)
LEMMA Quotient ==
    ASSUME NEW a \in Int, NEW raw \in Int
    PROVE  /\ Average(a, raw) \in Int
           /\ W(Average(a, raw)) <= V(a) + raw
           /\ V(a) + raw < W(Average(a, raw)) + Weight
<1>1. PICK x \in Int : x = V(a) + raw BY Constants DEF V
<1>2. Average(a, raw) = x \div Weight BY <1>1 DEF Average, V
<1>3. x = Weight * (x \div Weight) + (x % Weight) BY Constants
<1>4. x \div Weight \in Int /\ (x % Weight) \in 0 .. Weight - 1 BY Constants
<1>5. PICK q \in Int : q = x \div Weight BY <1>4
<1>6. x = W(q) + (x % Weight) BY <1>3, <1>5 DEF W
<1>7. W(q) \in Int BY Constants DEF W
<1> QED BY <1>1, <1>2, <1>4, <1>5, <1>6, <1>7, Constants

(* Products, linearly.                                                       *)
LEMMA ProductsOf ==
    ASSUME NEW x \in Int, NEW y \in Int
    PROVE  /\ W(x) \in Int /\ V(x) \in Int /\ W(x) = V(x) + x
           /\ W(x + y) = W(x) + W(y) /\ V(x + y) = V(x) + V(y)
           /\ x <= y => W(x) <= W(y) /\ V(x) <= V(y)
           /\ W(x) < W(y) + Weight => x <= y
<1>1. W(x) \in Int /\ V(x) \in Int /\ W(x) = V(x) + x BY Constants DEF W, V
<1>2. W(x + y) = W(x) + W(y) /\ V(x + y) = V(x) + V(y) BY Constants DEF W, V
<1>3. ASSUME x <= y PROVE W(x) <= W(y) /\ V(x) <= V(y)
  BY <1>3, Constants DEF W, V
<1>4. ASSUME x > y PROVE W(x) >= W(y) + Weight
  <2>1. Weight * (x - y) >= Weight BY <1>4, Constants
  <2>2. Weight * x = Weight * y + Weight * (x - y) BY Constants
  <2> QED BY <2>1, <2>2, Constants DEF W
<1>5. W(y) \in Int BY Constants DEF W
<1> QED BY <1>1, <1>2, <1>3, <1>4, <1>5, Constants

(* A sample keeps an average within the converter's range, and brings it     *)
(* nearer to a steady supply.                                                *)
LEMMA AverageInRange ==
    ASSUME NEW a \in Reading, NEW raw \in Reading
    PROVE  Average(a, raw) \in Reading
<1>1. a \in Int /\ raw \in Int /\ 0 \in Int /\ AdcMax \in Int
  BY Constants DEF Reading
<1>2. PICK q \in Int : q = Average(a, raw) BY <1>1, Quotient
<1>3. W(q) <= V(a) + raw /\ V(a) + raw < W(q) + Weight BY <1>1, <1>2, Quotient
<1>4. V(a) <= V(AdcMax) /\ V(0) <= V(a) BY <1>1, ProductsOf DEF Reading
<1>5. /\ V(a) \in Int /\ V(AdcMax) \in Int /\ W(AdcMax) = V(AdcMax) + AdcMax
      /\ W(0) = 0 /\ V(0) = 0 /\ W(q) \in Int
  <2>1. /\ V(a) \in Int /\ V(AdcMax) \in Int /\ W(q) \in Int
        /\ W(AdcMax) = V(AdcMax) + AdcMax
    BY <1>1, ProductsOf
  <2>2. W(0) = 0 /\ V(0) = 0 BY Constants DEF W, V
  <2> QED BY <2>1, <2>2
<1>6. W(q) < W(AdcMax) + Weight /\ W(0) < W(q) + Weight
  BY <1>1, <1>3, <1>4, <1>5, Constants DEF Reading
<1>7. q <= AdcMax /\ 0 <= q BY <1>1, <1>6, ProductsOf
<1> QED BY <1>2, <1>7 DEF Reading

(* The distance above shrinks like an average over zeroes.                   *)
LEMMA AverageNears ==
    ASSUME NEW a \in Reading, NEW raw \in Reading, NEW l \in Nat, NEW m \in Nat,
           Near(a, raw, l), m >= Average(l, 0)
    PROVE  Near(Average(a, raw), raw, m)
<1>1. a \in Int /\ raw \in Int /\ l \in Int /\ 0 \in Int /\ Weight - 1 \in Int
  BY Constants DEF Reading
<1>2. PICK q \in Int : q = Average(a, raw) BY <1>1, Quotient
<1>3. PICK p \in Int : p = Average(l, 0) BY <1>1, Quotient
<1>4. W(q) <= V(a) + raw /\ V(a) + raw < W(q) + Weight BY <1>1, <1>2, Quotient
<1>5. W(p) <= V(l) /\ V(l) < W(p) + Weight
  <2>1. V(l) \in Int BY <1>1, ProductsOf
  <2> QED BY <2>1, <1>1, <1>3, Quotient
<1>6. /\ W(q) \in Int /\ W(p) \in Int /\ V(l) \in Int /\ V(a) \in Int /\ V(raw) \in Int
      /\ W(raw) \in Int /\ W(raw) = V(raw) + raw
  BY <1>1, ProductsOf
<1>7. q <= raw + p
  <2>1. V(a) <= V(raw + l) BY <1>1, ProductsOf DEF Near
  <2>2. V(raw + l) = V(raw) + V(l) /\ W(raw + p) = W(raw) + W(p)
    BY <1>1, ProductsOf
  <2>3. W(q) < W(raw + p) + Weight BY <1>1, <1>4, <1>5, <1>6, <2>1, <2>2, Constants
  <2> QED BY <1>1, <2>3, ProductsOf
<1>8. raw <= q + p + Weight - 1
  <2>1. V(raw) <= V(a + l + (Weight - 1))
    <3>1. PICK t \in Int : t = a + l + (Weight - 1) BY <1>1
    <3>2. raw <= t BY <1>1, <3>1, Constants DEF Near
    <3> QED BY <1>1, <3>1, <3>2, ProductsOf
  <2>2. V(a + l + (Weight - 1)) = V(a) + V(l) + V(Weight - 1)
    <3>1. V(a + l + (Weight - 1)) = V(a + l) + V(Weight - 1) BY <1>1, ProductsOf
    <3> QED BY <3>1, <1>1, ProductsOf
  <2>3. /\ W(Weight - 1) = V(Weight - 1) + Weight - 1
        /\ W(Weight - 1) \in Int /\ V(Weight - 1) \in Int
    BY <1>1, ProductsOf, Constants
  <2>4. W(q + p + (Weight - 1)) = W(q) + W(p) + W(Weight - 1)
    <3>1. W(q + p + (Weight - 1)) = W(q + p) + W(Weight - 1) BY <1>1, ProductsOf
    <3> QED BY <3>1, <1>1, ProductsOf
  <2>5. W(raw) < W(q + p + (Weight - 1)) + Weight
    BY <1>1, <1>4, <1>5, <1>6, <2>1, <2>2, <2>3, <2>4, Constants
  <2>6. PICK t \in Int : t = q + p + (Weight - 1) BY <1>1
  <2>7. raw <= t BY <1>1, <2>5, <2>6, ProductsOf
  <2> QED BY <2>6, <2>7, <1>1, Constants
<1> QED BY <1>1, <1>2, <1>3, <1>7, <1>8, Constants DEF Near
-----------------------------------------------------------------------------
(* Which rail is sampled when: the last one comes round after three turns.   *)
LEMMA Round ==
    ASSUME NEW c \in Rail, NEW r \in Rail
    PROVE  /\ (c + 1) % 3 \in Rail
           /\ Ago(c, r) \in 0 .. 2
           /\ r = c => Ago(c, r) = 2 /\ Ago((c + 1) % 3, r) = 0
           /\ r # c => Ago((c + 1) % 3, r) = Ago(c, r) + 1
BY DEF Rail, Ago

(* The decay that 500 ms leave time for.                                     *)
LEMMA Decay ==
    /\ \A k \in 0 .. Samples : Left[k] \in Nat
    /\ Left[0] >= AdcMax /\ Left[Samples] = 0
    /\ \A k \in 1 .. Samples : Left[k] >= Average(Left[k - 1], 0)
<1>1. /\ \A k \in 0 .. Samples : Left[k] \in Nat
      /\ Left[0] >= AdcMax /\ Left[Samples] = 0
  BY SettleAssumption
<1>2. ASSUME NEW k \in 1 .. Samples PROVE Left[k] >= Average(Left[k - 1], 0)
  <2>1. k - 1 \in 0 .. Samples BY Constants
  <2>2. PICK l \in Nat : l = Left[k - 1] BY <1>1, <2>1
  <2>3. l * (Weight - 1) + 0 = l * (Weight - 1) BY Constants
  <2>4. Left[k] >= (l * (Weight - 1)) \div Weight BY <2>2, SettleAssumption
  <2> QED BY <2>2, <2>3, <2>4 DEF Average
<1> QED BY <1>1, <1>2

(* One sample: the types, and what it does to a steady supply's averages.    *)
LEMMA SampleTypes ==
    ASSUME Types, adc_rails_sample
    PROVE  avg' \in [Rail -> Reading] /\ current_rail' \in Rail
<1>1. current_rail' \in Rail BY Round DEF Types, adc_rails_sample
<1>2. avg[current_rail] \in Reading /\ supply[current_rail] \in Reading
  BY DEF Types
<1>3. Average(avg[current_rail], supply[current_rail]) \in Reading
  BY <1>2, AverageInRange
<1>4. avg' = [avg EXCEPT ![current_rail] =
                  Average(avg[current_rail], supply[current_rail])]
  BY DEF adc_rails_sample
<1> QED BY <1>1, <1>3, <1>4 DEF Types

(* While the supply is good and steady, k samples leave at most Left[k].     *)
LEMMA SampleNears ==
    ASSUME Types, Settling, ~disturbed, adc_rails_sample,
           NEW r \in Rail, NEW k \in 0 .. Samples,
           3 * k + Ago(current_rail', r) <= turns + 1
    PROVE  Near(avg'[r], supply[r], Left[k])
<1>1. /\ current_rail \in Rail /\ current_rail' = (current_rail + 1) % 3
      /\ avg[r] \in Reading /\ supply[r] \in Reading /\ turns \in Nat
  BY DEF Types, adc_rails_sample
<1>2. PICK c \in Rail : c = current_rail BY <1>1
<1>3. k \in Nat /\ Left[k] \in Nat BY Constants, Decay
<1>4. CASE r # c
  <2>1. avg'[r] = avg[r] BY <1>2, <1>4 DEF Types, adc_rails_sample
  <2>2. Ago(current_rail', r) = Ago(c, r) + 1 /\ Ago(c, r) \in 0 .. 2
    BY <1>1, <1>2, <1>4, Round
  <2>3. 3 * k + Ago(c, r) <= turns BY <1>1, <1>3, <2>2
  <2> QED BY <1>2, <2>1, <2>3 DEF Settling
<1>5. CASE r = c
  <2>1. avg'[r] = Average(avg[r], supply[r])
    BY <1>2, <1>5 DEF Types, adc_rails_sample
  <2>2. CASE k = 0
    <3>1. Average(avg[r], supply[r]) \in Reading BY <1>1, AverageInRange
    <3>2. Left[k] >= AdcMax BY <2>2, Decay
    <3> QED BY <1>1, <1>3, <2>1, <3>1, <3>2, Constants DEF Reading, Near
  <2>3. CASE k # 0
    <3>1. /\ Ago(current_rail', r) = 0 /\ Ago(c, r) = 2 BY <1>1, <1>2, <1>5, Round
    <3>2. k - 1 \in 0 .. Samples /\ k \in 1 .. Samples BY <2>3, Constants
    <3>3. 3 * (k - 1) + Ago(c, r) <= turns BY <1>1, <1>3, <3>1
    <3>4. Near(avg[r], supply[r], Left[k - 1]) BY <1>2, <3>2, <3>3 DEF Settling
    <3>5. Left[k - 1] \in Nat /\ Left[k] >= Average(Left[k - 1], 0) BY <3>2, Decay
    <3> QED BY <1>1, <1>3, <2>1, <3>4, <3>5, AverageNears
  <2> QED BY <2>2, <2>3
<1> QED BY <1>4, <1>5

(* The averages of a snapshot after a good and steady interval have settled. *)
LEMMA SnapshotSettled ==
    ASSUME Types, Settling, ~disturbed, adc_rails_sample, turns = PollTurns
    PROVE  ~Failing(Status(avg'))
<1>1. avg' \in [Rail -> Reading] /\ current_rail' \in Rail BY SampleTypes
<1>2. ASSUME NEW r \in Rail
      PROVE  supply[r] - avg'[r] \in 0 .. Weight - 1
  <2>1. Ago(current_rail', r) \in 0 .. 2 BY <1>1, Round
  <2>2. PICK g \in 0 .. 2 : g = Ago(current_rail', r) BY <2>1
  <2>3. 3 * Samples + Ago(current_rail', r) <= turns + 1 BY <2>2, Constants
  <2>4. Samples \in 0 .. Samples BY Constants
  <2>5. Near(avg'[r], supply[r], Left[Samples]) BY <2>3, <2>4, SampleNears
  <2>6. PICK a \in Reading : a = avg'[r] BY <1>1
  <2>7. PICK raw \in Reading : raw = supply[r] BY DEF Types
  <2>8. Near(a, raw, 0) BY <2>5, <2>6, <2>7, Decay
  <2> QED BY <2>6, <2>7, <2>8, Constants DEF Near, Reading
<1> DEFINE lag == [r \in Rail |-> supply[r] - avg'[r]]
<1>3. lag \in [Rail -> 0 .. Weight - 1] BY <1>2
<1>4. avg' = [r \in Rail |-> supply[r] - lag[r]]
  <2>1. ASSUME NEW r \in Rail PROVE avg'[r] = supply[r] - lag[r]
    <3>1. PICK a \in Reading : a = avg'[r] BY <1>1
    <3>2. PICK raw \in Reading : raw = supply[r] BY DEF Types
    <3> QED BY <3>1, <3>2, Constants DEF Reading
  <2> QED BY <1>1, <2>1
<1>5. avg' \in Lagging(supply)
  <2> HIDE DEF lag
  <2> QED BY <1>3, <1>4 DEF Lagging
<1> QED BY <1>5 DEF Settling, Good
-----------------------------------------------------------------------------
(* The strengthened invariant, step by step.                                 *)
LEMMA InitIInv == Init => IInv
<1> SUFFICES ASSUME Init PROVE IInv OBVIOUS
<1>1. supply \in [Rail -> Reading] BY SupplyAssumption DEF Init, Reading
<1>2. avg \in [Rail -> Reading]
  <2>1. 0 \in Rail /\ 0 \in Reading BY Constants DEF Rail, Reading
  <2>2. Average(0, supply[0]) \in Reading BY <1>1, <2>1, AverageInRange
  <2> QED BY <2>1, <2>2 DEF Init
<1>3. Types
  <2>1. fault_count \in 0 .. FAULT_DEBOUNCE /\ unsteady \in 0 .. FAULT_DEBOUNCE
    BY DEF Init, FAULT_DEBOUNCE
  <2>2. turns \in 0 .. PollTurns /\ current_rail \in Rail
    BY Constants DEF Init, Rail
  <2>3. s_power_fault \in BOOLEAN /\ disturbed \in BOOLEAN BY DEF Init
  <2> QED BY <1>1, <1>2, <2>1, <2>2, <2>3 DEF Types
<1>4. Settling /\ FaultsCounted BY DEF Init, Settling, FaultsCounted, FAULT_DEBOUNCE
<1> QED BY <1>3, <1>4 DEF IInv

(* A turn without a snapshot.                                                *)
LEMMA TurnKeeps == IInv /\ Turn => IInv'
<1> SUFFICES ASSUME IInv, Turn PROVE IInv' OBVIOUS
<1>1. Types /\ Settling /\ FaultsCounted /\ adc_rails_sample BY DEF IInv, Turn
<1>2. turns' \in 0 .. PollTurns /\ turns' <= turns + 1
  BY <1>1, Constants DEF Turn, Types
<1>3. Types'
  <2>1. avg' \in [Rail -> Reading] /\ current_rail' \in Rail BY <1>1, SampleTypes
  <2> QED BY <1>1, <1>2, <2>1 DEF Types, Turn
<1>4. Settling'
  <2> SUFFICES ASSUME ~disturbed'
               PROVE  /\ Good(supply')
                      /\ \A r \in Rail, k \in 0 .. Samples :
                            3 * k + Ago(current_rail', r) <= turns' =>
                                Near(avg'[r], supply'[r], Left[k])
    BY DEF Settling
  <2>1. ~disturbed /\ supply' = supply BY DEF Turn
  <2>2. Good(supply') BY <1>1, <2>1 DEF Settling
  <2>3. ASSUME NEW r \in Rail, NEW k \in 0 .. Samples,
               3 * k + Ago(current_rail', r) <= turns'
        PROVE  Near(avg'[r], supply'[r], Left[k])
    <3>1. Ago(current_rail', r) \in 0 .. 2 BY <1>3, Round DEF Types
    <3>2. PICK g \in 0 .. 2 : g = Ago(current_rail', r) BY <3>1
    <3>3. k \in Nat /\ turns \in Nat /\ turns' \in Nat
      BY <1>1, <1>2, Constants DEF Types
    <3>4. 3 * k + Ago(current_rail', r) <= turns + 1 BY <1>2, <2>3, <3>2, <3>3
    <3> QED BY <1>1, <2>1, <3>4, SampleNears
  <2> QED BY <2>2, <2>3
<1>5. FaultsCounted' BY <1>1 DEF Turn, FaultsCounted
<1> QED BY <1>3, <1>4, <1>5 DEF IInv

(* A turn with a snapshot: one that counts follows a disturbed interval.     *)
LEMMA PollTurnKeeps == IInv /\ PollTurn => IInv'
<1> SUFFICES ASSUME IInv, PollTurn PROVE IInv' OBVIOUS
<1>1. /\ Types /\ Settling /\ FaultsCounted /\ adc_rails_sample
      /\ turns = PollTurns /\ supply' = supply
  BY DEF IInv, PollTurn
<1>2. avg' \in [Rail -> Reading] /\ current_rail' \in Rail BY <1>1, SampleTypes
<1>3. ~disturbed => GoodPoll
  BY <1>1, SnapshotSettled DEF PollTurn
<1>4. GoodPoll \/ FaultPoll BY DEF PollTurn
<1>5. /\ fault_count \in 0 .. 4 /\ unsteady \in 0 .. 4 /\ fault_count <= unsteady
      /\ s_power_fault \in BOOLEAN
      /\ s_power_fault => fault_count = 4
  BY <1>1 DEF Types, FaultsCounted, FAULT_DEBOUNCE
<1>6. unsteady' = IF ~disturbed THEN 0 ELSE IF unsteady < 4 THEN unsteady + 1 ELSE unsteady
  BY DEF PollTurn, FAULT_DEBOUNCE
<1>7. /\ fault_count' \in 0 .. 4 /\ unsteady' \in 0 .. 4 /\ fault_count' <= unsteady'
      /\ s_power_fault' \in BOOLEAN
      /\ s_power_fault' => fault_count' = 4
  <2>1. CASE GoodPoll
    <3>1. fault_count' = 0 /\ ~s_power_fault' BY <2>1 DEF GoodPoll
    <3>2. s_power_fault' \in BOOLEAN BY <2>1 DEF GoodPoll
    <3>3. fault_count' \in 0 .. 4 /\ unsteady' \in 0 .. 4 /\ fault_count' <= unsteady'
      BY <3>1, <1>5, <1>6
    <3> QED BY <3>1, <3>2, <3>3
  <2>2. CASE FaultPoll
    <3>1. disturbed \/ GoodPoll BY <1>3
    <3>2. CASE disturbed
      <4>1. fault_count' = IF fault_count < 4 THEN fault_count + 1 ELSE fault_count
        BY <2>2 DEF FaultPoll, FAULT_DEBOUNCE
      <4>2. /\ fault_count' \in 0 .. 4 /\ unsteady' \in 0 .. 4
            /\ fault_count' <= unsteady'
            /\ fault_count = 4 => fault_count' = 4
            /\ fault_count' >= 4 => fault_count' = 4
        BY <3>2, <4>1, <1>5, <1>6
      <4>3. s_power_fault' = (s_power_fault \/ fault_count' >= 4)
        BY <2>2 DEF FaultPoll, FAULT_DEBOUNCE
      <4> QED BY <4>2, <4>3, <1>5, Zenon
    <3> QED BY <2>1, <3>1, <3>2
  <2> QED BY <1>4, <2>1, <2>2
<1>8. Types'
  <2>1. disturbed' \in BOOLEAN /\ turns' \in 0 .. PollTurns
    BY Constants DEF PollTurn
  <2>2. supply' \in [Rail -> Reading] BY <1>1 DEF Types
  <2>3. /\ fault_count' \in 0 .. FAULT_DEBOUNCE
        /\ unsteady' \in 0 .. FAULT_DEBOUNCE
    BY <1>7 DEF FAULT_DEBOUNCE
  <2> QED BY <1>2, <1>7, <2>1, <2>2, <2>3 DEF Types
<1>9. Settling'
  <2> SUFFICES ASSUME ~disturbed', NEW r \in Rail, NEW k \in 0 .. Samples,
                      3 * k + Ago(current_rail', r) <= turns'
               PROVE  Near(avg'[r], supply'[r], Left[k])
    BY <1>1 DEF Settling, PollTurn
  <2>1. turns' = 0 BY DEF PollTurn
  <2>2. Ago(current_rail', r) \in 0 .. 2 BY <1>2, Round
  <2>3. PICK g \in 0 .. 2 : g = Ago(current_rail', r) BY <2>2
  <2>4. k = 0 BY <2>1, <2>3, Constants
  <2>5. Left[k] \in Nat /\ Left[k] >= AdcMax BY <2>4, Decay
  <2>6. PICK a \in Reading : a = avg'[r] BY <1>2
  <2>7. PICK raw \in Reading : raw = supply'[r] BY <1>1 DEF Types
  <2>8. Near(a, raw, Left[k]) BY <2>5, <2>6, <2>7, Constants DEF Near, Reading
  <2> QED BY <2>6, <2>7, <2>8
<1>10. FaultsCounted' BY <1>7 DEF FaultsCounted, FAULT_DEBOUNCE
<1> QED BY <1>8, <1>9, <1>10 DEF IInv

(* A change of the supply disturbs the interval.                             *)
LEMMA SupplyChangesKeeps == IInv /\ SupplyChanges => IInv'
<1> SUFFICES ASSUME IInv, SupplyChanges PROVE IInv' OBVIOUS
<1>1. supply' \in [Rail -> Reading] BY SupplyAssumption DEF SupplyChanges, Reading
<1>2. Types' BY <1>1 DEF IInv, Types, SupplyChanges
<1>3. Settling' /\ FaultsCounted'
  BY DEF IInv, Settling, FaultsCounted, SupplyChanges
<1> QED BY <1>2, <1>3 DEF IInv

(* Nothing changes.                                                          *)
LEMMA StutterKeeps == IInv /\ UNCHANGED vars => IInv'
BY DEF IInv, Types, Settling, FaultsCounted, vars

(* A POWER FAULT on the display stands for four intervals of 500 ms in a row *)
(* in each of which the supply changed or was not a good one.               *)
THEOREM FaultsAreLasting == Spec => []OnlyLastingFaultsShow
<1>1. IInv /\ [Next]_vars => IInv'
  BY TurnKeeps, PollTurnKeeps, SupplyChangesKeeps, StutterKeeps DEF Next
<1>2. IInv => OnlyLastingFaultsShow
  BY DEF IInv, Types, FaultsCounted, OnlyLastingFaultsShow, FAULT_DEBOUNCE
<1> QED BY InitIInv, <1>1, <1>2, PTL DEF Spec
=============================================================================
