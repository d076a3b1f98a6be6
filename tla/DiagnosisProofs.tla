--------------------------- MODULE DiagnosisProofs ----------------------------
(***************************************************************************)
(* The verdict on the lines of the bus and on the anomalies, for every       *)
(* program, every way of breaking the bus, every probe, every number of      *)
(* passes and every threshold.  The masks of the analyzer are exactly the    *)
(* levels the reads of the round have shown; a line broken in every pass has *)
(* shown one level to every one of them.                                    *)
(***************************************************************************)
EXTENDS BootReport, FiniteSetTheorems, SequenceTheorems, TLAPS

(* The analyzer knows the levels shown, and that something was read.        *)
MasksMatch ==
    /\ s_bi.data_hi = {k \in DataLines : High("D", k)}
    /\ s_bi.data_lo = {k \in DataLines : Low("D", k)}
    /\ s_bi.addr_hi = {k \in AddrLines : High("A", k)}
    /\ s_bi.addr_lo = {k \in AddrLines : Low("A", k)}
    /\ s_bi.n_reads \in Nat
    /\ s_bi.n_reads > 0 <=> seen # {}

(* A word never contradicts a line that has been broken in every pass.      *)
Constrained(f, w) ==
    f.hi \subseteq w.D /\ f.lo \cap w.D = {} /\ f.ahi \subseteq w.A /\ f.alo \cap w.A = {}
Within(f, g) ==
    f.hi \subseteq g.hi /\ f.lo \subseteq g.lo /\ f.ahi \subseteq g.ahi /\ f.alo \subseteq g.alo
BrokenShows ==
    /\ broken \in FaultSet
    /\ \A w \in seen : Constrained(broken, w)
    /\ s_phase = "PASS" => fault \in Faults /\ Within(broken, fault)

IInv == MasksMatch /\ BrokenShows

(* Up to 65535 edges the counter tells the number of edges.                 *)
LEMMA CounterHolds ==
    ASSUME NEW n \in Nat, n <= 65535
    PROVE  Counter16(n) = n
BY SMT DEF Counter16

(* The frequency a probe makes of a clock that its counter can hold.         *)
LEMMA CountedRight ==
    ASSUME NEW khz \in Nat, ~(khz * 10 > 65535)
    PROVE  edges_to_hz(khz) = khz * 1000
<1>1. khz * 10 \in Nat /\ khz * 10 <= 65535 BY SMT
<1>2. Counter16(khz * 10) = khz * 10 BY <1>1, CounterHolds, SMT
<1> QED BY <1>2, SMT DEF edges_to_hz

OffRange(khz) == khz \notin {0} \cup (3000 .. 4000)

(* How that frequency is judged against the permitted range.                *)
LEMMA RangeJudged ==
    ASSUME NEW khz \in Nat, ~(khz * 10 > 65535)
    PROVE  /\ edges_to_hz(khz) = 0 <=> khz = 0
           /\ edges_to_hz(khz) # 0 /\ ~InRange(edges_to_hz(khz)) <=> OffRange(khz)
<1>1. edges_to_hz(khz) = khz * 1000 BY CountedRight, SMT
<1>2. khz * 1000 = 0 <=> khz = 0 BY SMT
<1>3. InRange(khz * 1000) <=> 3000 <= khz /\ khz <= 4000 BY SMT DEF InRange
<1>4. OffRange(khz) <=> khz # 0 /\ ~(3000 <= khz /\ khz <= 4000)
  BY SMT DEF OffRange
<1> QED BY <1>1, <1>2, <1>3, <1>4, SMT

(* A read through a broken bus shows the stuck levels.                      *)
LEMMA ReadShowsFault ==
    ASSUME NEW r, NEW f \in Faults
    PROVE  Constrained(f, OnBus(r, f))
BY FaultAssumption DEF Constrained, OnBus, FaultSet

(* A line broken in fewer passes is still constrained.                       *)
LEMMA SmallerConstrains ==
    ASSUME NEW f, NEW g, NEW w, Within(f, g), Constrained(g, w)
    PROVE  Constrained(f, w)
BY DEF Within, Constrained

(* What two faults have in common is within both.                           *)
LEMMA CommonIsWithin ==
    ASSUME NEW f \in FaultSet, NEW g \in FaultSet
    PROVE  /\ Common(f, g) \in FaultSet
           /\ Within(Common(f, g), f) /\ Within(Common(f, g), g)
BY DEF Common, Within, FaultSet

(* Nothing was read and nothing is known.                                   *)
LEMMA InitiallyMatches == Init => IInv
BY DEF Init, IInv, MasksMatch, BrokenShows, Fresh, High, Low, Intact, FaultSet

(* A round forgets all reads, and begins with the faults of its first pass. *)
LEMMA StartStep == IInv /\ StartRound => IInv'
<1> SUFFICES ASSUME StartRound PROVE IInv' OBVIOUS
<1>1. MasksMatch'
  BY DEF StartRound, ResetIntegrity, MasksMatch, Fresh, High, Low
<1>2. BrokenShows'
  BY FaultAssumption DEF StartRound, BrokenShows, Within
<1> QED BY <1>1, <1>2 DEF IInv

(* A read adds its levels to the masks and to what has been shown.          *)
LEMMA ReadStep == IInv /\ BusRead => IInv'
<1> SUFFICES ASSUME IInv, BusRead PROVE IInv' OBVIOUS
<1>1. PICK r \in Program :
        /\ s_bi' = Feed(s_bi, OnBus(r, fault).A, OnBus(r, fault).D)
        /\ seen' = seen \cup {OnBus(r, fault)}
  BY DEF BusRead
<1> DEFINE word == OnBus(r, fault)
<1>2. /\ s_bi'.data_hi = s_bi.data_hi \cup word.D
      /\ s_bi'.data_lo = s_bi.data_lo \cup (DataLines \ word.D)
      /\ s_bi'.addr_hi = s_bi.addr_hi \cup word.A
      /\ s_bi'.addr_lo = s_bi.addr_lo \cup (AddrLines \ word.A)
      /\ s_bi'.n_reads = s_bi.n_reads + 1
  BY <1>1 DEF Feed
<1>3. fault \in Faults /\ s_phase = "PASS" /\ Within(broken, fault)
  BY DEF IInv, BrokenShows, BusRead
<1>4. word.D \subseteq DataLines /\ word.A \subseteq AddrLines
  BY <1>3, ProgramAssumption, FaultAssumption DEF OnBus, FaultSet
<1>5. MasksMatch'
  <2> HIDE DEF word
  <2>1. s_bi'.data_hi = {k \in DataLines : \E w \in seen' : k \in w["D"]}
    BY <1>1, <1>2, <1>4 DEF IInv, MasksMatch, High, word
  <2>2. s_bi'.data_lo = {k \in DataLines : \E w \in seen' : k \notin w["D"]}
    BY <1>1, <1>2, <1>4 DEF IInv, MasksMatch, Low, word
  <2>3. s_bi'.addr_hi = {k \in AddrLines : \E w \in seen' : k \in w["A"]}
    BY <1>1, <1>2, <1>4 DEF IInv, MasksMatch, High, word
  <2>4. s_bi'.addr_lo = {k \in AddrLines : \E w \in seen' : k \notin w["A"]}
    BY <1>1, <1>2, <1>4 DEF IInv, MasksMatch, Low, word
  <2>5. s_bi'.n_reads \in Nat /\ s_bi'.n_reads > 0 /\ seen' # {}
    BY <1>1, <1>2 DEF IInv, MasksMatch
  <2> QED BY <2>1, <2>2, <2>3, <2>4, <2>5 DEF MasksMatch, High, Low
<1>6. BrokenShows'
  <2>1. Constrained(broken, word)
    BY <1>3, ReadShowsFault, SmallerConstrains
  <2>2. UNCHANGED <<broken, fault, s_phase>>
    BY DEF BusRead
  <2> QED BY <1>1, <2>1, <2>2 DEF IInv, BrokenShows
<1> QED BY <1>5, <1>6 DEF IInv

(* The end of a pass leaves the analyzer alone; the next pass may be broken  *)
(* otherwise, which only leaves fewer lines broken in all passes.            *)
LEMMA EndStep == IInv /\ EndPass => IInv'
<1> SUFFICES ASSUME IInv, EndPass PROVE IInv' OBVIOUS
<1>1. MasksMatch'
  BY DEF EndPass, IInv, MasksMatch, High, Low
<1>2. CASE s_phase' = "DONE" /\ UNCHANGED <<fault, broken>>
  BY <1>1, <1>2 DEF EndPass, IInv, BrokenShows
<1>3. CASE fault' \in Faults /\ broken' = Common(broken, fault')
  <2>1. /\ broken' \in FaultSet
        /\ Within(broken', broken) /\ Within(broken', fault')
    BY <1>3, FaultAssumption, CommonIsWithin DEF IInv, BrokenShows
  <2>2. \A w \in seen' : Constrained(broken', w)
    BY <2>1, SmallerConstrains DEF IInv, BrokenShows, EndPass
  <2> QED BY <1>1, <1>3, <2>1, <2>2 DEF IInv, BrokenShows
<1> QED BY <1>2, <1>3 DEF EndPass

(* Every step keeps what the analyzer knows in line with what was shown.    *)
LEMMA StepMatches == IInv /\ [Next]_vars => IInv'
<1> SUFFICES ASSUME IInv, [Next]_vars PROVE IInv' OBVIOUS
<1>1. CASE UNCHANGED vars
  BY <1>1 DEF vars, IInv, MasksMatch, BrokenShows, High, Low
<1> QED BY <1>1, StartStep, ReadStep, EndStep DEF Next, IdleTick

(* Masks that match what was shown give the verdict the property asks for.  *)
LEMMA MatchingJudges == IInv => StuckLinesNamed /\ MovingLinesCleared
<1> SUFFICES ASSUME IInv PROVE StuckLinesNamed /\ MovingLinesCleared OBVIOUS
<1> DEFINE toggled == {k \in AddrLines : Toggles("A", k)}
<1>1. s_bi.addr_hi \cap s_bi.addr_lo = toggled
  BY DEF IInv, MasksMatch, Toggles
<1>2. AddressesMove <=> Diverse(s_bi.addr_hi \cap s_bi.addr_lo)
  BY <1>1 DEF AddressesMove, Diverse
<1>3. StuckLinesNamed
  <2> SUFFICES ASSUME s_bi.n_reads >= MIN_READS
               PROVE  /\ broken.hi \subseteq StuckDataHi(s_bi)
                      /\ broken.lo \subseteq StuckDataLo(s_bi)
                      /\ AddressesMove => broken.ahi \cup broken.alo \subseteq StuckAddr(s_bi)
    BY DEF StuckLinesNamed, s_result
  <2>1. Enough(s_bi) /\ seen # {}
    BY ThresholdAssumption DEF Enough, IInv, MasksMatch
  <2>2. /\ broken.hi \subseteq DataLines /\ broken.lo \subseteq DataLines
        /\ broken.ahi \subseteq AddrLines /\ broken.alo \subseteq AddrLines
    BY DEF IInv, BrokenShows, FaultSet
  <2>3. \A w \in seen : Constrained(broken, w)
    BY DEF IInv, BrokenShows
  <2>4. \A k \in broken.hi : High("D", k) /\ ~Low("D", k)
    BY <2>1, <2>3 DEF Constrained, High, Low
  <2>5. \A k \in broken.lo : Low("D", k) /\ ~High("D", k)
    BY <2>1, <2>3 DEF Constrained, High, Low
  <2>6. \A k \in broken.ahi \cup broken.alo :
            (High("A", k) \/ Low("A", k)) /\ ~Toggles("A", k)
    BY <2>1, <2>3 DEF Constrained, High, Low, Toggles
  <2>7. broken.hi \subseteq StuckDataHi(s_bi)
    BY <2>1, <2>2, <2>4 DEF StuckDataHi, IInv, MasksMatch
  <2>8. broken.lo \subseteq StuckDataLo(s_bi)
    BY <2>1, <2>2, <2>5 DEF StuckDataLo, IInv, MasksMatch
  <2>9. AddressesMove => broken.ahi \cup broken.alo \subseteq StuckAddr(s_bi)
    BY <1>1, <1>2, <2>1, <2>2, <2>6 DEF StuckAddr, IInv, MasksMatch
  <2> QED BY <2>7, <2>8, <2>9
<1>4. MovingLinesCleared
  <2>1. \A k \in StuckDataHi(s_bi) : ~Low("D", k)
    BY DEF StuckDataHi, IInv, MasksMatch
  <2>2. \A k \in StuckDataLo(s_bi) : ~High("D", k)
    BY DEF StuckDataLo, IInv, MasksMatch
  <2>3. \A k \in StuckAddr(s_bi) : ~Toggles("A", k) /\ AddressesMove
    BY <1>1, <1>2 DEF StuckAddr, IInv, MasksMatch
  <2> QED BY <2>1, <2>2, <2>3 DEF MovingLinesCleared, s_result
<1> QED BY <1>3, <1>4

(* LinesJudged, of every round of every machine: a line that was stuck in    *)
(* all passes is named with its level, and a line that moved is not accused  *)
(* (bus_integrity.c:41-63, frozen by boot_diag.c:192-199).                   *)
THEOREM VerdictOnLines == Spec => []LinesJudged
<1>1. Spec => []IInv
  BY InitiallyMatches, StepMatches, PTL DEF Spec
<1>2. IInv => LinesJudged
  BY MatchingJudges DEF LinesJudged
<1> QED BY <1>1, <1>2, PTL

-----------------------------------------------------------------------------
(* What a pass adds is what it shows, unless the clock outran the counter.   *)
LEMMA PassIsJudged ==
    ASSUME IInv, NEW p \in Probes, ~Shows(p, "BEYOND_COUNTER")
    PROVE  PassAnomalies(p) = {a \in AnomalyNames : Shows(p, a)}
<1> DEFINE hz == edges_to_hz(p.khz)
<1>1. p.khz \in Nat /\ p.reset \in Levels /\ p.wait \in Levels
  BY ProbeAssumption
<1>2. ~(p.khz * 10 > 65535)
  BY SMT DEF Shows
<1>3. /\ hz = 0 <=> p.khz = 0
      /\ hz # 0 /\ ~InRange(hz) <=> OffRange(p.khz)
  BY <1>1, <1>2, RangeJudged, SMT
<1>4. s_bi.n_reads = 0 <=> seen = {}
  BY DEF IInv, MasksMatch
<1>5. reset_status(p.reset, FALSE) = "IN_RESET" <=> p.reset = {"lo"}
  BY <1>1 DEF reset_status, Levels
<1>6. classify_bit(p.wait) = "STUCK_LO" <=> p.wait = {"lo"}
  BY <1>1 DEF classify_bit, Levels
<1>7. ASSUME NEW a
      PROVE  a \in PassAnomalies(p) <=>
                 \/ a = "CLK_ABSENT" /\ p.khz = 0
                 \/ a = "CLK_OUT_OF_RANGE" /\ OffRange(p.khz)
                 \/ a = "NO_BUS_CYCLES" /\ p.khz # 0 /\ seen = {}
                 \/ a = "RESET_STUCK" /\ p.reset = {"lo"}
                 \/ a = "WAIT_STUCK_LOW" /\ p.wait = {"lo"}
  <2> HIDE DEF hz
  <2>1. PassAnomalies(p) = Anomalies(hz, reset_status(p.reset, FALSE),
                                     classify_bit(p.wait), s_bi.n_reads)
    BY DEF PassAnomalies, hz
  <2> QED BY <2>1, <1>3, <1>4, <1>5, <1>6 DEF Anomalies
<1>8. ASSUME NEW a
      PROVE  a \in {b \in AnomalyNames : Shows(p, b)} <=>
                 \/ a = "CLK_ABSENT" /\ p.khz = 0
                 \/ a = "CLK_OUT_OF_RANGE" /\ OffRange(p.khz)
                 \/ a = "NO_BUS_CYCLES" /\ p.khz # 0 /\ seen = {}
                 \/ a = "RESET_STUCK" /\ p.reset = {"lo"}
                 \/ a = "WAIT_STUCK_LOW" /\ p.wait = {"lo"}
  BY SMT DEF AnomalyNames, Shows, OffRange
<1> QED BY <1>7, <1>8

(* As long as no clock outran the counter, the accumulator holds exactly     *)
(* what the passes have shown.                                              *)
AnomMatch == "BEYOND_COUNTER" \notin noticed => s_anom = noticed

(* A round starts with neither, and every pass adds the same to both.        *)
LEMMA StaysJudged == IInv /\ AnomMatch /\ [Next]_vars => AnomMatch'
<1> SUFFICES ASSUME IInv, AnomMatch, [Next]_vars PROVE AnomMatch'
  OBVIOUS
<1>1. CASE StartRound
  BY <1>1 DEF StartRound, AnomMatch
<1>2. CASE EndPass
  <2>1. PICK p \in Probes :
          /\ s_anom' = s_anom \cup PassAnomalies(p)
          /\ noticed' = noticed \cup
                 {a \in AnomalyNames \cup {"BEYOND_COUNTER"} : Shows(p, a)}
    BY <1>2 DEF EndPass, Accumulated
  <2>2. SUFFICES ASSUME "BEYOND_COUNTER" \notin noticed' PROVE s_anom' = noticed'
    BY DEF AnomMatch
  <2>3. ~Shows(p, "BEYOND_COUNTER") /\ s_anom = noticed
    BY <2>1, <2>2 DEF AnomMatch
  <2>4. noticed' = noticed \cup {a \in AnomalyNames : Shows(p, a)}
    BY <2>1, <2>3
  <2> QED BY <2>1, <2>3, <2>4, PassIsJudged
<1>3. CASE BusRead \/ IdleTick \/ UNCHANGED vars
  BY <1>3 DEF BusRead, IdleTick, vars, AnomMatch
<1> QED BY <1>1, <1>2, <1>3 DEF Next

(* AnomaliesJudged, of every round: what boot_diag_classify_anomalies has    *)
(* found in any pass is in the frozen flags, and nothing else               *)
(* (boot_diag.c:7-19 and the accumulation in SETTLE), as long as the clock  *)
(* fits the 16-bit counter of the probe.                                    *)
THEOREM VerdictOnAnomalies == Spec => []AnomaliesJudged
<1>1. Init => AnomMatch
  BY DEF Init, AnomMatch
<1>2. AnomMatch => AnomaliesJudged
  BY DEF AnomMatch, AnomaliesJudged, s_result
<1> QED BY <1>1, <1>2, InitiallyMatches, StepMatches, StaysJudged, PTL DEF Spec

-----------------------------------------------------------------------------
(* Every set of numbers that is not empty has a least one.                   *)
LEMMA Least ==
    ASSUME NEW T, T \subseteq Nat, T # {}
    PROVE  \E m \in T : \A k \in T : m <= k
<1> DEFINE R == OpToRel(<, Nat)
<1>1. IsWellFoundedOn(R, Nat) BY NatLessThanWellFounded
<1>2. \A x, y \in Nat : y < x => <<y, x>> \in R BY DEF OpToRel
<1> HIDE DEF R
<1>3. PICK m \in T : \A k \in T : ~(<<k, m>> \in R) BY <1>1, WFMin
<1>4. \A k \in T : ~(k < m) BY <1>2, <1>3
<1>5. \A k \in T : m <= k BY <1>4
<1> QED BY <1>5

(* Hence induction, with a set in the place of a predicate.                  *)
LEMMA Induction ==
    ASSUME NEW S, 0 \in S, \A n \in Nat : n \in S => n + 1 \in S
    PROVE  Nat \subseteq S
<1> DEFINE T == Nat \ S
<1> SUFFICES ASSUME T # {} PROVE FALSE OBVIOUS
<1>1. T \subseteq Nat OBVIOUS
<1> HIDE DEF T
<1>2. PICK m \in T : \A k \in T : m <= k BY <1>1, Least
<1> USE DEF T
<1>3. m \in Nat /\ m # 0 OBVIOUS
<1>4. m - 1 \in Nat /\ ~(m <= m - 1) BY <1>3
<1>5. m - 1 \in S BY <1>2, <1>4
<1> QED BY <1>3, <1>4, <1>5

(* A set of numbers up to n that has with a number all the smaller ones.     *)
LEMMA DownwardClosed ==
    ASSUME NEW n \in Nat, NEW D, D \subseteq 1 .. n,
           \A j \in D : \A i \in 1 .. j : i \in D
    PROVE  \E m \in 0 .. n : D = 1 .. m
<1> DEFINE T == {k \in 0 .. n : k + 1 \notin D}
<1>1. n \in T OBVIOUS
<1>2. T \subseteq Nat OBVIOUS
<1> HIDE DEF T
<1>3. PICK m \in T : \A k \in T : m <= k BY <1>1, <1>2, Least
<1> USE DEF T
<1>4. m \in 0 .. n /\ m + 1 \notin D OBVIOUS
<1>5. ASSUME NEW i \in 1 .. m PROVE i \in D
  <2>1. i - 1 \in 0 .. n /\ ~(m <= i - 1) /\ (i - 1) + 1 = i BY <1>4
  <2> QED BY <2>1, <1>3
<1>6. ASSUME NEW j \in D PROVE j \in 1 .. m
  <2>1. j \in 1 .. n OBVIOUS
  <2>2. ~(m + 1 \in 1 .. j) BY <1>4
  <2> QED BY <2>1, <2>2, <1>4
<1> QED BY <1>4, <1>5, <1>6

----
SectionNames == {"title", "causes", "integrity", "anomalies", "phases"}
LineRec == [section : SectionNames, len : Nat \ {0}, whole : BOOLEAN]
Text == Seq(LineRec)

(* What is known of a text and of its lines.                                 *)
LEMMA TextType ==
    ASSUME NEW text \in Text
    PROVE  /\ Len(text) \in Nat /\ DOMAIN text = 1 .. Len(text)
           /\ \A i \in 1 .. Len(text) :
                 /\ text[i] \in LineRec
                 /\ text[i].len \in Nat /\ text[i].len > 0
<1>1. Len(text) \in Nat /\ DOMAIN text = 1 .. Len(text) BY DEF Text
<1>2. \A i \in 1 .. Len(text) : text[i] \in LineRec BY DEF Text
<1>3. \A l \in LineRec : l.len \in Nat /\ l.len > 0 BY DEF LineRec
<1> QED BY <1>1, <1>2, <1>3

(* The offsets of a text, spelled out.                                       *)
OffsetsOf(f, text) ==
    f = [i \in 0 .. Len(text) |-> IF i = 0 THEN 0 ELSE f[i - 1] + text[i].len]

(* A function that adds up the lengths line by line exists.                  *)
LEMMA OffsetsExist ==
    ASSUME NEW text \in Text
    PROVE  \E f : OffsetsOf(f, text)
<1> DEFINE n == Len(text)
           Is(f, k) == /\ f \in [0 .. k -> Nat] /\ f[0] = 0
                       /\ \A i \in 1 .. k : f[i] = f[i - 1] + text[i].len
           S == {k \in Nat : k <= n => \E f : Is(f, k)}
<1>0. n \in Nat /\ \A i \in 1 .. n : text[i].len \in Nat BY TextType
<1>1. 0 \in S
  <2>1. Is([i \in 0 .. 0 |-> 0], 0) OBVIOUS
  <2> QED BY <2>1
<1>2. ASSUME NEW k \in Nat, k \in S PROVE k + 1 \in S
  <2> HIDE DEF Is
  <2> SUFFICES ASSUME k + 1 <= n PROVE \E f : Is(f, k + 1) OBVIOUS
  <2> USE DEF Is
  <2>1. PICK f : Is(f, k) BY <1>0, <1>2
  <2> DEFINE g == [i \in 0 .. k + 1 |-> IF i <= k THEN f[i] ELSE f[k] + text[k + 1].len]
  <2>2. k \in 0 .. k /\ k + 1 \in 1 .. n BY <1>0
  <2>3. f[k] \in Nat /\ text[k + 1].len \in Nat BY <2>1, <2>2, <1>0
  <2> HIDE DEF n
  <2>4. g \in [0 .. k + 1 -> Nat] BY <2>1, <2>3
  <2>5. g[0] = 0 BY <2>1
  <2>6. ASSUME NEW i \in 1 .. k + 1 PROVE g[i] = g[i - 1] + text[i].len
    <3>1. CASE i <= k
      <4>1. i \in 1 .. k /\ i - 1 <= k /\ i - 1 \in 0 .. k + 1 BY <3>1
      <4> QED BY <2>1, <3>1, <4>1
    <3>2. CASE i = k + 1
      <4>1. ~(i <= k) /\ i - 1 = k /\ i - 1 \in 0 .. k + 1 BY <3>2
      <4> QED BY <3>2, <4>1
    <3> QED BY <3>1, <3>2
  <2> HIDE DEF g
  <2>7. Is(g, k + 1) BY <2>4, <2>5, <2>6
  <2> QED BY <2>7
<1> HIDE DEF S
<1>3. n \in S BY <1>0, <1>1, <1>2, Induction
<1> USE DEF S
<1>4. PICK f : Is(f, n) BY <1>3, <1>0
<1>5. OffsetsOf(f, text)
  <2> DEFINE F(i) == IF i = 0 THEN 0 ELSE f[i - 1] + text[i].len
  <2>1. ASSUME NEW i \in 0 .. n PROVE f[i] = F(i)
    <3>1. CASE i = 0 BY <3>1, <1>4
    <3>2. CASE i # 0
      <4>1. i \in 1 .. n BY <3>2, <1>0
      <4> QED BY <4>1, <1>4, <3>2
    <3> QED BY <3>1, <3>2
  <2>2. f = [i \in 0 .. n |-> f[i]] BY <1>4
  <2>3. [i \in 0 .. n |-> f[i]] = [i \in 0 .. n |-> F(i)] BY <2>1
  <2> QED BY <2>2, <2>3 DEF OffsetsOf
<1> QED BY <1>5

(* So Offsets does add them up.                                             *)
LEMMA OffsetsDef ==
    ASSUME NEW text \in Text
    PROVE  /\ DOMAIN Offsets(text) = 0 .. Len(text)
           /\ Offsets(text)[0] = 0
           /\ \A i \in 1 .. Len(text) : Offsets(text)[i] = Offsets(text)[i - 1] + text[i].len
<1>1. OffsetsOf(Offsets(text), text)
  <2>1. Offsets(text) = CHOOSE f : OffsetsOf(f, text) BY DEF Offsets, OffsetsOf
  <2> QED BY <2>1, OffsetsExist
<1> DEFINE f == Offsets(text)
<1>2. f = [i \in 0 .. Len(text) |-> IF i = 0 THEN 0 ELSE f[i - 1] + text[i].len]
  BY <1>1 DEF OffsetsOf
<1>3. Len(text) \in Nat BY TextType
<1> HIDE DEF f
<1>4. DOMAIN f = 0 .. Len(text) BY <1>2
<1>5. f[0] = 0 BY <1>2, <1>3
<1>6. \A i \in 1 .. Len(text) : f[i] = f[i - 1] + text[i].len BY <1>2, <1>3
<1> QED BY <1>4, <1>5, <1>6 DEF f
(* Offsets are numbers, and grow.                                            *)
LEMMA OffsetsGrow ==
    ASSUME NEW text \in Text
    PROVE  /\ \A i \in 0 .. Len(text) : Offsets(text)[i] \in Nat
           /\ \A j \in 0 .. Len(text) : \A i \in 0 .. j :
                  Offsets(text)[i] <= Offsets(text)[j]
<1> DEFINE n == Len(text)
           f == Offsets(text)
           P(k) == f[k] \in Nat /\ \A i \in 0 .. k : f[i] \in Nat /\ f[i] <= f[k]
           S == {k \in Nat : k <= n => P(k)}
<1>1. /\ n \in Nat /\ f[0] = 0
      /\ \A i \in 1 .. n : text[i].len \in Nat /\ f[i] = f[i - 1] + text[i].len
  BY TextType, OffsetsDef
<1> HIDE DEF n, f
<1>2. 0 \in S BY <1>1
<1>3. ASSUME NEW k \in Nat, k \in S PROVE k + 1 \in S
  <2> HIDE DEF P
  <2> SUFFICES ASSUME k + 1 <= n PROVE P(k + 1) OBVIOUS
  <2>1. P(k) BY <1>1, <1>3
  <2> USE DEF P
  <2>2. k + 1 \in 1 .. n /\ (k + 1) - 1 = k BY <1>1
  <2>3. f[k + 1] = f[k] + text[k + 1].len /\ text[k + 1].len \in Nat BY <1>1, <2>2
  <2>4. f[k] \in Nat /\ f[k + 1] \in Nat /\ f[k] <= f[k + 1] BY <2>1, <2>3
  <2>5. ASSUME NEW i \in 0 .. k + 1 PROVE f[i] \in Nat /\ f[i] <= f[k + 1]
    <3>1. CASE i \in 0 .. k BY <3>1, <2>1, <2>4
    <3>2. CASE i = k + 1 BY <3>2, <2>4
    <3> QED BY <3>1, <3>2
  <2> QED BY <2>4, <2>5
<1> HIDE DEF S, P
<1>4. \A k \in 0 .. n : k \in S BY <1>2, <1>3, Induction
<1>5. \A k \in 0 .. n : P(k) BY <1>4, <1>1 DEF S
<1> QED BY <1>5 DEF P, f, n

(* A text that goes on as another one does, after k lines.                   *)
LEMMA OffsetsShift ==
    ASSUME NEW a \in Text, NEW c \in Text, NEW k \in Nat, k + Len(a) <= Len(c),
           \A i \in 1 .. Len(a) : c[k + i].len = a[i].len
    PROVE  \A i \in 0 .. Len(a) : Offsets(c)[k + i] = Offsets(c)[k] + Offsets(a)[i]
<1> DEFINE n == Len(a)
           f == Offsets(a)
           g == Offsets(c)
           S == {i \in Nat : i <= n => g[k + i] = g[k] + f[i]}
<1>1. /\ n \in Nat /\ f[0] = 0
      /\ \A i \in 1 .. n : a[i].len \in Nat /\ f[i] = f[i - 1] + a[i].len
  BY TextType, OffsetsDef
<1>2. \A i \in 0 .. n : f[i] \in Nat BY OffsetsGrow
<1>3. \A i \in 0 .. n : g[k + i] \in Nat
  <2>1. \A i \in 0 .. n : k + i \in 0 .. Len(c) BY <1>1, TextType
  <2> QED BY <2>1, OffsetsGrow
<1>4. \A i \in 1 .. n : g[k + i] = g[k + i - 1] + a[i].len
  <2>1. \A i \in 1 .. n : k + i \in 1 .. Len(c) BY <1>1, TextType
  <2>2. \A j \in 1 .. Len(c) : g[j] = g[j - 1] + c[j].len BY OffsetsDef
  <2> QED BY <2>1, <2>2
<1> HIDE DEF n, f, g
<1>5. 0 \in S
  <2>1. 0 \in 0 .. n /\ k + 0 = k BY <1>1
  <2>2. g[k] \in Nat BY <2>1, <1>3
  <2> QED BY <2>1, <2>2, <1>1
<1>6. ASSUME NEW i \in Nat, i \in S PROVE i + 1 \in S
  <2> SUFFICES ASSUME i + 1 <= n PROVE g[k + (i + 1)] = g[k] + f[i + 1] OBVIOUS
  <2>1. i + 1 \in 1 .. n /\ (i + 1) - 1 = i /\ k + (i + 1) - 1 = k + i BY <1>1
  <2>2. g[k + i] = g[k] + f[i] BY <1>1, <1>6
  <2>3. f[i + 1] = f[i] + a[i + 1].len BY <2>1, <1>1
  <2>4. g[k + (i + 1)] = g[k + i] + a[i + 1].len BY <2>1, <1>4
  <2>5. 0 \in 0 .. n /\ k + 0 = k /\ i \in 0 .. n BY <1>1, <2>1
  <2>6. g[k] \in Nat /\ f[i] \in Nat /\ a[i + 1].len \in Nat
    BY <1>1, <1>2, <1>3, <2>1, <2>5
  <2> HIDE DEF S
  <2>7. PICK x \in Nat : x = g[k] BY <2>6
  <2>8. PICK y \in Nat : y = f[i] BY <2>6
  <2>9. PICK z \in Nat : z = a[i + 1].len BY <2>6
  <2>10. g[k + (i + 1)] = (x + y) + z BY <2>2, <2>4, <2>7, <2>8, <2>9, Zenon
  <2>11. g[k] + f[i + 1] = x + (y + z) BY <2>3, <2>7, <2>8, <2>9, Zenon
  <2>12. (x + y) + z = x + (y + z) OBVIOUS
  <2> QED BY <2>10, <2>11, <2>12, Zenon
<1> HIDE DEF S
<1>7. Nat \subseteq S BY <1>5, <1>6, Induction
<1>8. \A i \in 0 .. n : g[k + i] = g[k] + f[i] BY <1>7, <1>1 DEF S
<1> QED BY <1>8 DEF n, f, g

(* All of a text.                                                           *)
Size(text) == Offsets(text)[Len(text)]

(* Two texts one after the other.                                            *)
LEMMA JoinedText ==
    ASSUME NEW a \in Text, NEW b \in Text
    PROVE  /\ a \o b \in Text
           /\ Len(a \o b) = Len(a) + Len(b)
           /\ \A i \in 1 .. Len(a) : (a \o b)[i] = a[i]
           /\ \A i \in 1 .. Len(b) : (a \o b)[Len(a) + i] = b[i]
<1>1. /\ a \o b \in Text
      /\ Len(a \o b) = Len(a) + Len(b)
      /\ \A i \in 1 .. Len(a) + Len(b) :
            (a \o b)[i] = IF i <= Len(a) THEN a[i] ELSE b[i - Len(a)]
  BY ConcatProperties DEF Text
<1>2. Len(a) \in Nat /\ Len(b) \in Nat BY TextType
<1>3. \A i \in 1 .. Len(a) : (a \o b)[i] = a[i] BY <1>1, <1>2
<1>4. ASSUME NEW i \in 1 .. Len(b) PROVE (a \o b)[Len(a) + i] = b[i]
  <2>1. Len(a) + i \in 1 .. Len(a) + Len(b) /\ ~(Len(a) + i <= Len(a))
        /\ Len(a) + i - Len(a) = i
    BY <1>2
  <2> QED BY <1>1, <2>1
<1> QED BY <1>1, <1>3, <1>4

(* The offsets of the first stay, and the sizes add up.                      *)
LEMMA JoinedOffsets ==
    ASSUME NEW a \in Text, NEW b \in Text
    PROVE  /\ \A i \in 0 .. Len(a) : Offsets(a \o b)[i] = Offsets(a)[i]
           /\ Size(a \o b) = Size(a) + Size(b)
<1> DEFINE c == a \o b
<1>1. /\ c \in Text /\ Len(c) = Len(a) + Len(b)
      /\ \A i \in 1 .. Len(a) : c[i] = a[i]
      /\ \A i \in 1 .. Len(b) : c[Len(a) + i] = b[i]
  BY JoinedText
<1>2. Len(a) \in Nat /\ Len(b) \in Nat BY TextType
<1> HIDE DEF c
<1>3. \A i \in 0 .. Len(a) : Offsets(c)[i] = Offsets(a)[i]
  <2>1. 0 \in Nat /\ 0 + Len(a) <= Len(c)
        /\ \A i \in 1 .. Len(a) : c[0 + i].len = a[i].len
    BY <1>1, <1>2
  <2>2. \A i \in 0 .. Len(a) : Offsets(c)[0 + i] = Offsets(c)[0] + Offsets(a)[i]
    BY <2>1, <1>1, OffsetsShift
  <2>3. Offsets(c)[0] = 0 BY <1>1, OffsetsDef
  <2>4. \A i \in 0 .. Len(a) : Offsets(a)[i] \in Nat BY OffsetsGrow
  <2> QED BY <2>2, <2>3, <2>4
<1>4. Size(c) = Size(a) + Size(b)
  <2>1. Len(a) + Len(b) <= Len(c)
        /\ \A i \in 1 .. Len(b) : c[Len(a) + i].len = b[i].len
    BY <1>1, <1>2
  <2>2. \A i \in 0 .. Len(b) : Offsets(c)[Len(a) + i] = Offsets(c)[Len(a)] + Offsets(b)[i]
    BY <2>1, <1>1, <1>2, OffsetsShift
  <2> QED BY <2>2, <1>1, <1>2, <1>3 DEF Size
<1> QED BY <1>3, <1>4 DEF c
Times(e, i) == e * i
(* A product, one factor at a time.                                          *)
LEMMA TimesStep ==
    ASSUME NEW e \in Nat, NEW i \in Nat
    PROVE  Times(e, i) \in Nat /\ Times(e, i + 1) = Times(e, i) + e /\ Times(e, 0) = 0
BY SMT DEF Times

(* Lines that are longer by at most e than those of another text.            *)
LEMMA OffsetsBelow ==
    ASSUME NEW a \in Text, NEW c \in Text, NEW e \in Nat, Len(a) <= Len(c),
           \A i \in 1 .. Len(a) : a[i].len <= c[i].len + e
    PROVE  \A i \in 0 .. Len(a) : Offsets(a)[i] <= Offsets(c)[i] + Times(e, i)
<1> DEFINE n == Len(a)
           f == Offsets(a)
           g == Offsets(c)
           S == {i \in Nat : i <= n => f[i] <= g[i] + Times(e, i)}
<1>1. /\ n \in Nat /\ f[0] = 0 /\ g[0] = 0
      /\ \A i \in 1 .. n : a[i].len \in Nat /\ f[i] = f[i - 1] + a[i].len
  BY TextType, OffsetsDef
<1>2. \A i \in 1 .. n : c[i].len \in Nat /\ g[i] = g[i - 1] + c[i].len
  <2>1. \A i \in 1 .. n : i \in 1 .. Len(c) BY <1>1, TextType
  <2> QED BY <2>1, TextType, OffsetsDef
<1>3. \A i \in 0 .. n : f[i] \in Nat /\ g[i] \in Nat
  <2>1. \A i \in 0 .. n : i \in 0 .. Len(c) BY <1>1, TextType
  <2> QED BY <2>1, OffsetsGrow
<1> HIDE DEF f, g
<1>5. 0 \in S
  <2>1. 0 \in Nat /\ Times(e, 0) = 0 BY TimesStep
  <2>2. f[0] <= g[0] + Times(e, 0) BY <2>1, <1>1
  <2> QED BY <2>1, <2>2
<1>6. ASSUME NEW i \in Nat, i \in S PROVE i + 1 \in S
  <2> SUFFICES ASSUME i + 1 <= n PROVE f[i + 1] <= g[i + 1] + Times(e, i + 1) OBVIOUS
  <2>1. i + 1 \in 1 .. n /\ (i + 1) - 1 = i /\ i \in 0 .. n BY <1>1
  <2>2. f[i] <= g[i] + Times(e, i) BY <1>1, <1>6
  <2>3. f[i + 1] = f[i] + a[i + 1].len BY <2>1, <1>1
  <2>4. g[i + 1] = g[i] + c[i + 1].len BY <2>1, <1>2
  <2>5. a[i + 1].len <= c[i + 1].len + e BY <2>1
  <2> HIDE DEF S
  <2>6. PICK x \in Nat : x = f[i] BY <2>1, <1>3
  <2>7. PICK y \in Nat : y = g[i] BY <2>1, <1>3
  <2>8. PICK z \in Nat : z = a[i + 1].len BY <2>1, <1>1
  <2>9. PICK w \in Nat : w = c[i + 1].len BY <2>1, <1>2
  <2>10. PICK t \in Nat : t = Times(e, i) BY TimesStep
  <2>11. x <= y + t /\ z <= w + e BY <2>2, <2>5, <2>6, <2>7, <2>8, <2>9, <2>10, Zenon
  <2>12. x + z <= (y + w) + (t + e) BY <2>11
  <2>13. f[i + 1] = x + z /\ g[i + 1] = y + w /\ Times(e, i + 1) = t + e
    BY <2>3, <2>4, <2>6, <2>7, <2>8, <2>9, <2>10, TimesStep, Zenon
  <2> QED BY <2>12, <2>13, Zenon
<1> HIDE DEF S
<1>7. Nat \subseteq S BY <1>5, <1>6, Induction
<1>8. \A i \in 0 .. n : f[i] <= g[i] + Times(e, i) BY <1>7, <1>1 DEF S
<1> QED BY <1>8 DEF n, f, g

(* Where a buffer ends.  The lines before are whole, none is longer, and all *)
(* together fit.                                                             *)
LEMMA FittedText ==
    ASSUME NEW text \in Text, NEW size \in Nat, size > 0
    PROVE  /\ Fits(text, size) \in Text
           /\ Len(Fits(text, size)) <= Len(text)
           /\ Size(Fits(text, size)) <= size - 1
           /\ \A i \in 1 .. Len(Fits(text, size)) :
                 /\ Fits(text, size)[i].section = text[i].section
                 /\ Fits(text, size)[i].len <= text[i].len
           /\ \A i \in 1 .. Len(text) :
                 Offsets(text)[i] <= size - 1 =>
                     i <= Len(Fits(text, size)) /\ Fits(text, size)[i] = text[i]
<1> DEFINE n == Len(text)
           f == Offsets(text)
           D == {j \in DOMAIN text : Room(text, size, j) > 0}
           fits == Fits(text, size)
<1>1. /\ n \in Nat /\ DOMAIN text = 1 .. n
      /\ \A i \in 1 .. n : /\ text[i].len \in Nat /\ text[i].len > 0
                           /\ f[i] = f[i - 1] + text[i].len
  BY TextType, OffsetsDef
<1>2. \A i \in 0 .. n : f[i] \in Nat BY OffsetsGrow
<1>3. \A j \in 0 .. n : \A i \in 0 .. j : f[i] <= f[j] BY OffsetsGrow
<1>4. fits = [i \in D |-> Kept(text, size, i)] BY DEF Fits
<1>5. \A i : Room(text, size, i) = size - 1 - f[i - 1] BY DEF Room
<1> HIDE DEF n, f, fits
<1>6. PICK m \in 0 .. n : D = 1 .. m
  <2>1. ASSUME NEW j \in D, NEW i \in 1 .. j PROVE i \in D
    <3>1. j \in 1 .. n /\ i \in 1 .. n /\ i - 1 \in 0 .. j - 1 /\ j - 1 \in 0 .. n
          /\ i - 1 \in 0 .. n
      BY <1>1
    <3>2. f[i - 1] \in Nat /\ f[j - 1] \in Nat /\ f[i - 1] <= f[j - 1] BY <3>1, <1>2, <1>3
    <3>3. size - 1 - f[j - 1] > 0 BY <1>5
    <3>4. size - 1 - f[i - 1] > 0 BY <3>2, <3>3
    <3> QED BY <3>1, <3>4, <1>1, <1>5
  <2>2. D \subseteq 1 .. n BY <1>1
  <2> HIDE DEF D
  <2> QED BY <2>1, <2>2, <1>1, DownwardClosed
<1>7. ASSUME NEW i \in 1 .. m
      PROVE  /\ Kept(text, size, i) \in LineRec
             /\ Kept(text, size, i).section = text[i].section
             /\ Kept(text, size, i).len <= text[i].len
             /\ Kept(text, size, i).len <= Room(text, size, i)
  <2>1. text[i] \in LineRec /\ text[i].len \in Nat BY TextType, <1>1, <1>6 DEF n
  <2>2. Room(text, size, i) \in Nat \ {0}
    <3>1. i \in D /\ i - 1 \in 0 .. n BY <1>6, <1>1
    <3>2. f[i - 1] \in Nat /\ Room(text, size, i) > 0 BY <3>1, <1>2
    <3> QED BY <3>2, <1>5
  <2>3. CASE text[i].len <= Room(text, size, i)
    <3>1. Kept(text, size, i) = text[i] BY <2>3 DEF Kept
    <3> QED BY <3>1, <2>1, <2>3
  <2>4. CASE ~(text[i].len <= Room(text, size, i))
    <3> DEFINE k == [text[i] EXCEPT !.len = Room(text, size, i), !.whole = FALSE]
    <3>1. Kept(text, size, i) = k BY <2>4 DEF Kept
    <3>2. k \in LineRec /\ k.section = text[i].section /\ k.len = Room(text, size, i)
      BY <2>1, <2>2 DEF LineRec
    <3> QED BY <3>1, <3>2, <2>1, <2>2, <2>4
  <2> QED BY <2>3, <2>4
<1> HIDE DEF D
<1>8. fits \in Text /\ Len(fits) = m /\ \A i \in 1 .. m : fits[i] = Kept(text, size, i)
  <2>1. fits \in [1 .. m -> LineRec] BY <1>4, <1>6, <1>7
  <2>2. fits \in Seq(LineRec) /\ Len(fits) = m BY <2>1, <1>6, <1>1
  <2> QED BY <2>2, <1>4, <1>6 DEF Text
<1>9. Size(fits) <= size - 1
  <2>1. CASE m = 0
    <3>1. Size(fits) = 0 BY <2>1, <1>8, OffsetsDef DEF Size
    <3> QED BY <3>1
  <2>2. CASE m > 0
    <3>1. m \in 1 .. m /\ m - 1 \in 0 .. m /\ m - 1 \in 0 .. n BY <2>2, <1>6, <1>1
    <3>2. 0 \in Nat /\ \A i \in 1 .. m : fits[i].len <= text[i].len + 0
      <4>1. \A i \in 1 .. m : text[i].len \in Nat BY <1>1, <1>6
      <4> QED BY <4>1, <1>7, <1>8
    <3>3. Offsets(fits)[m - 1] <= f[m - 1] + Times(0, m - 1)
      <4>1. Len(fits) <= Len(text)
            /\ \A i \in 1 .. Len(fits) : fits[i].len <= text[i].len + 0
        BY <1>6, <1>8, <3>2 DEF n
      <4>2. \A i \in 0 .. Len(fits) : Offsets(fits)[i] <= Offsets(text)[i] + Times(0, i)
        BY <4>1, <3>2, <1>8, OffsetsBelow
      <4> QED BY <4>2, <3>1, <1>8 DEF f
    <3>4. Times(0, m - 1) = 0 BY SMT DEF Times
    <3>5. Size(fits) = Offsets(fits)[m - 1] + fits[m].len
      BY <1>8, <3>1, OffsetsDef DEF Size
    <3>6. fits[m].len <= size - 1 - f[m - 1] BY <1>7, <1>8, <1>5, <3>1
    <3>7. f[m - 1] \in Nat /\ Offsets(fits)[m - 1] \in Nat /\ fits[m].len \in Nat
      BY <3>1, <1>2, <1>8, OffsetsGrow, TextType
    <3>8. PICK x \in Nat : x = f[m - 1] BY <3>7
    <3>9. PICK y \in Nat : y = Offsets(fits)[m - 1] BY <3>7
    <3>10. PICK z \in Nat : z = fits[m].len BY <3>7
    <3>11. y <= x + 0 /\ z <= size - 1 - x /\ Size(fits) = y + z
      BY <3>3, <3>4, <3>5, <3>6, <3>8, <3>9, <3>10, Zenon
    <3> QED BY <3>11
  <2> QED BY <2>1, <2>2, <1>6
<1>10. ASSUME NEW i \in 1 .. n, f[i] <= size - 1 PROVE i <= m /\ fits[i] = text[i]
  <2>1. f[i] = f[i - 1] + text[i].len /\ text[i].len \in Nat /\ text[i].len > 0
        /\ f[i - 1] \in Nat
    BY <1>1, <1>2
  <2>2. Room(text, size, i) > 0 /\ text[i].len <= Room(text, size, i)
    BY <2>1, <1>5, <1>10
  <2>3. i \in D BY <2>2, <1>1 DEF D
  <2>4. i \in 1 .. m BY <2>3, <1>6
  <2>5. Kept(text, size, i) = text[i] BY <2>2 DEF Kept
  <2>6. fits[i] = text[i] BY <2>4, <2>5, <1>8
  <2>7. i <= m BY <2>4
  <2> QED BY <2>6, <2>7
<1>11. \A i \in 1 .. m : fits[i].section = text[i].section /\ fits[i].len <= text[i].len
  BY <1>7, <1>8
<1>12. m <= n BY <1>6
<1> QED BY <1>8, <1>9, <1>10, <1>11, <1>12 DEF n, f, fits

(* A text of whole lines of one section, none longer than width.             *)
AllOf(text, section, width) ==
    /\ text \in Text
    /\ \A i \in 1 .. Len(text) :
          text[i].section = section /\ text[i].whole = TRUE /\ text[i].len <= width

Measured(text, section, width, lines, size) ==
    AllOf(text, section, width) /\ Len(text) = lines /\ Size(text) = size

(* An empty text, a line, and a line that is there if p holds.               *)
LEMMA MeasuredNone ==
    ASSUME NEW section \in SectionNames, NEW width \in Nat
    PROVE  Measured(<< >>, section, width, 0, 0)
<1>1. << >> \in Text /\ Len(<< >>) = 0 BY DEF Text
<1>2. Size(<< >>) = 0 BY <1>1, OffsetsDef DEF Size
<1>3. AllOf(<< >>, section, width) BY <1>1 DEF AllOf
<1> QED BY <1>1, <1>2, <1>3 DEF Measured

(* One line.                                                                *)
LEMMA MeasuredLine ==
    ASSUME NEW section \in SectionNames, NEW width \in Nat, NEW n \in Nat, 0 < n, n <= width
    PROVE  Measured(Line(section, n), section, width, 1, n)
<1> DEFINE l == [section |-> section, len |-> n, whole |-> TRUE]
<1>1. l \in LineRec /\ l.section = section /\ l.len = n /\ l.whole = TRUE BY DEF LineRec
<1>2. Line(section, n) = <<l>> BY DEF Line
<1> HIDE DEF l
<1>3. <<l>> \in Text /\ Len(<<l>>) = 1 /\ <<l>>[1] = l BY <1>1 DEF Text
<1>4. AllOf(<<l>>, section, width)
  <2>1. \A i \in 1 .. Len(<<l>>) : <<l>>[i] = l BY <1>3
  <2> QED BY <2>1, <1>1, <1>3 DEF AllOf
<1>5. Size(<<l>>) = n
  <2>1. Offsets(<<l>>)[0] = 0 BY <1>3, OffsetsDef
  <2>2. 1 \in 1 .. Len(<<l>>) /\ 1 - 1 = 0 BY <1>3
  <2>3. Offsets(<<l>>)[1] = Offsets(<<l>>)[1 - 1] + <<l>>[1].len BY <1>3, <2>2, OffsetsDef
  <2>4. Offsets(<<l>>)[1] = 0 + n BY <2>1, <2>2, <2>3, <1>1, <1>3
  <2> QED BY <2>4, <1>3 DEF Size
<1> QED BY <1>2, <1>3, <1>4, <1>5 DEF Measured

Part(p, n) == IF p THEN n ELSE 0

(* One line, or none.                                                       *)
LEMMA MeasuredIf ==
    ASSUME NEW p \in BOOLEAN, NEW section \in SectionNames, NEW width \in Nat, NEW n \in Nat,
           0 < n, n <= width
    PROVE  Measured(LineIf(p, section, n), section, width, If(p), Part(p, n))
<1>1. CASE p = TRUE
  <2>1. LineIf(p, section, n) = Line(section, n) /\ If(p) = 1 /\ Part(p, n) = n
    BY <1>1 DEF LineIf, If, Part
  <2> QED BY <1>1, <2>1, MeasuredLine
<1>2. CASE p = FALSE
  <2>1. LineIf(p, section, n) = << >> /\ If(p) = 0 /\ Part(p, n) = 0
    BY <1>2 DEF LineIf, If, Part
  <2> QED BY <1>2, <2>1, MeasuredNone
<1> QED BY <1>1, <1>2

(* Lines and sizes add up.                                                  *)
LEMMA MeasuredJoin ==
    ASSUME NEW a, NEW b, NEW section, NEW width,
           NEW la, NEW za, NEW lb, NEW zb,
           Measured(a, section, width, la, za), Measured(b, section, width, lb, zb)
    PROVE  Measured(a \o b, section, width, la + lb, za + zb)
<1>1. a \in Text /\ b \in Text BY DEF Measured, AllOf
<1>2. /\ a \o b \in Text
      /\ Len(a \o b) = Len(a) + Len(b)
      /\ \A i \in 1 .. Len(a) : (a \o b)[i] = a[i]
      /\ \A i \in 1 .. Len(b) : (a \o b)[Len(a) + i] = b[i]
      /\ Size(a \o b) = Size(a) + Size(b)
  BY <1>1, JoinedText, JoinedOffsets
<1>3. Len(a) \in Nat /\ Len(b) \in Nat BY <1>1, TextType
<1>4. ASSUME NEW i \in 1 .. Len(a \o b)
      PROVE  (a \o b)[i].section = section /\ (a \o b)[i].whole = TRUE
             /\ (a \o b)[i].len <= width
  <2>1. CASE i <= Len(a)
    <3>1. i \in 1 .. Len(a) BY <2>1
    <3> QED BY <3>1, <1>2 DEF Measured, AllOf
  <2>2. CASE ~(i <= Len(a))
    <3>1. i - Len(a) \in 1 .. Len(b) /\ Len(a) + (i - Len(a)) = i BY <2>2, <1>2, <1>3
    <3>2. (a \o b)[i] = b[i - Len(a)] BY <3>1, <1>2
    <3> QED BY <3>1, <3>2 DEF Measured, AllOf
  <2> QED BY <2>1, <2>2
<1>5. AllOf(a \o b, section, width) BY <1>2, <1>4 DEF AllOf
<1> QED BY <1>2, <1>5 DEF Measured

(* One more line if p holds.                                                 *)
LEMMA MeasuredAdd ==
    ASSUME NEW a, NEW section \in SectionNames, NEW width \in Nat, NEW la, NEW za,
           Measured(a, section, width, la, za),
           NEW p \in BOOLEAN, NEW n \in Nat, 0 < n, n <= width
    PROVE  Measured(a \o LineIf(p, section, n), section, width,
                    la + If(p), za + Part(p, n))
BY MeasuredIf, MeasuredJoin

(* The same for any text, line and condition.                               *)
LEMMA MeasuredMore ==
    ASSUME NEW section \in SectionNames, NEW width \in Nat
    PROVE  \A t, la, za : Measured(t, section, width, la, za) =>
              \A p \in BOOLEAN : \A n \in Nat : 0 < n /\ n <= width =>
                 Measured(t \o LineIf(p, section, n), section, width,
                          la + If(p), za + Part(p, n))
<1> TAKE t, la, za
<1> HAVE Measured(t, section, width, la, za)
<1> TAKE p \in BOOLEAN
<1> TAKE n \in Nat
<1> HAVE 0 < n /\ n <= width
<1> QED BY MeasuredAdd

(* All lines of such a text are counted for its section.                     *)
LEMMA CountAllOf ==
    ASSUME NEW text, NEW section, NEW width, AllOf(text, section, width)
    PROVE  Count(text, section) = Len(text)
<1>1. text \in Text /\ Len(text) \in Nat /\ DOMAIN text = 1 .. Len(text)
  BY TextType DEF AllOf
<1>2. {i \in DOMAIN text : text[i].section = section /\ text[i].whole} = 1 .. Len(text)
  BY <1>1 DEF AllOf
<1>3. PICK n \in Nat : n = Len(text) BY <1>1
<1>4. Cardinality(1 .. n) = n BY FS_Interval
<1> QED BY <1>2, <1>3, <1>4 DEF Count

(* What fits is kept as it is.                                               *)
LEMMA AllFits ==
    ASSUME NEW text \in Text, NEW size \in Nat, Size(text) < size
    PROVE  Fits(text, size) = text
<1> DEFINE fits == Fits(text, size)
<1>1. Len(text) \in Nat BY TextType
<1>2. \A i \in 0 .. Len(text) : Offsets(text)[i] \in Nat /\ Offsets(text)[i] <= Size(text)
  BY <1>1, OffsetsGrow DEF Size
<1>3. Size(text) \in Nat /\ size > 0
  <2>1. Size(text) \in Nat BY <1>1, OffsetsGrow DEF Size
  <2> QED BY <2>1
<1>4. /\ fits \in Text
      /\ Len(fits) <= Len(text)
      /\ \A i \in 1 .. Len(text) :
            Offsets(text)[i] <= size - 1 => i <= Len(fits) /\ fits[i] = text[i]
  BY <1>3, FittedText
<1> HIDE DEF fits
<1>5. \A i \in 1 .. Len(text) : i <= Len(fits) /\ fits[i] = text[i]
  <2>1. ASSUME NEW i \in 1 .. Len(text) PROVE Offsets(text)[i] <= size - 1
    <3>1. i \in 0 .. Len(text) BY <1>1
    <3>2. Offsets(text)[i] \in Nat /\ Offsets(text)[i] <= Size(text) BY <3>1, <1>2
    <3> QED BY <3>2, <1>3
  <2> QED BY <2>1, <1>4
<1>6. Len(fits) \in Nat BY <1>4, TextType
<1>7. Len(fits) = Len(text)
  <2>1. Len(text) = 0 \/ Len(text) \in 1 .. Len(text) BY <1>1
  <2> QED BY <2>1, <1>1, <1>4, <1>5, <1>6
<1>8. fits = text BY <1>4, <1>5, <1>7, SeqEqual DEF Text
<1> QED BY <1>8 DEF fits

(* What a frozen result can be.                                              *)
ResultOK(r) ==
    /\ r.anomaly_flags \subseteq AnomalyNames
    /\ r.stuck_data_hi \subseteq DataLines /\ r.stuck_data_lo \subseteq DataLines
    /\ r.stuck_data_hi \cap r.stuck_data_lo = {}
    /\ r.stuck_data_hi # {} /\ r.stuck_data_lo # {} => ~r.bus_undriven
    /\ r.stuck_addr \subseteq AddrLines /\ Cardinality(r.stuck_addr) <= 10
    /\ r.bus_undriven \in BOOLEAN

(* An element counts for one.                                               *)
LEMMA Without ==
    ASSUME NEW S, IsFiniteSet(S), NEW x
    PROVE  /\ IsFiniteSet(S \ {x})
           /\ Cardinality(S) = If(x \in S) + Cardinality(S \ {x})
<1>1. IsFiniteSet(S \ {x})
      /\ Cardinality(S \ {x}) = IF x \in S THEN Cardinality(S) - 1 ELSE Cardinality(S)
  BY FS_RemoveElement
<1>2. Cardinality(S) \in Nat BY FS_CardinalityType
<1> QED BY <1>1, <1>2 DEF If

(* The anomalies one by one, with the lengths of their texts.                *)
LEMMA OrderIs ==
    /\ Order[1] = "CLK_ABSENT" /\ CauseSize[Order[1]] = 42 /\ NameSize[Order[1]] = 8
    /\ Order[2] = "CLK_OUT_OF_RANGE" /\ CauseSize[Order[2]] = 34 /\ NameSize[Order[2]] = 14
    /\ Order[3] = "RESET_STUCK" /\ CauseSize[Order[3]] = 41 /\ NameSize[Order[3]] = 10
    /\ Order[4] = "NO_BUS_CYCLES" /\ CauseSize[Order[4]] = 45 /\ NameSize[Order[4]] = 13
    /\ Order[5] = "WAIT_STUCK_LOW" /\ CauseSize[Order[5]] = 30 /\ NameSize[Order[5]] = 15
BY DEF Order, CauseSize, NameSize

(* The anomalies are counted one by one.                                     *)
LEMMA FlagsCounted ==
    ASSUME NEW S, S \subseteq AnomalyNames
    PROVE  /\ IsFiniteSet(S)
           /\ Cardinality(S) = If(Order[1] \in S) + If(Order[2] \in S) + If(Order[3] \in S)
                               + If(Order[4] \in S) + If(Order[5] \in S)
<1> DEFINE a == Order[1]  b == Order[2]  c == Order[3]  d == Order[4]  e == Order[5]
           A == S \ {a}  B == A \ {b}  C == B \ {c}  D == C \ {d}  E == D \ {e}
<1>1. AnomalyNames = {a, b, c, d, e}
  BY OrderIs DEF AnomalyNames
<1>2. a # b /\ a # c /\ a # d /\ a # e /\ b # c /\ b # d /\ b # e
      /\ c # d /\ c # e /\ d # e
  BY OrderIs
<1> HIDE DEF a, b, c, d, e
<1>3. IsFiniteSet(S)
  <2>1. IsFiniteSet({} \cup {a} \cup {b} \cup {c} \cup {d} \cup {e})
    BY FS_EmptySet, FS_AddElement
  <2>2. S \subseteq {} \cup {a} \cup {b} \cup {c} \cup {d} \cup {e} BY <1>1
  <2> QED BY <2>1, <2>2, FS_Subset
<1>4. E = {} BY <1>1
<1> HIDE DEF A, B, C, D, E
<1>5. IsFiniteSet(A) /\ Cardinality(S) = If(a \in S) + Cardinality(A) BY <1>3, Without DEF A
<1>6. IsFiniteSet(B) /\ Cardinality(A) = If(b \in A) + Cardinality(B) BY <1>5, Without DEF B
<1>7. IsFiniteSet(C) /\ Cardinality(B) = If(c \in B) + Cardinality(C) BY <1>6, Without DEF C
<1>8. IsFiniteSet(D) /\ Cardinality(C) = If(d \in C) + Cardinality(D) BY <1>7, Without DEF D
<1>9. Cardinality(D) = If(e \in D) + Cardinality(E) BY <1>8, Without DEF E
<1>10. Cardinality(E) = 0 BY <1>4, FS_EmptySet
<1>11. /\ b \in A <=> b \in S
       /\ c \in B <=> c \in S
       /\ d \in C <=> d \in S
       /\ e \in D <=> e \in S
  BY <1>2 DEF A, B, C, D
<1>12. \A p \in BOOLEAN : If(p) \in Nat BY DEF If
<1>13. Cardinality(S) = If(a \in S) + (If(b \in S) + (If(c \in S) + (If(d \in S) + (If(e \in S) + 0))))
  BY <1>5, <1>6, <1>7, <1>8, <1>9, <1>10, <1>11
<1>14. Cardinality(S) = If(a \in S) + If(b \in S) + If(c \in S) + If(d \in S) + If(e \in S)
  BY <1>12, <1>13 DEF If
<1> QED BY <1>3, <1>14 DEF a, b, c, d, e

(* The numbers of an interval.                                              *)
LEMMA IntervalSize ==
    ASSUME NEW a \in Int, NEW b \in Int, a <= b
    PROVE  IsFiniteSet(a .. b) /\ Cardinality(a .. b) = b - a + 1
<1>1. IsFiniteSet(a .. b) /\ Cardinality(a .. b) = IF a > b THEN 0 ELSE b - a + 1
  BY FS_Interval
<1>2. ~(a > b) OBVIOUS
<1> QED BY <1>1, <1>2

(* There are 8 data lines and 16 address lines, 6 of them with two digits.   *)
LEMMA LineSets ==
    /\ IsFiniteSet(DataLines) /\ Cardinality(DataLines) = 8
    /\ IsFiniteSet(AddrLines) /\ Cardinality(AddrLines) = 16
    /\ IsFiniteSet(10 .. 15) /\ Cardinality(10 .. 15) = 6
<1>1. \A a, b, n \in Int : a <= b /\ n = b - a + 1 =>
          IsFiniteSet(a .. b) /\ Cardinality(a .. b) = n
  BY IntervalSize
<1>2. 0 \in Int /\ 7 \in Int /\ 8 \in Int /\ 0 <= 7 /\ 8 = 7 - 0 + 1 OBVIOUS
<1>3. 15 \in Int /\ 16 \in Int /\ 0 <= 15 /\ 16 = 15 - 0 + 1 OBVIOUS
<1>4. 10 \in Int /\ 6 \in Int /\ 10 <= 15 /\ 6 = 15 - 10 + 1 OBVIOUS
<1>5. IsFiniteSet(0 .. 7) /\ Cardinality(0 .. 7) = 8 BY <1>1, <1>2, Zenon
<1>6. IsFiniteSet(0 .. 15) /\ Cardinality(0 .. 15) = 16
  <2>1. 0 \in Int OBVIOUS
  <2> QED BY <1>1, <1>3, <2>1, Zenon
<1>7. IsFiniteSet(10 .. 15) /\ Cardinality(10 .. 15) = 6
  <2>1. 15 \in Int OBVIOUS
  <2> QED BY <1>1, <1>4, <2>1, Zenon
<1> QED BY <1>5, <1>6, <1>7, Zenon DEF DataLines, AddrLines

(* The names of the lines of a mask take little room.                        *)
LEMMA NamesOfData ==
    ASSUME NEW hi, NEW lo, hi \subseteq DataLines, lo \subseteq DataLines, hi \cap lo = {}
    PROVE  Names(hi) \in Nat /\ Names(lo) \in Nat /\ Names(hi) + Names(lo) <= 24
<1>1. IsFiniteSet(DataLines) /\ Cardinality(DataLines) = 8 BY LineSets
<1>2. IsFiniteSet(hi) /\ IsFiniteSet(lo) BY <1>1, FS_Subset
<1>3. Cardinality(hi) \in Nat /\ Cardinality(lo) \in Nat BY <1>2, FS_CardinalityType
<1>4. Cardinality(hi \cup lo) = Cardinality(hi) + Cardinality(lo)
  <2>1. Cardinality(hi \cap lo) = 0 BY FS_EmptySet
  <2>2. Cardinality(hi \cup lo) = Cardinality(hi) + Cardinality(lo) - Cardinality(hi \cap lo)
    BY <1>2, FS_Union
  <2> QED BY <2>1, <2>2, <1>3
<1>5. Cardinality(hi \cup lo) <= 8
  <2>1. hi \cup lo \subseteq DataLines OBVIOUS
  <2> QED BY <1>1, <2>1, FS_Subset
<1>6. ASSUME NEW m, m \subseteq DataLines, IsFiniteSet(m) PROVE Names(m) = 3 * Cardinality(m)
  <2>1. \A k \in DataLines : k \in 0 .. 9 BY DEF DataLines
  <2>2. m \cap 0 .. 9 = m /\ m \ (0 .. 9) = {} BY <1>6, <2>1
  <2>3. PICK n \in Nat : n = Cardinality(m) BY <1>6, FS_CardinalityType
  <2>4. Cardinality({}) = 0 BY FS_EmptySet
  <2>5. Names(m) = 3 * n + 4 * 0 BY <2>2, <2>3, <2>4 DEF Names
  <2> QED BY <2>3, <2>5
<1> QED BY <1>2, <1>3, <1>4, <1>5, <1>6

(* At most ten lines of the address bus are ever named.                      *)
LEMMA NamesOfAddr ==
    ASSUME NEW m, m \subseteq AddrLines, Cardinality(m) <= 10
    PROVE  Names(m) \in Nat /\ Names(m) <= 36
<1>1. IsFiniteSet(m)
  <2>1. IsFiniteSet(AddrLines) BY LineSets
  <2> QED BY <2>1, FS_Subset
<1> DEFINE x == m \cap 0 .. 9
           y == m \ (0 .. 9)
<1>2. IsFiniteSet(x) /\ IsFiniteSet(y) BY <1>1, FS_Subset
<1>3. Cardinality(x) \in Nat /\ Cardinality(y) \in Nat BY <1>2, FS_CardinalityType
<1>4. Cardinality(y) <= 6
  <2>1. IsFiniteSet(10 .. 15) /\ Cardinality(10 .. 15) = 6 BY LineSets
  <2>2. y \subseteq 10 .. 15 BY DEF AddrLines
  <2> QED BY <2>1, <2>2, FS_Subset
<1>5. Cardinality(m) = Cardinality(x) + Cardinality(y)
  <2>1. Cardinality(m \ (0 .. 9)) = Cardinality(m) - Cardinality(m \cap 0 .. 9)
    BY <1>1, FS_Difference
  <2>2. Cardinality(m) \in Nat BY <1>1, FS_CardinalityType
  <2> QED BY <2>1, <2>2, <1>3
<1>6. Names(m) = 3 * Cardinality(x) + 4 * Cardinality(y) BY DEF Names
<1> QED BY <1>3, <1>4, <1>5, <1>6

Flag(r, i) == If(Order[i] \in r.anomaly_flags)
CausePart(r, i) == Part(Order[i] \in r.anomaly_flags, CauseSize[Order[i]])

(* The hints of the five anomalies.                                         *)
LEMMA CausesMeasured ==
    ASSUME NEW r
    PROVE  Measured(Cause(r, 1) \o Cause(r, 2) \o Cause(r, 3) \o Cause(r, 4) \o Cause(r, 5),
                    "causes", 70,
                    Flag(r, 1) + Flag(r, 2) + Flag(r, 3) + Flag(r, 4) + Flag(r, 5),
                    CausePart(r, 1) + CausePart(r, 2) + CausePart(r, 3) + CausePart(r, 4)
                    + CausePart(r, 5))
<1>1. "causes" \in SectionNames BY DEF SectionNames
<1>2. \A p \in BOOLEAN : \A n \in Nat : 0 < n /\ n <= 70 =>
          Measured(LineIf(p, "causes", n), "causes", 70, If(p), Part(p, n))
  BY <1>1, MeasuredIf
<1>3. ASSUME NEW i \in 1 .. 5
      PROVE  Measured(Cause(r, i), "causes", 70, Flag(r, i), CausePart(r, i))
  <2>1. CauseSize[Order[i]] \in Nat /\ 0 < CauseSize[Order[i]] /\ CauseSize[Order[i]] <= 70
    BY OrderIs
  <2>2. (Order[i] \in r.anomaly_flags) \in BOOLEAN OBVIOUS
  <2> QED BY <1>2, <2>1, <2>2, Zenon DEF Cause, Flag, CausePart
<1>4. 1 \in 1 .. 5 /\ 2 \in 1 .. 5 /\ 3 \in 1 .. 5 /\ 4 \in 1 .. 5 /\ 5 \in 1 .. 5
  OBVIOUS
<1>5. /\ Measured(Cause(r, 1), "causes", 70, Flag(r, 1), CausePart(r, 1))
      /\ Measured(Cause(r, 2), "causes", 70, Flag(r, 2), CausePart(r, 2))
      /\ Measured(Cause(r, 3), "causes", 70, Flag(r, 3), CausePart(r, 3))
      /\ Measured(Cause(r, 4), "causes", 70, Flag(r, 4), CausePart(r, 4))
      /\ Measured(Cause(r, 5), "causes", 70, Flag(r, 5), CausePart(r, 5))
  BY <1>3, <1>4, Zenon
<1>6. Measured(Cause(r, 1) \o Cause(r, 2) \o Cause(r, 3), "causes", 70,
               Flag(r, 1) + Flag(r, 2) + Flag(r, 3),
               CausePart(r, 1) + CausePart(r, 2) + CausePart(r, 3))
  BY <1>5, MeasuredJoin, ZenonT(30)
<1> QED BY <1>5, <1>6, MeasuredJoin, ZenonT(30)

Present(m) == m # {}

(* One line for every finding; short of all five anomalies together they    *)
(* take less than 400 characters.                                           *)
LEMMA FindingsMeasured ==
    ASSUME NEW r, ResultOK(r)
    PROVE  \E z \in Nat :
              /\ Measured(Findings(r), "causes", 70, Found(r), z)
              /\ Found(r) \in Nat /\ Found(r) <= 10
              /\ r.anomaly_flags # AnomalyNames => z < 400
<1> DEFINE hi == Present(r.stuck_data_hi)
           lo == Present(r.stuck_data_lo)
           ad == Present(r.stuck_addr)
           un == r.bus_undriven
           cp == Present(r.cp_failed)
           nh == Names(r.stuck_data_hi)
           nl == Names(r.stuck_data_lo)
           na == Names(r.stuck_addr)
           five == Cause(r, 1) \o Cause(r, 2) \o Cause(r, 3) \o Cause(r, 4) \o Cause(r, 5)
           n5 == Flag(r, 1) + Flag(r, 2) + Flag(r, 3) + Flag(r, 4) + Flag(r, 5)
           z5 == CausePart(r, 1) + CausePart(r, 2) + CausePart(r, 3) + CausePart(r, 4)
                 + CausePart(r, 5)
<1>1. Findings(r) = five \o LineIf(hi, "causes", nh + 37) \o LineIf(lo, "causes", nl + 37)
                    \o LineIf(ad, "causes", na + 31) \o LineIf(un, "causes", 54)
                    \o LineIf(cp, "causes", 40)
  BY DEF Findings, FindingsBeforeAddr, Present
<1>2. Found(r) = n5 + If(hi) + If(lo) + If(ad) + If(un) + If(cp)
  BY FlagsCounted DEF Found, Present, Flag, ResultOK
<1>3. Measured(five, "causes", 70, n5, z5) BY CausesMeasured
<1>4. nh \in Nat /\ nl \in Nat /\ nh + nl <= 24 /\ na \in Nat /\ na <= 36
  BY NamesOfData, NamesOfAddr DEF ResultOK
<1>5. hi \in BOOLEAN /\ lo \in BOOLEAN /\ ad \in BOOLEAN /\ un \in BOOLEAN /\ cp \in BOOLEAN
  BY DEF Present, ResultOK
<1>6. hi /\ lo => ~un BY DEF Present, ResultOK
<1>7. r.anomaly_flags # AnomalyNames => z5 <= 162
  <2>1. AnomalyNames = {Order[1], Order[2], Order[3], Order[4], Order[5]}
    BY OrderIs DEF AnomalyNames
  <2>2. r.anomaly_flags \subseteq AnomalyNames BY DEF ResultOK
  <2>3. r.anomaly_flags # AnomalyNames =>
            \/ Order[1] \notin r.anomaly_flags \/ Order[2] \notin r.anomaly_flags
            \/ Order[3] \notin r.anomaly_flags \/ Order[4] \notin r.anomaly_flags
            \/ Order[5] \notin r.anomaly_flags
    BY <2>1, <2>2, Zenon
  <2> QED BY <2>3, OrderIs, SMT DEF CausePart, Part
<1>8. z5 \in Nat BY OrderIs, SMT DEF CausePart, Part
<1>9. n5 \in 0 .. 5 BY SMT DEF Flag, If
<1> HIDE DEF hi, lo, ad, un, cp, nh, nl, na, five, n5, z5
<1>10. "causes" \in SectionNames /\ 70 \in Nat BY DEF SectionNames
<1>11. \A t, la, za : Measured(t, "causes", 70, la, za) =>
         \A p \in BOOLEAN : \A n \in Nat : 0 < n /\ n <= 70 =>
            Measured(t \o LineIf(p, "causes", n), "causes", 70, la + If(p), za + Part(p, n))
  BY <1>10, MeasuredMore, Zenon
<1>12. /\ nh + 37 \in Nat /\ 0 < nh + 37 /\ nh + 37 <= 70
       /\ nl + 37 \in Nat /\ 0 < nl + 37 /\ nl + 37 <= 70
       /\ na + 31 \in Nat /\ 0 < na + 31 /\ na + 31 <= 70
       /\ 54 \in Nat /\ 0 < 54 /\ 54 <= 70 /\ 40 \in Nat /\ 0 < 40 /\ 40 <= 70
  BY <1>4
<1> DEFINE z == z5 + Part(hi, nh + 37) + Part(lo, nl + 37) + Part(ad, na + 31)
                + Part(un, 54) + Part(cp, 40)
<1>13. Measured(Findings(r), "causes", 70, Found(r), z)
  <2> DEFINE t1 == five \o LineIf(hi, "causes", nh + 37)
             t2 == t1 \o LineIf(lo, "causes", nl + 37)
             t3 == t2 \o LineIf(ad, "causes", na + 31)
             t4 == t3 \o LineIf(un, "causes", 54)
             t5 == t4 \o LineIf(cp, "causes", 40)
             z1 == z5 + Part(hi, nh + 37)
             z2 == z1 + Part(lo, nl + 37)
             z3 == z2 + Part(ad, na + 31)
             z4 == z3 + Part(un, 54)
  <2>1. Measured(t1, "causes", 70, n5 + If(hi), z1)
    BY <1>3, <1>5, <1>11, <1>12, Zenon
  <2> HIDE DEF t1, z1
  <2>2. Measured(t2, "causes", 70, n5 + If(hi) + If(lo), z2)
    BY <2>1, <1>5, <1>11, <1>12, Zenon
  <2> HIDE DEF t2, z2
  <2>3. Measured(t3, "causes", 70, n5 + If(hi) + If(lo) + If(ad), z3)
    BY <2>2, <1>5, <1>11, <1>12, Zenon
  <2> HIDE DEF t3, z3
  <2>4. Measured(t4, "causes", 70, n5 + If(hi) + If(lo) + If(ad) + If(un), z4)
    BY <2>3, <1>5, <1>11, <1>12, Zenon
  <2> HIDE DEF t4, z4
  <2>5. Measured(t5, "causes", 70, n5 + If(hi) + If(lo) + If(ad) + If(un) + If(cp),
                 z4 + Part(cp, 40))
    BY <2>4, <1>5, <1>11, <1>12, Zenon
  <2> QED BY <2>5, <1>1, <1>2, Zenon DEF t1, t2, t3, t4, z1, z2, z3, z4
<1>14. Found(r) \in Nat /\ Found(r) <= 10 BY <1>2, <1>5, <1>9 DEF If
<1>15. z \in Nat BY <1>4, <1>5, <1>8 DEF Part
<1>16. r.anomaly_flags # AnomalyNames => z < 400
  BY <1>4, <1>5, <1>6, <1>7, <1>8 DEF Part
<1> QED BY <1>13, <1>14, <1>15, <1>16

(* The first phase that was not reached, if there is one.                    *)
LEMMA FirstMissing ==
    ASSUME NEW flags
    PROVE  /\ Phases \subseteq flags => first_missing(flags) = NPhases
           /\ ~(Phases \subseteq flags) => first_missing(flags) \in Phases
<1>1. CASE Phases \subseteq flags BY <1>1 DEF first_missing
<1>2. CASE ~(Phases \subseteq flags)
  <2> DEFINE T == Phases \ flags
  <2>1. T # {} /\ T \subseteq Nat BY <1>2, PassAssumption DEF Phases
  <2> HIDE DEF T
  <2>2. \E p \in T : \A q \in T : p <= q BY <2>1, Least
  <2>3. (CHOOSE p \in T : \A q \in T : p <= q) \in T BY <2>2
  <2>4. first_missing(flags) \in T BY <1>2, <2>3 DEF first_missing, T
  <2> QED BY <1>2, <2>4 DEF T
<1> QED BY <1>1, <1>2

(* Every phase has its two names.                                           *)
LEMMA ShortNames ==
    ASSUME NEW p \in Phases
    PROVE  /\ ShortName[p + 1] \in Nat /\ 0 < ShortName[p + 1] /\ ShortName[p + 1] <= 15
           /\ FullName[p + 1] \in Nat /\ 0 < FullName[p + 1] /\ FullName[p + 1] <= 19
<1>1. p \in 0 .. 8
  <2>1. Len(ShortName) = 9 BY DEF ShortName
  <2> QED BY <2>1, NamesAssumption, PassAssumption DEF Phases
<1>2. p = 0 \/ p = 1 \/ p = 2 \/ p = 3 \/ p = 4 \/ p = 5 \/ p = 6 \/ p = 7 \/ p = 8
  BY <1>1
<1> QED BY <1>2, SMT DEF ShortName, FullName

(* The hints of a result, put together in the buffer.                        *)
LEMMA HintsMeasured ==
    ASSUME NEW r, ResultOK(r), r.anomaly_flags # AnomalyNames
    PROVE  /\ Count(possible_causes(r), "causes") = Len(possible_causes(r))
           /\ Len(possible_causes(r)) = IF Found(r) = 0 THEN 1 ELSE Found(r)
<1>1. PICK z \in Nat :
         /\ Measured(Findings(r), "causes", 70, Found(r), z)
         /\ Found(r) \in Nat /\ z < 400
  BY FindingsMeasured
<1>2. AllOf(Findings(r), "causes", 70) /\ Len(Findings(r)) = Found(r)
      /\ Size(Findings(r)) = z /\ Findings(r) \in Text
  BY <1>1 DEF Measured, AllOf
<1>3. CASE Findings(r) # << >>
  <2>1. CausesSize \in Nat /\ Size(Findings(r)) < CausesSize BY <1>1, <1>2, SizeAssumption
  <2>2. Fits(Findings(r), CausesSize) = Findings(r) BY <2>1, <1>2, AllFits
  <2>3. possible_causes(r) = Findings(r) BY <1>3, <2>2 DEF possible_causes
  <2>4. Found(r) # 0
    <3>1. Len(Findings(r)) # 0 BY <1>2, <1>3, EmptySeq DEF Text
    <3> QED BY <3>1, <1>2
  <2> QED BY <2>3, <2>4, <1>2, CountAllOf
<1>4. CASE Findings(r) = << >>
  <2>1. Found(r) = 0 BY <1>2, <1>4
  <2> DEFINE n == IF Phases \subseteq r.phase_flags THEN 82
                  ELSE 33 + ShortName[first_missing(r.phase_flags) + 1]
  <2>2. possible_causes(r) = Line("causes", n) BY <1>4 DEF possible_causes
  <2>3. n \in Nat /\ 0 < n /\ n <= 82 BY FirstMissing, ShortNames
  <2> HIDE DEF n
  <2>4. "causes" \in SectionNames /\ 82 \in Nat BY DEF SectionNames
  <2>5. Measured(Line("causes", n), "causes", 82, 1, n) BY <2>3, <2>4, MeasuredLine
  <2> QED BY <2>1, <2>2, <2>5, CountAllOf DEF Measured
<1> QED BY <1>3, <1>4

(* A bus that is driven to one level on half of the reads and more has all   *)
(* lines at that level; the flags are those of the anomalies.                *)
CountsMatch ==
    /\ s_bi.n_allzero \in Nat /\ s_bi.n_allone \in Nat
    /\ s_bi.n_allzero > 0 => s_bi.data_lo = DataLines
    /\ s_bi.n_allone > 0 => s_bi.data_hi = DataLines
    /\ s_anom \subseteq AnomalyNames

(* Only a read counts words, and its word is in the masks as well.           *)
LEMMA StaysCounted == IInv /\ CountsMatch /\ [Next]_vars => CountsMatch'
<1> SUFFICES ASSUME IInv, CountsMatch, [Next]_vars PROVE CountsMatch' OBVIOUS
<1>1. CASE StartRound
  BY <1>1 DEF StartRound, ResetIntegrity, Fresh, CountsMatch
<1>2. CASE BusRead
  <2>1. PICK r \in Program :
          s_bi' = Feed(s_bi, OnBus(r, fault).A, OnBus(r, fault).D)
    BY <1>2 DEF BusRead
  <2> DEFINE data == OnBus(r, fault).D
  <2>2. data \subseteq DataLines
    BY <1>2, ProgramAssumption, FaultAssumption DEF OnBus, FaultSet, IInv, BrokenShows, BusRead
  <2>3. /\ s_bi'.n_allzero = s_bi.n_allzero + If(data = {})
        /\ s_bi'.n_allone = s_bi.n_allone + If(data = DataLines)
        /\ s_bi'.data_hi = s_bi.data_hi \cup data
        /\ s_bi'.data_lo = s_bi.data_lo \cup (DataLines \ data)
        /\ s_anom' = s_anom
    BY <1>2, <2>1 DEF Feed, BusRead
  <2>4. s_bi.data_hi \subseteq DataLines /\ s_bi.data_lo \subseteq DataLines
    BY DEF IInv, MasksMatch
  <2> HIDE DEF data
  <2>5. s_bi'.n_allzero \in Nat /\ (s_bi'.n_allzero > 0 => s_bi'.data_lo = DataLines)
    <3>1. CASE data = {}
      <4>1. s_bi'.n_allzero \in Nat BY <2>3 DEF If, CountsMatch
      <4>2. s_bi'.data_lo = DataLines BY <3>1, <2>3, <2>4
      <4> QED BY <4>1, <4>2
    <3>2. CASE data # {}
      <4>1. s_bi'.n_allzero = s_bi.n_allzero BY <3>2, <2>3 DEF If, CountsMatch
      <4>2. s_bi.data_lo = DataLines => s_bi'.data_lo = DataLines BY <2>3, <2>4
      <4> QED BY <4>1, <4>2 DEF CountsMatch
    <3> QED BY <3>1, <3>2
  <2>6. s_bi'.n_allone \in Nat /\ (s_bi'.n_allone > 0 => s_bi'.data_hi = DataLines)
    <3>1. CASE data = DataLines
      <4>1. s_bi'.n_allone \in Nat BY <2>3 DEF If, CountsMatch
      <4>2. s_bi'.data_hi = DataLines BY <3>1, <2>3, <2>4
      <4> QED BY <4>1, <4>2
    <3>2. CASE data # DataLines
      <4>1. s_bi'.n_allone = s_bi.n_allone BY <3>2, <2>3 DEF If, CountsMatch
      <4>2. s_bi.data_hi = DataLines => s_bi'.data_hi = DataLines BY <2>2, <2>3, <2>4
      <4> QED BY <4>1, <4>2 DEF CountsMatch
    <3> QED BY <3>1, <3>2
  <2> QED BY <2>3, <2>5, <2>6 DEF CountsMatch
<1>3. CASE EndPass
  <2>1. PICK p \in Probes : s_anom' = s_anom \cup PassAnomalies(p)
    BY <1>3 DEF EndPass, Accumulated
  <2>2. PassAnomalies(p) \subseteq AnomalyNames BY DEF PassAnomalies, Anomalies, AnomalyNames
  <2> QED BY <1>3, <2>1, <2>2 DEF EndPass, CountsMatch
<1>4. CASE IdleTick \/ UNCHANGED vars
  BY <1>4 DEF IdleTick, vars, CountsMatch
<1> QED BY <1>1, <1>2, <1>3, <1>4 DEF Next

(* Six lines of the address bus have moved before any is called stuck.       *)
LEMMA StuckAddrFew ==
    ASSUME IInv
    PROVE  StuckAddr(s_bi) \subseteq AddrLines /\ Cardinality(StuckAddr(s_bi)) <= 10
<1> DEFINE toggled == s_bi.addr_hi \cap s_bi.addr_lo
           all == s_bi.addr_hi \cup s_bi.addr_lo
<1>1. all \subseteq AddrLines /\ toggled \subseteq AddrLines BY DEF IInv, MasksMatch
<1>2. StuckAddr(s_bi) = IF Enough(s_bi) /\ Diverse(toggled) THEN all \ toggled ELSE {}
  BY DEF StuckAddr
<1> HIDE DEF toggled, all
<1>3. IsFiniteSet(AddrLines) /\ Cardinality(AddrLines) = 16 BY LineSets
<1>4. CASE Diverse(toggled)
  <2> DEFINE rest == AddrLines \ toggled
  <2>1. IsFiniteSet(toggled) BY <1>1, <1>3, FS_Subset
  <2>2. Cardinality(toggled) \in Nat /\ Cardinality(toggled) >= 6
    BY <2>1, <1>4, FS_CardinalityType, SizeAssumption, ThresholdAssumption DEF Diverse
  <2>3. AddrLines \cap toggled = toggled BY <1>1
  <2>4. IsFiniteSet(rest) /\ Cardinality(rest) = 16 - Cardinality(toggled)
    <3>1. IsFiniteSet(rest)
          /\ Cardinality(rest) = Cardinality(AddrLines) - Cardinality(AddrLines \cap toggled)
      BY <1>3, FS_Difference
    <3> HIDE DEF rest
    <3> QED BY <3>1, <2>3, <1>3, Zenon
  <2>5. StuckAddr(s_bi) \subseteq rest BY <1>1, <1>2
  <2> HIDE DEF rest
  <2>6. IsFiniteSet(StuckAddr(s_bi)) /\ Cardinality(StuckAddr(s_bi)) <= Cardinality(rest)
    BY <2>4, <2>5, FS_Subset
  <2>7. Cardinality(StuckAddr(s_bi)) \in Nat BY <2>6, FS_CardinalityType
  <2>8. StuckAddr(s_bi) \subseteq AddrLines BY <2>5 DEF rest
  <2>9. PICK t \in Nat : t = Cardinality(toggled) BY <2>2
  <2> QED BY <2>2, <2>4, <2>6, <2>7, <2>8, <2>9
<1>5. CASE ~Diverse(toggled)
  <2>1. StuckAddr(s_bi) = {} BY <1>2, <1>5
  <2> QED BY <2>1, FS_EmptySet
<1> QED BY <1>4, <1>5

(* What freeze_result makes of that.                                        *)
LEMMA ResultIsOK == IInv /\ CountsMatch => ResultOK(s_result)
<1> SUFFICES ASSUME IInv, CountsMatch PROVE ResultOK(s_result) OBVIOUS
<1> DEFINE hi == StuckDataHi(s_bi)
           lo == StuckDataLo(s_bi)
<1>1. hi \subseteq DataLines /\ lo \subseteq DataLines /\ hi \cap lo = {}
  BY DEF StuckDataHi, StuckDataLo, IInv, MasksMatch
<1>2. hi # {} /\ lo # {} => ~BusUndriven(s_bi)
  <2> SUFFICES ASSUME hi # {}, lo # {} PROVE ~BusUndriven(s_bi) OBVIOUS
  <2>1. s_bi.data_lo # DataLines /\ s_bi.data_hi # DataLines
    BY DEF StuckDataHi, StuckDataLo, IInv, MasksMatch
  <2>2. s_bi.n_allzero = 0 /\ s_bi.n_allone = 0 BY <2>1 DEF CountsMatch
  <2>3. s_bi.n_reads \in Nat BY DEF IInv, MasksMatch
  <2>4. ~((s_bi.n_allzero + s_bi.n_allone) * 2 > s_bi.n_reads) BY <2>2, <2>3
  <2> QED BY <2>4 DEF BusUndriven
<1>3. BusUndriven(s_bi) \in BOOLEAN BY DEF BusUndriven
<1> HIDE DEF hi, lo
<1>4. /\ s_result.anomaly_flags = s_anom
      /\ s_result.stuck_data_hi = hi /\ s_result.stuck_data_lo = lo
      /\ s_result.stuck_addr = StuckAddr(s_bi) /\ s_result.bus_undriven = BusUndriven(s_bi)
  BY DEF s_result, hi, lo
<1> QED BY <1>1, <1>2, <1>3, <1>4, StuckAddrFew DEF ResultOK, CountsMatch

(* EveryFindingHinted, of every round of every machine: short of all five    *)
(* anomalies together the hints of a result fit the 400 characters that      *)
(* boot_diag_possible_causes has for them, one whole line for every finding  *)
(* and one line when there is none (boot_diag.c:67-98).                      *)
THEOREM EveryFindingIsHinted == Spec => []EveryFindingHinted
<1>1. Init => CountsMatch
  BY DEF Init, CountsMatch, Fresh
<1>2. IInv /\ CountsMatch => EveryFindingHinted
  BY ResultIsOK, HintsMeasured DEF EveryFindingHinted
<1> QED BY <1>1, <1>2, InitiallyMatches, StepMatches, StaysCounted, PTL DEF Spec

(* A list of hints, which are longer by their marks.                         *)
LEMMA ListedText ==
    ASSUME NEW text \in Text, NEW section, NEW width \in Nat,
           \A i \in 1 .. Len(text) : text[i].section = section /\ text[i].len <= width
    PROVE  /\ AllOf(Listed(text), section, width + 3)
           /\ Len(Listed(text)) = Len(text)
           /\ Size(Listed(text)) <= Size(text) + Times(3, Len(text))
<1> DEFINE mark(l) == [l EXCEPT !.len = IF l.whole THEN l.len + 2 ELSE l.len + 3, !.whole = TRUE]
           list == Listed(text)
           n == Len(text)
<1>1. n \in Nat /\ DOMAIN text = 1 .. n
      /\ \A i \in 1 .. n : text[i] \in LineRec /\ text[i].len \in Nat
  BY TextType
<1>2. list = [i \in 1 .. n |-> mark(text[i])] BY <1>1 DEF Listed
<1>3. \A l \in LineRec : /\ mark(l) \in LineRec
                         /\ mark(l).section = l.section /\ mark(l).whole = TRUE
                         /\ mark(l).len <= l.len + 3
  <2> SUFFICES ASSUME NEW l \in LineRec
               PROVE  /\ mark(l) \in LineRec
                      /\ mark(l).section = l.section /\ mark(l).whole = TRUE
                      /\ mark(l).len <= l.len + 3
    OBVIOUS
  <2> DEFINE x == IF l.whole THEN l.len + 2 ELSE l.len + 3
  <2>1. l.len \in Nat \ {0} BY DEF LineRec
  <2>2. x \in Nat \ {0} /\ x <= l.len + 3 BY <2>1
  <2>3. mark(l) = [l EXCEPT !.len = x, !.whole = TRUE] OBVIOUS
  <2> HIDE DEF x, mark
  <2>4. mark(l) \in LineRec /\ mark(l).section = l.section /\ mark(l).whole = TRUE
        /\ mark(l).len = x
    BY <2>2, <2>3 DEF LineRec
  <2> QED BY <2>2, <2>4
<1> HIDE DEF mark, list, n
<1>4. list \in [1 .. n -> LineRec] BY <1>1, <1>2, <1>3
<1>5. list \in Text /\ Len(list) = n BY <1>1, <1>4 DEF Text
<1>6. \A i \in 1 .. n : list[i] = mark(text[i]) BY <1>2
<1>7. \A i \in 1 .. n : /\ list[i].section = text[i].section /\ list[i].whole = TRUE
                        /\ list[i].len <= text[i].len + 3
  BY <1>1, <1>3, <1>6
<1>8. AllOf(list, section, width + 3)
  <2>1. ASSUME NEW i \in 1 .. n PROVE list[i].section = section /\ list[i].len <= width + 3
    <3>1. list[i].len \in Nat /\ text[i].len \in Nat BY <1>1, <1>5, TextType
    <3> QED BY <3>1, <1>7 DEF n
  <2> QED BY <2>1, <1>5, <1>7 DEF AllOf
<1>9. Size(list) <= Size(text) + Times(3, n)
  <2>1. Len(list) <= Len(text) /\ 3 \in Nat
        /\ \A i \in 1 .. Len(list) : list[i].len <= text[i].len + 3
    BY <1>1, <1>5, <1>7 DEF n
  <2>2. \A i \in 0 .. Len(list) : Offsets(list)[i] <= Offsets(text)[i] + Times(3, i)
    BY <2>1, <1>5, OffsetsBelow
  <2>3. n \in 0 .. n BY <1>1
  <2> QED BY <2>2, <2>3, <1>5 DEF Size, n
<1> QED BY <1>5, <1>8, <1>9 DEF list, n

(* The hints as they come out of their buffer.                               *)
LEMMA HintsBounded ==
    ASSUME NEW r, ResultOK(r)
    PROVE  LET hints == possible_causes(r) IN
           /\ hints \in Text /\ Len(hints) <= 10 /\ Size(hints) <= CausesSize - 1
           /\ \E w \in Nat : /\ ~Faultless(r) => w <= 70
                             /\ \A i \in 1 .. Len(hints) :
                                   hints[i].section = "causes" /\ hints[i].len <= w
<1> DEFINE hints == possible_causes(r)
           found == Findings(r)
<1>1. PICK z \in Nat :
         /\ Measured(found, "causes", 70, Found(r), z)
         /\ Found(r) \in Nat /\ Found(r) <= 10
  BY FindingsMeasured
<1>2. /\ found \in Text /\ Len(found) <= 10
      /\ \A i \in 1 .. Len(found) : found[i].section = "causes" /\ found[i].len <= 70
  BY <1>1 DEF Measured, AllOf
<1>3. CausesSize \in Nat /\ CausesSize >= 400 BY SizeAssumption
<1>4. CASE found # << >>
  <2>1. hints = Fits(found, CausesSize) BY <1>4 DEF possible_causes
  <2> HIDE DEF hints, found
  <2>2. /\ hints \in Text /\ Len(hints) <= Len(found) /\ Size(hints) <= CausesSize - 1
        /\ \A i \in 1 .. Len(hints) :
              hints[i].section = found[i].section /\ hints[i].len <= found[i].len
    BY <2>1, <1>2, <1>3, FittedText
  <2>3. ASSUME NEW i \in 1 .. Len(hints)
        PROVE  hints[i].section = "causes" /\ hints[i].len <= 70
    <3>1. i \in 1 .. Len(found) BY <2>2, <1>2, TextType
    <3>2. hints[i].len \in Nat /\ found[i].len \in Nat BY <2>2, <3>1, <1>2, TextType
    <3> QED BY <3>1, <3>2, <2>2, <1>2
  <2>4. Len(hints) <= 10
    <3>1. Len(hints) \in Nat /\ Len(found) \in Nat BY <2>2, <1>2, TextType
    <3> QED BY <3>1, <2>2, <1>2
  <2>5. 70 \in Nat /\ 70 <= 70 OBVIOUS
  <2>6. \E w \in Nat : /\ ~Faultless(r) => w <= 70
                       /\ \A i \in 1 .. Len(hints) :
                             hints[i].section = "causes" /\ hints[i].len <= w
    BY <2>3, <2>5
  <2> QED BY <2>2, <2>4, <2>6 DEF hints
<1>5. CASE found = << >>
  <2> DEFINE n == IF Phases \subseteq r.phase_flags THEN 82
                  ELSE 33 + ShortName[first_missing(r.phase_flags) + 1]
  <2>1. hints = Line("causes", n) BY <1>5 DEF possible_causes
  <2>2. n \in Nat /\ 0 < n /\ n <= 82 BY FirstMissing, ShortNames
  <2>3. ~Faultless(r) => n <= 70 BY <1>5, FirstMissing, ShortNames DEF Faultless
  <2> HIDE DEF n, hints, found
  <2>4. "causes" \in SectionNames BY DEF SectionNames
  <2>5. n <= n BY <2>2
  <2>6. Measured(Line("causes", n), "causes", n, 1, n) BY <2>2, <2>4, <2>5, MeasuredLine
  <2>7. AllOf(hints, "causes", n) /\ Len(hints) = 1 /\ Size(hints) = n
    BY <2>1, <2>6 DEF Measured
  <2>8. Len(hints) <= 10 BY <2>7
  <2>9. Size(hints) <= CausesSize - 1 BY <2>2, <2>7, <1>3
  <2>10. \A i \in 1 .. Len(hints) : hints[i].section = "causes" /\ hints[i].len <= n
    BY <2>7 DEF AllOf
  <2>11. hints \in Text BY <2>7 DEF AllOf
  <2> QED BY <2>2, <2>3, <2>8, <2>9, <2>10, <2>11 DEF hints
<1> QED BY <1>4, <1>5

(* The sections of a report, as long as they can be.                         *)
LEMMA HeadingMeasured ==
    ASSUME NEW r
    PROVE  \E z \in Nat : z <= 36 /\ Measured(Heading(r), "title", 78, 2, z)
<1> DEFINE n == IF r.passes_run = 1 THEN 33 ELSE 35
<1>1. Heading(r) = Line("title", n) \o Line("title", 1) BY DEF Heading
<1>2. n \in Nat /\ 0 < n /\ n <= 35 OBVIOUS
<1> HIDE DEF n
<1>3. "title" \in SectionNames /\ 78 \in Nat /\ n <= 78 /\ 1 \in Nat /\ 0 < 1 /\ 1 <= 78
  BY <1>2 DEF SectionNames
<1>4. Measured(Line("title", n), "title", 78, 1, n) BY <1>2, <1>3, MeasuredLine
<1>5. Measured(Line("title", 1), "title", 78, 1, 1) BY <1>3, MeasuredLine
<1>6. Measured(Heading(r), "title", 78, 1 + 1, n + 1) BY <1>1, <1>4, <1>5, MeasuredJoin, Zenon
<1>7. 1 + 1 = 2 /\ n + 1 \in Nat /\ n + 1 <= 36 BY <1>2
<1> QED BY <1>6, <1>7, Zenon

(* A greater width does as well.                                            *)
LEMMA WiderStill ==
    ASSUME NEW a, NEW section, NEW w \in Nat, NEW v \in Nat, w <= v, AllOf(a, section, w)
    PROVE  AllOf(a, section, v)
<1>1. \A i \in 1 .. Len(a) : a[i].len \in Nat /\ a[i].len <= w BY TextType DEF AllOf
<1>2. \A i \in 1 .. Len(a) : a[i].len <= v BY <1>1
<1> QED BY <1>2 DEF AllOf

(* The causes with their heading.                                           *)
LEMMA CausesBounded ==
    ASSUME NEW r, ResultOK(r)
    PROVE  /\ \E w \in Nat : /\ ~Faultless(r) => w <= 78
                             /\ AllOf(CauseLines(r), "causes", w)
           /\ Len(CauseLines(r)) <= 12
           /\ Size(CauseLines(r)) <= CausesSize + 47
<1> DEFINE hints == possible_causes(r)
           list == Listed(hints)
           a == Line("causes", 17)
           b == Line("causes", 1)
<1>1. PICK w \in Nat :
        /\ hints \in Text /\ Len(hints) <= 10 /\ Size(hints) <= CausesSize - 1
        /\ ~Faultless(r) => w <= 70
        /\ \A i \in 1 .. Len(hints) : hints[i].section = "causes" /\ hints[i].len <= w
  BY HintsBounded
<1>2. CauseLines(r) = a \o list \o b BY DEF CauseLines
<1> HIDE DEF hints
<1>3. /\ AllOf(list, "causes", w + 3) /\ Len(list) = Len(hints)
      /\ Size(list) <= Size(hints) + Times(3, Len(hints))
  BY <1>1, ListedText
<1> HIDE DEF list
<1> DEFINE v == IF w + 3 > 17 THEN w + 3 ELSE 17
<1>4. /\ v \in Nat /\ w + 3 \in Nat /\ w + 3 <= v /\ 17 <= v /\ 1 <= v
      /\ 17 \in Nat /\ 1 \in Nat /\ 0 < 17 /\ 0 < 1
      /\ w <= 70 => v <= 78
  OBVIOUS
<1> HIDE DEF v
<1>5. AllOf(list, "causes", v) BY <1>3, <1>4, WiderStill, Zenon
<1>6. "causes" \in SectionNames BY DEF SectionNames
<1>7. Measured(a, "causes", v, 1, 17) BY <1>4, <1>6, MeasuredLine, Zenon
<1>8. Measured(b, "causes", v, 1, 1) BY <1>4, <1>6, MeasuredLine, Zenon
<1>9. Measured(list, "causes", v, Len(list), Size(list)) BY <1>5 DEF Measured
<1> HIDE DEF a, b
<1>10. Measured(CauseLines(r), "causes", v, 1 + Len(list) + 1, 17 + Size(list) + 1)
  <2>1. Measured(a \o list, "causes", v, 1 + Len(list), 17 + Size(list))
    BY <1>7, <1>9, MeasuredJoin, Zenon
  <2> QED BY <2>1, <1>2, <1>8, MeasuredJoin, Zenon
<1>11. PICK n \in Nat : n = Len(hints) BY <1>1, TextType
<1>12. PICK z \in Nat : z = Size(hints)
  <2>1. Len(hints) \in 0 .. Len(hints) BY <1>11
  <2> QED BY <2>1, <1>1, OffsetsGrow DEF Size
<1>13. PICK y \in Nat : y = Size(list)
  <2>1. Len(list) \in 0 .. Len(list) BY <1>3, <1>11
  <2> QED BY <2>1, <1>3, OffsetsGrow DEF Size, AllOf
<1>14. Times(3, n) = 3 * n BY DEF Times
<1>15. n <= 10 /\ z <= CausesSize - 1 /\ y <= z + 3 * n
  BY <1>1, <1>3, <1>11, <1>12, <1>13, <1>14
<1>16. 1 + n + 1 <= 12 /\ 17 + y + 1 <= CausesSize + 47
  BY <1>15, SizeAssumption
<1>17. Len(CauseLines(r)) = 1 + n + 1 /\ Size(CauseLines(r)) = 17 + y + 1
  BY <1>10, <1>3, <1>11, <1>13 DEF Measured
<1>18. AllOf(CauseLines(r), "causes", v) /\ (~Faultless(r) => v <= 78)
  BY <1>1, <1>4, <1>10 DEF Measured
<1> QED BY <1>4, <1>16, <1>17, <1>18

(* The integrity section.                                                   *)
LEMMA IntegrityMeasured ==
    ASSUME NEW r, ResultOK(r)
    PROVE  \E n, z \in Nat : /\ n <= 6 /\ z <= 199
                             /\ Measured(IntegrityLines(r), "integrity", 78, n, z)
<1> DEFINE hi == Present(r.stuck_data_hi)
           lo == Present(r.stuck_data_lo)
           ad == Present(r.stuck_addr)
           un == r.bus_undriven
           cp == Present(r.cp_failed)
           nh == Names(r.stuck_data_hi)
           nl == Names(r.stuck_data_lo)
           na == Names(r.stuck_addr)
           t1 == LineIf(hi, "integrity", 17 + nh)
           t2 == t1 \o LineIf(lo, "integrity", 16 + nl)
           t3 == t2 \o LineIf(ad, "integrity", 12 + na)
           t4 == t3 \o LineIf(un, "integrity", 26)
           problems == t4 \o LineIf(cp, "integrity", 36)
           reads == 24 + ReadsDigits
           rest == IF problems = << >> THEN Line("integrity", 5) ELSE problems
           z1 == Part(hi, 17 + nh)
           z2 == z1 + Part(lo, 16 + nl)
           z3 == z2 + Part(ad, 12 + na)
           z4 == z3 + Part(un, 26)
           z5 == z4 + Part(cp, 36)
           n1 == If(hi)
           n2 == n1 + If(lo)
           n3 == n2 + If(ad)
           n4 == n3 + If(un)
           n5 == n4 + If(cp)
<1>1. IntegrityLines(r) = Line("integrity", reads) \o rest
  BY DEF IntegrityLines, Present
<1>2. nh \in Nat /\ nl \in Nat /\ nh + nl <= 24 /\ na \in Nat /\ na <= 36
  BY NamesOfData, NamesOfAddr DEF ResultOK
<1>3. hi \in BOOLEAN /\ lo \in BOOLEAN /\ ad \in BOOLEAN /\ un \in BOOLEAN /\ cp \in BOOLEAN
  BY DEF Present, ResultOK
<1> HIDE DEF hi, lo, ad, un, cp, nh, nl, na
<1>4. "integrity" \in SectionNames /\ 78 \in Nat BY DEF SectionNames
<1>5. \A t, la, za : Measured(t, "integrity", 78, la, za) =>
         \A p \in BOOLEAN : \A n \in Nat : 0 < n /\ n <= 78 =>
            Measured(t \o LineIf(p, "integrity", n), "integrity", 78,
                     la + If(p), za + Part(p, n))
  BY <1>4, MeasuredMore, Zenon
<1>6. /\ 17 + nh \in Nat /\ 0 < 17 + nh /\ 17 + nh <= 78
      /\ 16 + nl \in Nat /\ 0 < 16 + nl /\ 16 + nl <= 78
      /\ 12 + na \in Nat /\ 0 < 12 + na /\ 12 + na <= 78
      /\ 26 \in Nat /\ 0 < 26 /\ 26 <= 78 /\ 36 \in Nat /\ 0 < 36 /\ 36 <= 78
      /\ 5 \in Nat /\ 0 < 5 /\ 5 <= 78
  BY <1>2
<1>7. n5 \in 0 .. 5 /\ z5 \in Nat /\ z5 <= 167 BY <1>2, <1>3 DEF If, Part
<1>8. reads \in Nat /\ 0 < reads /\ reads <= 78 /\ reads = 32 BY DEF ReadsDigits
<1> HIDE DEF z1, n1, t1, reads
<1>9. Measured(t1, "integrity", 78, n1, z1)
  BY <1>3, <1>4, <1>6, MeasuredIf, Zenon DEF t1, n1, z1
<1>10. Measured(t2, "integrity", 78, n2, z2) BY <1>3, <1>5, <1>6, <1>9, Zenon
<1> HIDE DEF t2, n2, z2
<1>11. Measured(t3, "integrity", 78, n3, z3) BY <1>3, <1>5, <1>6, <1>10, Zenon
<1> HIDE DEF t3, n3, z3
<1>12. Measured(t4, "integrity", 78, n4, z4) BY <1>3, <1>5, <1>6, <1>11, Zenon
<1> HIDE DEF t4, n4, z4
<1>13. Measured(problems, "integrity", 78, n5, z5) BY <1>3, <1>5, <1>6, <1>12, Zenon
<1> HIDE DEF problems, n5, z5
<1>14. Measured(Line("integrity", reads), "integrity", 78, 1, reads)
  BY <1>4, <1>8, MeasuredLine, Zenon
<1>15. \E n, z \in Nat : n <= 5 /\ z <= 167 /\ Measured(rest, "integrity", 78, n, z)
  <2>1. CASE problems = << >>
    <3>1. Measured(rest, "integrity", 78, 1, 5) BY <2>1, <1>4, <1>6, MeasuredLine, Zenon
    <3>2. 1 \in Nat /\ 5 \in Nat /\ 1 <= 5 /\ 5 <= 167 OBVIOUS
    <3> QED BY <3>1, <3>2, Zenon
  <2>2. CASE problems # << >>
    <3>1. n5 \in Nat /\ n5 <= 5 BY <1>7
    <3> QED BY <2>2, <3>1, <1>7, <1>13, Zenon
  <2> QED BY <2>1, <2>2
<1>16. PICK n, z \in Nat : n <= 5 /\ z <= 167 /\ Measured(rest, "integrity", 78, n, z)
  BY <1>15
<1> HIDE DEF rest
<1>17. Measured(IntegrityLines(r), "integrity", 78, 1 + n, reads + z)
  BY <1>1, <1>14, <1>16, MeasuredJoin, Zenon
<1>18. 1 + n \in Nat /\ reads + z \in Nat /\ 1 + n <= 6 /\ reads + z <= 199 BY <1>8, <1>16
<1> QED BY <1>17, <1>18, Zenon

AnomalyPart(r, i) == Part(Order[i] \in r.anomaly_flags, 3 + NameSize[Order[i]])

(* The anomalies.                                                           *)
LEMMA AnomaliesMeasured ==
    ASSUME NEW r
    PROVE  \E n, z \in Nat : /\ n <= 6 /\ z <= 86
                             /\ Measured(AnomalyLines(r), "anomalies", 78, n, z)
<1> DEFINE some == Present(r.anomaly_flags)
           t0 == LineIf(some, "anomalies", 11)
           n == If(some) + Flag(r, 1) + Flag(r, 2) + Flag(r, 3) + Flag(r, 4) + Flag(r, 5)
           z == Part(some, 11) + AnomalyPart(r, 1) + AnomalyPart(r, 2) + AnomalyPart(r, 3)
                + AnomalyPart(r, 4) + AnomalyPart(r, 5)
<1>1. AnomalyLines(r) = t0 \o Anomaly(r, 1) \o Anomaly(r, 2) \o Anomaly(r, 3)
                        \o Anomaly(r, 4) \o Anomaly(r, 5)
  BY DEF AnomalyLines, Present
<1>2. some \in BOOLEAN BY DEF Present
<1>3. n \in Nat /\ n <= 6 BY SMT DEF Flag, If
<1>4. z \in Nat /\ z <= 86 BY OrderIs, SMT DEF AnomalyPart, Part
<1> HIDE DEF some
<1>5. "anomalies" \in SectionNames /\ 78 \in Nat /\ 11 \in Nat /\ 0 < 11 /\ 11 <= 78
  BY DEF SectionNames
<1>6. \A p \in BOOLEAN : \A k \in Nat : 0 < k /\ k <= 78 =>
          Measured(LineIf(p, "anomalies", k), "anomalies", 78, If(p), Part(p, k))
  BY <1>5, MeasuredIf
<1>7. ASSUME NEW i \in 1 .. 5
      PROVE  Measured(Anomaly(r, i), "anomalies", 78, Flag(r, i), AnomalyPart(r, i))
  <2>1. 3 + NameSize[Order[i]] \in Nat /\ 0 < 3 + NameSize[Order[i]]
        /\ 3 + NameSize[Order[i]] <= 78
    BY OrderIs
  <2>2. (Order[i] \in r.anomaly_flags) \in BOOLEAN OBVIOUS
  <2> QED BY <1>6, <2>1, <2>2, Zenon DEF Anomaly, Flag, AnomalyPart
<1>8. 1 \in 1 .. 5 /\ 2 \in 1 .. 5 /\ 3 \in 1 .. 5 /\ 4 \in 1 .. 5 /\ 5 \in 1 .. 5
  OBVIOUS
<1>9. Measured(t0, "anomalies", 78, If(some), Part(some, 11)) BY <1>2, <1>5, <1>6, Zenon
<1>10. /\ Measured(Anomaly(r, 1), "anomalies", 78, Flag(r, 1), AnomalyPart(r, 1))
       /\ Measured(Anomaly(r, 2), "anomalies", 78, Flag(r, 2), AnomalyPart(r, 2))
       /\ Measured(Anomaly(r, 3), "anomalies", 78, Flag(r, 3), AnomalyPart(r, 3))
       /\ Measured(Anomaly(r, 4), "anomalies", 78, Flag(r, 4), AnomalyPart(r, 4))
       /\ Measured(Anomaly(r, 5), "anomalies", 78, Flag(r, 5), AnomalyPart(r, 5))
  BY <1>7, <1>8, Zenon
<1> HIDE DEF t0
<1>11. Measured(t0 \o Anomaly(r, 1) \o Anomaly(r, 2), "anomalies", 78,
                If(some) + Flag(r, 1) + Flag(r, 2),
                Part(some, 11) + AnomalyPart(r, 1) + AnomalyPart(r, 2))
  BY <1>9, <1>10, MeasuredJoin, ZenonT(30)
<1>12. Measured(AnomalyLines(r), "anomalies", 78, n, z)
  BY <1>1, <1>10, <1>11, MeasuredJoin, ZenonT(30)
<1> QED BY <1>3, <1>4, <1>12, Zenon

(* The list of the phases, which may be cut.                                 *)
LEMMA PhasesListed ==
    ASSUME NEW r
    PROVE  AllOf(PhaseLines(r), "phases", 40)
<1> DEFINE next == first_missing(r.phase_flags)
           n == 21 + IF next = NPhases THEN 8 ELSE FullName[next + 1]
           len(i) == ShortName[i] + 5 + StatusSize(phase_status_of(r.phase_flags, i - 1))
           l(i) == [section |-> "phases", whole |-> TRUE, len |-> len(i)]
           list == [i \in 1 .. NPhases |-> l(i)]
<1>1. PhaseLines(r) = Line("phases", 1) \o Line("phases", n) \o Line("phases", 8)
                      \o list \o Line("phases", 33)
  BY DEF PhaseLines
<1>2. n \in Nat /\ 0 < n /\ n <= 40
  <2>1. CASE next = NPhases BY <2>1
  <2>2. CASE next # NPhases
    <3>1. next \in Phases BY <2>2, FirstMissing
    <3>2. FullName[next + 1] \in Nat /\ 0 < FullName[next + 1] /\ FullName[next + 1] <= 19
      BY <3>1, ShortNames
    <3> HIDE DEF next
    <3> QED BY <2>2, <3>2
  <2> QED BY <2>1, <2>2
<1>3. ASSUME NEW i \in 1 .. NPhases PROVE len(i) \in Nat /\ 0 < len(i) /\ len(i) <= 40
  <2>1. i - 1 \in Phases /\ (i - 1) + 1 = i BY PassAssumption DEF Phases
  <2>2. ShortName[i] \in Nat /\ 0 < ShortName[i] /\ ShortName[i] <= 15
    BY <2>1, ShortNames
  <2>3. StatusSize(phase_status_of(r.phase_flags, i - 1)) \in {2, 7} BY DEF StatusSize
  <2> QED BY <2>2, <2>3
<1> HIDE DEF n, len
<1>4. \A i \in 1 .. NPhases : /\ l(i) \in LineRec /\ l(i).section = "phases"
                              /\ l(i).whole = TRUE /\ l(i).len <= 40
  BY <1>3 DEF LineRec, SectionNames
<1> HIDE DEF l
<1>5. NPhases \in Nat BY PassAssumption
<1>6. list \in [1 .. NPhases -> LineRec] BY <1>4
<1>7. list \in Text /\ Len(list) = NPhases BY <1>5, <1>6 DEF Text
<1>8. \A i \in 1 .. NPhases : list[i] = l(i) OBVIOUS
<1> HIDE DEF list
<1>9. AllOf(list, "phases", 40) BY <1>4, <1>7, <1>8 DEF AllOf
<1>10. Measured(list, "phases", 40, Len(list), Size(list)) BY <1>9 DEF Measured
<1>11. "phases" \in SectionNames /\ 40 \in Nat /\ 1 \in Nat /\ 0 < 1 /\ 1 <= 40
       /\ 8 \in Nat /\ 0 < 8 /\ 8 <= 40 /\ 33 \in Nat /\ 0 < 33 /\ 33 <= 40
  BY DEF SectionNames
<1>12. /\ Measured(Line("phases", 1), "phases", 40, 1, 1)
       /\ Measured(Line("phases", n), "phases", 40, 1, n)
       /\ Measured(Line("phases", 8), "phases", 40, 1, 8)
       /\ Measured(Line("phases", 33), "phases", 40, 1, 33)
  BY <1>2, <1>11, MeasuredLine, Zenon
<1>13. Measured(PhaseLines(r), "phases", 40, 1 + 1 + 1 + Len(list) + 1,
                1 + n + 8 + Size(list) + 33)
  BY <1>1, <1>10, <1>12, MeasuredJoin, Zenon
<1> QED BY <1>13 DEF Measured

(* The lines of a section stand together, after the first o lines, and are   *)
(* whole and not too wide.                                                   *)
Placed(text, section, width, o, n) ==
    /\ text \in Text /\ o \in Nat /\ n \in Nat /\ o + n <= Len(text)
    /\ \A i \in 1 .. Len(text) :
          /\ text[i].section = section <=> o + 1 <= i /\ i <= o + n
          /\ text[i].section = section => text[i].whole = TRUE /\ text[i].len <= width

(* A text of another section has none of them.                               *)
LEMMA PlacedNowhere ==
    ASSUME NEW a, NEW section, NEW width, NEW other, NEW v,
           other # section, AllOf(a, other, v)
    PROVE  Placed(a, section, width, 0, 0)
<1>1. Len(a) \in Nat BY TextType DEF AllOf
<1>2. \A i \in 1 .. Len(a) : a[i].section # section BY DEF AllOf
<1>3. \A i \in 1 .. Len(a) : ~(0 + 1 <= i /\ i <= 0 + 0) BY <1>1
<1>4. 0 \in Nat /\ 0 + 0 <= Len(a) BY <1>1
<1> QED BY <1>2, <1>3, <1>4 DEF Placed, AllOf

(* A text of another section after them changes nothing.                     *)
LEMMA PlacedBefore ==
    ASSUME NEW a, NEW b, NEW section, NEW width, NEW o, NEW n, NEW other, NEW v,
           other # section, Placed(a, section, width, o, n), AllOf(b, other, v)
    PROVE  Placed(a \o b, section, width, o, n)
<1>1. a \in Text /\ b \in Text /\ o \in Nat /\ n \in Nat /\ o + n <= Len(a)
  BY DEF Placed, AllOf
<1>2. /\ a \o b \in Text
      /\ Len(a \o b) = Len(a) + Len(b)
      /\ \A i \in 1 .. Len(a) : (a \o b)[i] = a[i]
      /\ \A i \in 1 .. Len(b) : (a \o b)[Len(a) + i] = b[i]
  BY <1>1, JoinedText
<1>3. Len(a) \in Nat /\ Len(b) \in Nat BY <1>1, TextType
<1>4. ASSUME NEW i \in 1 .. Len(a \o b)
      PROVE  LET l == (a \o b)[i] IN
             /\ l.section = section <=> o + 1 <= i /\ i <= o + n
             /\ l.section = section => l.whole = TRUE /\ l.len <= width
  <2>1. CASE i <= Len(a)
    <3>1. i \in 1 .. Len(a) /\ (a \o b)[i] = a[i] BY <2>1, <1>2
    <3> QED BY <3>1 DEF Placed
  <2>2. CASE ~(i <= Len(a))
    <3>1. i - Len(a) \in 1 .. Len(b) /\ Len(a) + (i - Len(a)) = i BY <2>2, <1>2, <1>3
    <3>2. (a \o b)[i] = b[i - Len(a)] BY <3>1, <1>2
    <3>3. (a \o b)[i].section = other BY <3>1, <3>2 DEF AllOf
    <3>4. ~(i <= o + n) BY <2>2, <1>1, <1>3
    <3> QED BY <3>3, <3>4
  <2> QED BY <2>1, <2>2
<1>5. o + n <= Len(a \o b) BY <1>1, <1>2, <1>3
<1> QED BY <1>1, <1>2, <1>4, <1>5 DEF Placed

(* They come after a text that has none of them.                             *)
LEMMA PlacedAfter ==
    ASSUME NEW a, NEW b, NEW section, NEW width,
           Placed(a, section, width, 0, 0), AllOf(b, section, width)
    PROVE  Placed(a \o b, section, width, Len(a), Len(b))
<1>1. a \in Text /\ b \in Text BY DEF Placed, AllOf
<1>2. /\ a \o b \in Text
      /\ Len(a \o b) = Len(a) + Len(b)
      /\ \A i \in 1 .. Len(a) : (a \o b)[i] = a[i]
      /\ \A i \in 1 .. Len(b) : (a \o b)[Len(a) + i] = b[i]
  BY <1>1, JoinedText
<1>3. Len(a) \in Nat /\ Len(b) \in Nat BY <1>1, TextType
<1>4. ASSUME NEW i \in 1 .. Len(a \o b)
      PROVE  LET l == (a \o b)[i] IN
             /\ l.section = section <=> Len(a) + 1 <= i /\ i <= Len(a) + Len(b)
             /\ l.section = section => l.whole = TRUE /\ l.len <= width
  <2>1. CASE i <= Len(a)
    <3>1. i \in 1 .. Len(a) /\ (a \o b)[i] = a[i] BY <2>1, <1>2
    <3>2. ~(0 + 1 <= i /\ i <= 0 + 0) /\ ~(Len(a) + 1 <= i) BY <2>1, <1>3
    <3>3. a[i].section # section BY <3>1, <3>2 DEF Placed
    <3> QED BY <3>1, <3>2, <3>3
  <2>2. CASE ~(i <= Len(a))
    <3>1. i - Len(a) \in 1 .. Len(b) /\ Len(a) + (i - Len(a)) = i BY <2>2, <1>2, <1>3
    <3>2. (a \o b)[i] = b[i - Len(a)] BY <3>1, <1>2
    <3>3. Len(a) + 1 <= i /\ i <= Len(a) + Len(b) BY <2>2, <1>2, <1>3
    <3> QED BY <3>1, <3>2, <3>3 DEF AllOf
  <2> QED BY <2>1, <2>2
<1>5. Len(a) + Len(b) <= Len(a \o b) BY <1>2, <1>3
<1> QED BY <1>2, <1>3, <1>4, <1>5 DEF Placed


(* What the console shows of a report that begins with these lines.          *)
LEMMA PrintedCount ==
    ASSUME NEW r, NEW head \in Text, NEW tail,
           Sections(r) = head \o tail, AllOf(tail, "phases", 40),
           Size(head) < ReportSize, Len(head) <= 26,
           NEW section, section # "phases", section # "title",
           NEW o, NEW n, Placed(head, section, 78, o, n)
    PROVE  Count(Printed(r), section) = n
<1> DEFINE text == head \o tail
           fits == Fits(text, ReportSize)
           copy == Copied(fits)
           title == Line("title", 79)
           all == title \o copy
           k == IF Len(all) < RingLines THEN Len(all) ELSE RingLines
           printed == SubSeq(all, 1, k)
           m == Len(head)
<1>0. tail \in Text BY DEF AllOf
<1>1. /\ text \in Text
      /\ Len(text) = Len(head) + Len(tail)
      /\ \A i \in 1 .. Len(head) : text[i] = head[i]
      /\ \A i \in 1 .. Len(tail) : text[Len(head) + i] = tail[i]
      /\ \A i \in 0 .. Len(head) : Offsets(text)[i] = Offsets(head)[i]
  BY <1>0, JoinedText, JoinedOffsets
<1>2. Len(head) \in Nat /\ Len(tail) \in Nat BY <1>0, TextType
<1>3. ReportSize \in Nat /\ ReportSize > 0 /\ RingLines \in Nat /\ RingLines >= 31
      /\ LineSize \in Nat /\ LineSize >= 80
  BY SizeAssumption
<1>4. \A i \in 0 .. Len(head) :
          Offsets(head)[i] \in Nat /\ Offsets(head)[i] <= Size(head)
  BY <1>2, OffsetsGrow DEF Size
<1>5. Size(head) \in Nat /\ Size(head) <= ReportSize - 1
  <2>1. Size(head) \in Nat BY <1>2, OffsetsGrow DEF Size
  <2> QED BY <2>1, <1>3
<1>6. Printed(r) = printed BY DEF Printed, format_report
<1> HIDE DEF text
<1>7. /\ fits \in Text /\ Len(fits) <= Len(text)
      /\ \A i \in 1 .. Len(fits) : fits[i].section = text[i].section
      /\ \A i \in 1 .. Len(text) :
            Offsets(text)[i] <= ReportSize - 1 => i <= Len(fits) /\ fits[i] = text[i]
  BY <1>1, <1>3, FittedText
<1> HIDE DEF fits, m
<1>8. Len(fits) \in Nat BY <1>7, TextType
<1>9. ASSUME NEW i \in 1 .. m PROVE i <= Len(fits) /\ fits[i] = head[i]
  <2>1. i \in 0 .. Len(head) /\ i \in 1 .. Len(text) /\ i \in 1 .. Len(head)
    BY <1>1, <1>2 DEF m
  <2>2. Offsets(text)[i] <= ReportSize - 1 BY <2>1, <1>1, <1>3, <1>4, <1>5
  <2> QED BY <2>1, <2>2, <1>1, <1>7
<1>10. m \in Nat /\ m <= 26 /\ m <= Len(fits)
  <2>1. m = 0 \/ m \in 1 .. m BY <1>2 DEF m
  <2> QED BY <2>1, <1>2, <1>8, <1>9 DEF m
<1>11. ASSUME NEW i \in 1 .. Len(fits), m < i PROVE fits[i].section = "phases"
  <2>1. i - m \in 1 .. Len(tail) /\ m + (i - m) = i
    BY <1>1, <1>2, <1>7, <1>8, <1>11 DEF m
  <2>2. text[i] = tail[i - m] BY <2>1, <1>1 DEF m
  <2> QED BY <2>1, <2>2, <1>7 DEF AllOf
<1>12. \A l \in LineRec : /\ Clipped(l) \in LineRec /\ Clipped(l).section = l.section
                          /\ l.len < LineSize - 1 => Clipped(l) = l
  <2> SUFFICES ASSUME NEW l \in LineRec
               PROVE  Clipped(l) \in LineRec /\ Clipped(l).section = l.section
                      /\ (l.len < LineSize - 1 => Clipped(l) = l)
    OBVIOUS
  <2>1. CASE l.len < LineSize - 1
    <3>1. Clipped(l) = l BY <2>1 DEF Clipped
    <3> QED BY <3>1
  <2>2. CASE ~(l.len < LineSize - 1)
    <3>1. PICK x \in Nat \ {0} : x = LineSize - 2 BY <1>3
    <3>2. Clipped(l) = [l EXCEPT !.len = x, !.whole = FALSE] BY <2>2, <3>1 DEF Clipped
    <3>3. Clipped(l) \in LineRec /\ Clipped(l).section = l.section
      BY <3>2 DEF LineRec
    <3> QED BY <2>2, <3>3
  <2> QED BY <2>1, <2>2
<1>13. DOMAIN fits = 1 .. Len(fits) /\ \A i \in 1 .. Len(fits) : fits[i] \in LineRec
  BY <1>7, TextType
<1>14. copy = [i \in 1 .. Len(fits) |-> Clipped(fits[i])] BY <1>13 DEF Copied
<1> HIDE DEF copy
<1>15. copy \in [1 .. Len(fits) -> LineRec] BY <1>12, <1>13, <1>14
<1>16. copy \in Text /\ Len(copy) = Len(fits)
  <2>1. PICK c \in Nat : c = Len(fits) BY <1>8
  <2>2. copy \in [1 .. c -> LineRec] BY <1>15, <2>1
  <2>3. copy \in Seq(LineRec) /\ Len(copy) = c BY <2>2
  <2> QED BY <2>1, <2>3 DEF Text
<1>17. \A i \in 1 .. Len(fits) : copy[i] = Clipped(fits[i]) BY <1>14
<1>18. title \in Text /\ Len(title) = 1 /\ title[1].section = "title"
  <2>1. "title" \in SectionNames /\ 79 \in Nat /\ 0 < 79 /\ 79 <= 79 BY DEF SectionNames
  <2>2. Measured(title, "title", 79, 1, 79) BY <2>1, MeasuredLine, Zenon
  <2> HIDE DEF title
  <2>3. 1 \in 1 .. 1 OBVIOUS
  <2> QED BY <2>2, <2>3 DEF Measured, AllOf
<1> HIDE DEF title
<1>19. /\ all \in Text /\ Len(all) = 1 + Len(fits)
       /\ \A i \in 1 .. Len(title) : all[i] = title[i]
       /\ \A i \in 1 .. Len(copy) : all[Len(title) + i] = copy[i]
  <2>1. /\ all \in Text /\ Len(all) = Len(title) + Len(copy)
        /\ \A i \in 1 .. Len(title) : all[i] = title[i]
        /\ \A i \in 1 .. Len(copy) : all[Len(title) + i] = copy[i]
    BY <1>16, <1>18, JoinedText
  <2> QED BY <2>1, <1>16, <1>18
<1> HIDE DEF all
<1>20. all[1].section = "title" /\ \A i \in 1 .. Len(fits) : all[1 + i] = Clipped(fits[i])
  <2>1. 1 \in 1 .. 1 OBVIOUS
  <2> QED BY <2>1, <1>16, <1>17, <1>18, <1>19
<1>21. k \in Nat /\ k <= Len(all) /\ m + 1 <= k BY <1>3, <1>8, <1>10, <1>19
<1> HIDE DEF k
<1>22. Len(printed) = k /\ DOMAIN printed = 1 .. k /\ \A i \in 1 .. k : printed[i] = all[i]
  <2>1. \A i \in 1 .. k : i \in 1 .. Len(all) BY <1>21, <1>19, <1>8
  <2>2. \A i \in 1 .. k : all[i] \in LineRec BY <2>1, <1>19, TextType
  <2>3. 1 \in Int /\ k \in Int BY <1>21
  <2>4. /\ printed \in Seq(LineRec)
        /\ Len(printed) = IF 1 <= k THEN k - 1 + 1 ELSE 0
        /\ \A i \in 1 .. k - 1 + 1 : printed[i] = all[1 + i - 1]
    BY <2>2, <2>3, SubSeqProperties
  <2> HIDE DEF printed
  <2>5. Len(printed) = k BY <2>4, <1>21
  <2>6. DOMAIN printed = 1 .. k BY <2>4, <2>5
  <2>7. \A i \in 1 .. k : i \in 1 .. k - 1 + 1 /\ 1 + i - 1 = i BY <1>21
  <2> QED BY <2>4, <2>5, <2>6, <2>7
<1> HIDE DEF printed
<1>23. o \in Nat /\ n \in Nat /\ o + n <= m BY DEF Placed, m
<1>24. ASSUME NEW i \in 1 .. k
       PROVE  printed[i].section = section /\ printed[i].whole <=> i \in o + 2 .. o + n + 1
  <2>1. CASE i = 1 BY <2>1, <1>20, <1>22, <1>23
  <2>2. CASE i # 1 /\ i - 1 <= m
    <3> DEFINE j == i - 1
    <3>1. j \in 1 .. m /\ j \in 1 .. Len(fits) /\ 1 + j = i BY <2>2, <1>10, <1>8
    <3> HIDE DEF j
    <3>2. printed[i] = Clipped(head[j]) BY <3>1, <1>9, <1>20, <1>22
    <3>3. head[j] \in LineRec /\ head[j].len \in Nat BY <3>1, TextType DEF m
    <3>4. /\ head[j].section = section <=> o + 1 <= j /\ j <= o + n
          /\ head[j].section = section => head[j].whole = TRUE /\ head[j].len <= 78
      BY <3>1 DEF Placed, m
    <3>5. CASE head[j].section = section
      <4>1. head[j].len < LineSize - 1 BY <3>3, <3>4, <3>5, <1>3
      <4>2. printed[i] = head[j] BY <4>1, <3>2, <3>3, <1>12
      <4>3. o + 1 <= j /\ j <= o + n BY <3>4, <3>5
      <4>4. i \in o + 2 .. o + n + 1 BY <4>3, <3>1, <1>23
      <4> QED BY <4>2, <4>4, <3>4, <3>5
    <3>6. CASE head[j].section # section
      <4>1. printed[i].section # section BY <3>2, <3>3, <3>6, <1>12
      <4>2. ~(o + 1 <= j /\ j <= o + n) BY <3>4, <3>6
      <4>3. i \notin o + 2 .. o + n + 1 BY <4>2, <3>1, <1>23
      <4> QED BY <4>1, <4>3
    <3> QED BY <3>5, <3>6
  <2>3. CASE ~(i - 1 <= m)
    <3> DEFINE j == i - 1
    <3>1. j \in 1 .. Len(fits) /\ m < j /\ 1 + j = i BY <2>3, <1>10, <1>8, <1>19, <1>21
    <3> HIDE DEF j
    <3>2. printed[i] = Clipped(fits[j]) BY <3>1, <1>20, <1>22
    <3>3. printed[i].section = "phases" BY <3>1, <3>2, <1>11, <1>12, <1>13
    <3>4. i \notin o + 2 .. o + n + 1 BY <3>1, <1>10, <1>23
    <3> QED BY <3>3, <3>4
  <2> QED BY <2>1, <2>2, <2>3
<1>25. {i \in DOMAIN printed : printed[i].section = section /\ printed[i].whole}
         = o + 2 .. o + n + 1
  <2>1. \A i \in o + 2 .. o + n + 1 : i \in 1 .. k BY <1>10, <1>21, <1>23
  <2> QED BY <2>1, <1>22, <1>24
<1>26. Cardinality(o + 2 .. o + n + 1) = n
  <2>1. CASE n = 0
    <3>1. o + 2 .. o + n + 1 = {} BY <2>1, <1>23
    <3> QED BY <2>1, <3>1, FS_EmptySet
  <2>2. CASE n # 0
    <3>1. PICK a \in Int, b \in Int : a = o + 2 /\ b = o + n + 1 BY <1>23
    <3>2. a <= b /\ b - a + 1 = n BY <2>2, <3>1, <1>23
    <3> QED BY <3>1, <3>2, IntervalSize
  <2> QED BY <2>1, <2>2
<1> QED BY <1>6, <1>25, <1>26 DEF Count

(* However the result is, the three sections come out complete.              *)
LEMMA SectionsPrinted ==
    ASSUME NEW r, ResultOK(r)
    PROVE  /\ ~Faultless(r) => Count(Printed(r), "causes") = Len(CauseLines(r))
           /\ Count(Printed(r), "integrity") = Len(IntegrityLines(r))
           /\ Count(Printed(r), "anomalies") = Len(AnomalyLines(r))
<1> DEFINE t == Heading(r)
           c == CauseLines(r)
           g == IntegrityLines(r)
           a == AnomalyLines(r)
           tc == t \o c
           tcg == tc \o g
           head == tcg \o a
           tail == PhaseLines(r)
<1>1. PICK zt \in Nat : zt <= 36 /\ Measured(t, "title", 78, 2, zt) BY HeadingMeasured
<1>2. PICK w \in Nat : /\ ~Faultless(r) => w <= 78
                       /\ AllOf(c, "causes", w)
                       /\ Len(c) <= 12 /\ Size(c) <= CausesSize + 47
  BY CausesBounded
<1>3. PICK ng, zg \in Nat : ng <= 6 /\ zg <= 199 /\ Measured(g, "integrity", 78, ng, zg)
  BY IntegrityMeasured
<1>4. PICK na, za \in Nat : na <= 6 /\ za <= 86 /\ Measured(a, "anomalies", 78, na, za)
  BY AnomaliesMeasured
<1>5. AllOf(tail, "phases", 40) BY PhasesListed
<1>6. Sections(r) = head \o tail BY DEF Sections
<1> HIDE DEF t, c, g, a, tail
<1>7. AllOf(t, "title", 78) /\ AllOf(g, "integrity", 78) /\ AllOf(a, "anomalies", 78)
      /\ Len(t) = 2 /\ Len(g) = ng /\ Len(a) = na
      /\ Size(t) = zt /\ Size(g) = zg /\ Size(a) = za
  BY <1>1, <1>3, <1>4 DEF Measured
<1>8. t \in Text /\ c \in Text /\ g \in Text /\ a \in Text BY <1>2, <1>7 DEF AllOf
<1>9. tc \in Text /\ Len(tc) = Len(t) + Len(c) /\ Size(tc) = Size(t) + Size(c)
  BY <1>8, JoinedText, JoinedOffsets
<1> HIDE DEF tc
<1>10. tcg \in Text /\ Len(tcg) = Len(tc) + Len(g) /\ Size(tcg) = Size(tc) + Size(g)
  BY <1>8, <1>9, JoinedText, JoinedOffsets
<1> HIDE DEF tcg
<1>11. head \in Text /\ Len(head) = Len(tcg) + Len(a) /\ Size(head) = Size(tcg) + Size(a)
  BY <1>8, <1>10, JoinedText, JoinedOffsets
<1> HIDE DEF head
<1>12. PICK nc \in Nat : nc = Len(c) BY <1>8, TextType
<1>13. PICK zc \in Nat : zc = Size(c)
  <2>1. Len(c) \in 0 .. Len(c) BY <1>12
  <2> QED BY <2>1, <1>8, OffsetsGrow DEF Size
<1>14. Len(head) = 2 + nc + ng + na /\ Size(head) = zt + zc + zg + za
  BY <1>7, <1>9, <1>10, <1>11, <1>12, <1>13, Zenon
<1>15. Len(head) <= 26 BY <1>14, <1>2, <1>3, <1>4, <1>12
<1>16. Size(head) < ReportSize
  <2>1. CausesSize \in Nat /\ ReportSize \in Nat /\ ReportSize >= CausesSize + 400
    BY SizeAssumption
  <2>2. zc <= CausesSize + 47 BY <1>2, <1>13
  <2>3. zt + zc + zg + za < ReportSize BY <2>1, <2>2, <1>1, <1>3, <1>4
  <2> QED BY <2>3, <1>14
<1>17. \A section, o, n : section # "phases" /\ section # "title"
                          /\ Placed(head, section, 78, o, n) =>
           Count(Printed(r), section) = n
  BY <1>5, <1>6, <1>11, <1>15, <1>16, PrintedCount
<1>18. ASSUME ~Faultless(r) PROVE Count(Printed(r), "causes") = Len(c)
  <2>1. w \in Nat /\ 78 \in Nat /\ w <= 78 /\ AllOf(c, "causes", w) BY <1>2, <1>18
  <2>2. \A v \in Nat : w <= v => AllOf(c, "causes", v) BY <2>1, WiderStill, Zenon
  <2>22. AllOf(c, "causes", 78) BY <2>1, <2>2, Zenon
  <2>3. Placed(t, "causes", 78, 0, 0) BY <1>7, PlacedNowhere
  <2>4. Placed(tc, "causes", 78, Len(t), Len(c)) BY <2>22, <2>3, PlacedAfter DEF tc
  <2>5. Placed(tcg, "causes", 78, Len(t), Len(c)) BY <2>4, <1>7, PlacedBefore DEF tcg
  <2>6. Placed(head, "causes", 78, Len(t), Len(c)) BY <2>5, <1>7, PlacedBefore DEF head
  <2> QED BY <2>6, <1>17
<1>19. Count(Printed(r), "integrity") = Len(g)
  <2>1. Placed(t, "integrity", 78, 0, 0) BY <1>7, PlacedNowhere
  <2>2. Placed(tc, "integrity", 78, 0, 0) BY <2>1, <1>2, PlacedBefore DEF tc
  <2>3. Placed(tcg, "integrity", 78, Len(tc), Len(g)) BY <2>2, <1>7, PlacedAfter DEF tcg
  <2>4. Placed(head, "integrity", 78, Len(tc), Len(g)) BY <2>3, <1>7, PlacedBefore DEF head
  <2> QED BY <2>4, <1>17
<1>20. Count(Printed(r), "anomalies") = Len(a)
  <2>1. Placed(t, "anomalies", 78, 0, 0) BY <1>7, PlacedNowhere
  <2>2. Placed(tc, "anomalies", 78, 0, 0) BY <2>1, <1>2, PlacedBefore DEF tc
  <2>3. Placed(tcg, "anomalies", 78, 0, 0) BY <2>2, <1>7, PlacedBefore DEF tcg
  <2>4. Placed(head, "anomalies", 78, Len(tcg), Len(a)) BY <2>3, <1>7, PlacedAfter DEF head
  <2> QED BY <2>4, <1>17
<1> QED BY <1>18, <1>19, <1>20 DEF c, g, a

(* OnlyPhasesAreCut, of every round of every machine: what buf[800], the      *)
(* lines of cmd_boot and the ring of the console cut off is of the list of   *)
(* phases, except for the hint of a faultless boot (boot_diag.c:100-152,      *)
(* cmd_dispatch.c:114-133).                                                  *)
THEOREM ReportReachesUser == Spec => []OnlyPhasesAreCut
<1>1. Init => CountsMatch
  BY DEF Init, CountsMatch, Fresh
<1>2. IInv /\ CountsMatch => OnlyPhasesAreCut
  BY ResultIsOK, SectionsPrinted DEF OnlyPhasesAreCut
<1> QED BY <1>1, <1>2, InitiallyMatches, StepMatches, StaysCounted, PTL DEF Spec

===============================================================================
