------------------------------- MODULE Diagnosis -------------------------------
(***************************************************************************)
(* What a round of the boot diagnostic makes of a faulty machine: the read   *)
(* stream goes through bus_integrity.c, accumulated over the passes, the     *)
(* probe of every pass through boot_diag_classify_anomalies, and the end of  *)
(* the round freezes both together with the phases (boot_diag.c).  When Core *)
(* 1 feeds, when Core 0 reads and what a result shows while the next round   *)
(* runs is the business of BootRound; here the steps of a pass follow one    *)
(* another.                                                                 *)
(*                                                                          *)
(* The machine under test reads what its program says, over lines that may   *)
(* be stuck.  Faults may change from pass to pass.                          *)
(***************************************************************************)
EXTENDS BusIntegrity, Sequences

CONSTANTS
    MaxPasses,   \* BOOT_DIAG_MAX_PASSES (3)
    NPhases,     \* BP_PHASE_COUNT (9)
    Program,     \* address and data of the reads a healthy machine does
    Faults,      \* lines stuck high and low, of the data and the address bus
    Probes,      \* clock in kHz, levels seen on /RESET and on /WAIT
    Progress,    \* sets of phases a pass may show
    MaxReads     \* bound: reads in a round

ASSUME PassAssumption == MaxPasses \in Nat \ {0} /\ NPhases \in Nat \ {0}
ASSUME BoundAssumption == MaxReads \in Nat

ASSUME ProgramAssumption == Program \subseteq (SUBSET AddrLines) \X (SUBSET DataLines)
FaultSet == [hi : SUBSET DataLines, lo : SUBSET DataLines,
             ahi : SUBSET AddrLines, alo : SUBSET AddrLines]
ASSUME FaultAssumption ==
    \A f \in Faults : f \in FaultSet /\ f.hi \cap f.lo = {} /\ f.ahi \cap f.alo = {}

(* A probe takes many samples in its window: it sees some level on a line.  *)
Levels == (SUBSET {"hi", "lo"}) \ {{}}
ASSUME ProbeAssumption == Probes \subseteq [khz : Nat, reset : Levels, wait : Levels]

VARIABLES
    s_phase,     \* IDLE, PASS (any phase of a pass) or DONE
    s_bi,        \* bus_integrity_t
    s_anom,      \* s_anom_accum
    s_pass,
    phase_flags, \* of boot_detect_get_state()
    fault,       \* how the bus is broken in this pass
    seen,        \* addresses and data the round has read (history)
    broken,      \* the lines stuck in every pass of the round (history)
    noticed      \* the anomalies its passes have shown (history)

vars == <<s_phase, s_bi, s_anom, s_pass, phase_flags, fault, seen, broken,
          noticed>>

Phases    == 0 .. NPhases - 1
Intact    == [hi |-> {}, lo |-> {}, ahi |-> {}, alo |-> {}]

-------------------------------------------------------------------------------
Init ==
    /\ s_phase = "IDLE" /\ s_bi = Fresh /\ s_anom = {} /\ s_pass = 0
    /\ phase_flags = {}
    /\ fault = Intact /\ seen = {} /\ broken = Intact /\ noticed = {}

(* boot_diag_tick, a request in IDLE or DONE.                               *)
KeepIntegrity  == UNCHANGED s_bi
ResetIntegrity == s_bi' = Fresh

StartRound ==
    /\ s_phase # "PASS"
    /\ ResetIntegrity
    /\ s_pass' = 0 /\ s_anom' = {} /\ phase_flags' = {}
    /\ s_phase' = "PASS"
    /\ fault' \in Faults
    /\ seen' = {} /\ broken' = fault' /\ noticed' = {}

(* A read of the machine, as the lines let it through.                      *)
OnBus(r, f) == [A |-> (r[1] \ f.alo) \cup f.ahi, D |-> (r[2] \ f.lo) \cup f.hi]

BusRead ==
    /\ s_phase = "PASS" /\ s_bi.n_reads < MaxReads
    /\ \E r \in Program :
          LET word == OnBus(r, fault)
          IN  /\ s_bi' = Feed(s_bi, word.A, word.D)
              /\ seen' = seen \cup {word}
    /\ UNCHANGED <<s_phase, s_anom, s_pass, phase_flags, fault, broken, noticed>>

(* boot_diag_classify_anomalies.                                            *)
InRange(hz) == 3000000 <= hz /\ hz <= 4000000
Anomalies(hz, reset, wait, events) ==
    (IF hz = 0 THEN {"CLK_ABSENT"}
     ELSE (IF InRange(hz) THEN {} ELSE {"CLK_OUT_OF_RANGE"})
          \cup (IF events = 0 THEN {"NO_BUS_CYCLES"} ELSE {}))
    \cup (IF reset = "IN_RESET" THEN {"RESET_STUCK"} ELSE {})
    \cup (IF wait = "STUCK_LO" THEN {"WAIT_STUCK_LOW"} ELSE {})

PassAnomalies(p) ==
    Anomalies(edges_to_hz(p.khz), reset_status(p.reset, FALSE),
              classify_bit(p.wait), s_bi.n_reads)

LastAnomalies(p) == PassAnomalies(p)
Accumulated(p)   == s_anom \cup PassAnomalies(p)

(* What a pass shows (history).  From 6.55 MHz up the counter of the probe   *)
(* cannot tell a clock from a slower one.                                    *)
AnomalyNames == {"CLK_ABSENT", "CLK_OUT_OF_RANGE", "RESET_STUCK",
                 "NO_BUS_CYCLES", "WAIT_STUCK_LOW"}

Shows(p, a) ==
    \/ a = "CLK_ABSENT"       /\ p.khz = 0
    \/ a = "CLK_OUT_OF_RANGE" /\ p.khz \notin {0} \cup (3000 .. 4000)
    \/ a = "RESET_STUCK"      /\ p.reset = {"lo"}
    \/ a = "WAIT_STUCK_LOW"   /\ p.wait = {"lo"}
    \/ a = "NO_BUS_CYCLES"    /\ p.khz # 0 /\ seen = {}
    \/ a = "BEYOND_COUNTER"   /\ p.khz * 10 > 65535

Common(f, g) == [hi  |-> f.hi \cap g.hi,   lo  |-> f.lo \cap g.lo,
                 ahi |-> f.ahi \cap g.ahi, alo |-> f.alo \cap g.alo]

(* SETTLE: the probe is judged, the phases are those of all passes so far.  *)
EndPass ==
    /\ s_phase = "PASS"
    /\ \E p \in Probes, more \in Progress :
          /\ s_anom' = Accumulated(p)
          /\ s_pass' = s_pass + 1
          /\ phase_flags' = phase_flags \cup more
          /\ noticed' = noticed \cup {a \in AnomalyNames \cup {"BEYOND_COUNTER"} : Shows(p, a)}
          /\ IF Phases \subseteq phase_flags' \/ s_pass' >= MaxPasses
             THEN /\ s_phase' = "DONE"
                  /\ UNCHANGED <<fault, broken>>
             ELSE /\ fault' \in Faults
                  /\ broken' = Common(broken, fault')
                  /\ UNCHANGED s_phase
    /\ UNCHANGED <<s_bi, seen>>

(* freeze_result in the step to DONE; what it reads then stays as it is      *)
(* until the next round, so the result needs no variable of its own.        *)
s_result ==
    [anomaly_flags |-> s_anom,
     stuck_data_hi |-> StuckDataHi(s_bi), stuck_data_lo |-> StuckDataLo(s_bi),
     stuck_addr    |-> StuckAddr(s_bi), bus_undriven |-> BusUndriven(s_bi),
     cp_failed     |-> s_bi.cp_failed, n_reads |-> s_bi.n_reads,
     phase_flags   |-> phase_flags, passes_run |-> s_pass]

(* boot_diag_tick without a request.                                        *)
IdleTick == s_phase # "PASS" /\ UNCHANGED vars

Next == StartRound \/ BusRead \/ EndPass \/ IdleTick
Spec == Init /\ [][Next]_vars

-------------------------------------------------------------------------------
(* Properties.                                                              *)

(* A line stuck through all passes is named with its level, once there were  *)
(* enough reads (and, for an address line, enough movement on the others),   *)
(* and a line that has shown both levels in any pass is never accused.       *)
High(bus, k)      == \E w \in seen : k \in w[bus]
Low(bus, k)       == \E w \in seen : k \notin w[bus]
Toggles(bus, k)   == High(bus, k) /\ Low(bus, k)
AddressesMove     == Cardinality({k \in AddrLines : Toggles("A", k)}) >= MIN_ADDR_BITS
StuckLinesNamed ==
    s_result.n_reads >= MIN_READS =>
        /\ broken.hi \subseteq s_result.stuck_data_hi
        /\ broken.lo \subseteq s_result.stuck_data_lo
        /\ AddressesMove =>
               broken.ahi \cup broken.alo \subseteq s_result.stuck_addr
MovingLinesCleared ==
    /\ \A k \in s_result.stuck_data_hi : ~Low("D", k)
    /\ \A k \in s_result.stuck_data_lo : ~High("D", k)
    /\ \A k \in s_result.stuck_addr : ~Toggles("A", k) /\ AddressesMove
LinesJudged == s_phase = "DONE" => StuckLinesNamed /\ MovingLinesCleared

(* The result holds exactly the anomalies that some pass has shown, unless   *)
(* the clock was beyond the 16-bit counter; a pass without bus cycles counts *)
(* only if no earlier pass of the round had any.                             *)
AnomaliesJudged ==
    s_phase = "DONE" /\ "BEYOND_COUNTER" \notin noticed =>
        s_result.anomaly_flags = noticed

===============================================================================
