----------------------------- MODULE BusIntegrity -----------------------------
(***************************************************************************)
(* The analyzer of the read stream (bus_integrity.c) and the classification  *)
(* of the probe (bus_probe.c), as functions.  A word of the bus is the set   *)
(* of its lines that are high, so that a mask is a set of lines and the or   *)
(* of masks a union.                                                        *)
(***************************************************************************)
EXTENDS Integers, FiniteSets

CONSTANTS
    MIN_READS,      \* BOOT_DIAG_MIN_READS (64)
    MIN_ADDR_BITS   \* BOOT_DIAG_MIN_ADDR_BITS (6)

ASSUME ThresholdAssumption == {MIN_READS, MIN_ADDR_BITS} \subseteq Nat \ {0}

DataLines == 0 .. 7
AddrLines == 0 .. 15
Lines(n)  == {k \in AddrLines : (n \div 2^k) % 2 = 1}   \* the number as a word

(* The first fetches of the Canon V20 BIOS.                                 *)
V20_CHECKPOINTS == <<
    <<Lines(0),     Lines(243)>>,    \* $0000 F3
    <<Lines(1),     Lines(195)>>,    \* $0001 C3
    <<Lines(2),     Lines(215)>>,    \* $0002 D7
    <<Lines(3),     Lines(2)>>,      \* $0003 02
    <<Lines(727),   Lines(62)>>,     \* $02D7 3E
    <<Lines(728),   Lines(130)>> >>  \* $02D8 82

Fresh == [data_hi |-> {}, data_lo |-> {}, addr_hi |-> {}, addr_lo |-> {},
          n_reads |-> 0, n_allzero |-> 0, n_allone |-> 0, cp_failed |-> {}]

If(p) == IF p THEN 1 ELSE 0

(* cp_checked is only copied and never reported.                            *)
Feed(b, addr, data) ==
    [data_hi |-> b.data_hi \cup data,
     data_lo |-> b.data_lo \cup (DataLines \ data),
     addr_hi |-> b.addr_hi \cup addr,
     addr_lo |-> b.addr_lo \cup (AddrLines \ addr),
     n_reads |-> b.n_reads + 1,
     n_allzero |-> b.n_allzero + If(data = {}),
     n_allone  |-> b.n_allone + If(data = DataLines),
     cp_failed |-> b.cp_failed \cup
         {k \in DOMAIN V20_CHECKPOINTS :
             V20_CHECKPOINTS[k][1] = addr /\ V20_CHECKPOINTS[k][2] # data}]

Enough(b) == b.n_reads >= MIN_READS

StuckDataHi(b) == IF Enough(b) THEN b.data_hi \ b.data_lo ELSE {}
StuckDataLo(b) == IF Enough(b) THEN b.data_lo \ b.data_hi ELSE {}

SomeToggle(toggled) == toggled # {}
Diverse(toggled)    == Cardinality(toggled) >= MIN_ADDR_BITS
StuckAddr(b) ==
    LET toggled == b.addr_hi \cap b.addr_lo
    IN  IF Enough(b) /\ Diverse(toggled)
        THEN (b.addr_hi \cup b.addr_lo) \ toggled ELSE {}

BusUndriven(b) == Enough(b) /\ (b.n_allzero + b.n_allone) * 2 > b.n_reads

-------------------------------------------------------------------------------
(* What the probe makes of the levels it has seen on a line.                *)

classify_bit(seen) ==
    IF {"hi", "lo"} \subseteq seen THEN "ACTIVE"
    ELSE IF "hi" \in seen THEN "STUCK_HI" ELSE "STUCK_LO"

reset_status(seen, cart_driving) ==
    IF cart_driving THEN "DRIVEN_CART"
    ELSE IF {"hi", "lo"} \subseteq seen THEN "PULSING"
    ELSE IF "hi" \in seen THEN "RUNNING" ELSE "IN_RESET"

(* 10 ms of a clock of the given kHz, counted in 16 bits.                   *)
Counter16(n) == n % 65536
edges_to_hz(khz) == Counter16(khz * 10) * 100

===============================================================================
