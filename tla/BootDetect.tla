----------------------------- MODULE BootDetect -----------------------------
(***************************************************************************)
(* The pure part of the boot phase detector: boot_detect_feed as a function *)
(* of the detector's state and one decoded bus event, and the decoders of   *)
(* boot_capture.c that make events of raw ring words.                       *)
(***************************************************************************)
EXTENDS Integers

(* boot_phase_t, in milestone order.                                        *)
RESET_VECTOR    == 0
BIOS_ENTRY      == 1
SLOT_RAM_PROBE  == 2
BIOS_INIT_DONE  == 3
BASIC_HANDOFF   == 4
BASIC_COLDSTART == 5
BASIC_BIOS_VECS == 6
VDP_INIT        == 7
CART_SCAN       == 8
Phases          == 0 .. 8

Address  == 0 .. 65535
Byte     == 0 .. 255
Header   == {\h4000, \h4001}
Unseen   == \hFF                        \* header byte not observed

(* boot_detect_state_t after boot_detect_reset; last_confirmed and          *)
(* first_missing are functions of the flags, recomputed with every phase.   *)
Reset ==
    [flags |-> {}, ppi |-> FALSE, workarea |-> FALSE, header_read |-> FALSE,
     bytes |-> [a \in Header |-> Unseen]]

-----------------------------------------------------------------------------
(* Decoding.  A word holds the address, the data lines and the active-low   *)
(* control lines as they were when the state machine sampled the bus.       *)

(* Read data is sampled before anything drives the bus.                     *)
MemKind(w) ==
    IF w.m1 THEN "fetch" ELSE IF w.wr THEN "memWrite" ELSE "memRead"

TrustReads(kind)   == TRUE
TrustSettled(kind) == kind # "memRead"

decode_mem(w) ==
    [kind |-> MemKind(w), addr |-> w.addr, data |-> w.data,
     valid |-> TrustSettled(MemKind(w))]

IgnoreWr(w) == "ioWrite"
IoKind(w)   == IF w.wr THEN "ioWrite" ELSE "ioRead"

decode_io(w) ==
    [kind |-> IoKind(w), addr |-> w.addr, data |-> w.data, valid |-> w.wr]

(* An alog word of the cartridge header is a read with trustworthy data.    *)
header_event(w) ==
    [kind |-> "memRead", addr |-> w.addr, data |-> w.data, valid |-> TRUE]

-----------------------------------------------------------------------------
(* boot_detect_feed.                                                        *)

FetchPhase ==
    {<<\h0000, RESET_VECTOR>>, <<\h02D7, BIOS_ENTRY>>,
     <<\h03F8, BIOS_INIT_DONE>>, <<\h2680, BASIC_HANDOFF>>,
     <<\h7C76, BASIC_COLDSTART>>, <<\h7D75, CART_SCAN>>}
    \cup {<<a, BASIC_BIOS_VECS>> : a \in {\h003E, \h003B, \h006F, \h0069}}

Port(addr) == addr % 256
PpiPorts   == {\hAB, \hA8, \hAA}
VdpPorts   == {\h99, \h98}

If(condition, phase) == IF condition THEN {phase} ELSE {}

Reached(kind, addr) ==
    {m[2] : m \in {x \in FetchPhase : kind = "fetch" /\ x[1] = addr}}
    \cup If(kind = "memRead" /\ addr \in Header, CART_SCAN)
    \cup If(kind = "memWrite" /\ addr = \hFD9A, BASIC_COLDSTART)
    \cup If(kind = "memWrite" /\ (addr = \hBF00 \/ addr >= \hC000), SLOT_RAM_PROBE)
    \cup If(kind = "ioWrite" /\ Port(addr) \in PpiPorts, BIOS_ENTRY)
    \cup If(kind = "ioWrite" /\ Port(addr) = \hA8, SLOT_RAM_PROBE)
    \cup If(kind = "ioWrite" /\ Port(addr) \in VdpPorts, VDP_INIT)

(* Only trustworthy data counts as a header byte.                           *)
HeaderByte(e) == e.kind = "memRead" /\ e.addr \in Header /\ e.valid

Latch(bytes, e) ==
    IF HeaderByte(e) THEN [bytes EXCEPT ![e.addr] = e.data] ELSE bytes

IsHeader(bytes) == bytes[\h4000] = \h41 /\ bytes[\h4001] = \h42

Feed(d, e) ==
    [flags    |-> d.flags \cup Reached(e.kind, e.addr),
     ppi      |-> d.ppi \/ (e.kind = "ioWrite" /\ Port(e.addr) \in PpiPorts),
     workarea |-> d.workarea \/ (e.kind = "memWrite" /\ e.addr = \hFD9A),
     bytes    |-> Latch(d.bytes, e),
     header_read |-> d.header_read
                     \/ (HeaderByte(e) /\ IsHeader(Latch(d.bytes, e)))]
=============================================================================
