---------------------------- MODULE BootCapture ----------------------------
(***************************************************************************)
(* boot_capture_drain: Core 1 empties the memory ring, then the I/O ring,   *)
(* then reads on in the alog buffer, and feeds the detector.  The order of  *)
(* the bus across the three is lost, and a cartridge header read arrives    *)
(* twice: early in the memory ring with a byte nobody drove yet, and later  *)
(* in alog with the byte the CPU took.                                      *)
(*                                                                          *)
(* The two rings are queues here: CaptureRing implements BusStream.         *)
(***************************************************************************)
EXTENDS BootDetect, Sequences

CONSTANTS
    Cycles,     \* bus cycles: [type, addr, data, slot, shows]
    AlogTotal,  \* ALOG_TOTAL (250)
    MaxCycles   \* bound: bus cycles in the window

ASSUME BoundAssumption == AlogTotal \in Nat /\ MaxCycles \in Nat
CycleTypes == {"fetch", "refresh", "read", "write", "in", "out", "intack"}
ASSUME CycleAssumption == Cycles \subseteq
    [type : CycleTypes, addr : Address, data : Byte, slot : BOOLEAN,
     shows : SUBSET Phases]

(* A cycle shows what the detector knows its true kind by; what the          *)
(* sampling gates confuse with it shows nothing.                            *)
Meant == [fetch |-> "fetch", read |-> "memRead", write |-> "memWrite",
          out |-> "ioWrite"]
ASSUME ShowsAssumption == \A c \in Cycles :
    c.shows = IF c.type \in DOMAIN Meant THEN Reached(Meant[c.type], c.addr) ELSE {}

(* Nothing but a read addresses the two header bytes: code starts behind     *)
(* them, and the refresh page is not that of the cartridge.                  *)
ASSUME HeaderAssumption == \A c \in Cycles :
    c.addr \in Header => c.type # "refresh" /\ ~(c.slot /\ c.type = "fetch")

VARIABLES
    memq, ioq,  \* words in bd_mem_ring and bd_io_ring, not drained
    alog,       \* alog_raw up to the DMA's position
    bd_alog_rd, \* cursor into alog
    det,        \* the detector's state
    pc, left,   \* where boot_capture_drain is, and the words it still reads there
    truth,      \* what the bus has shown (history)
    count       \* bus cycles so far

vars == <<memq, ioq, alog, bd_alog_rd, det, pc, left, truth, count>>

Init ==
    /\ memq = << >> /\ ioq = << >> /\ alog = << >> /\ bd_alog_rd = 0
    /\ det = Reset
    /\ pc = "loop" /\ left = 0
    /\ truth = Reset /\ count = 0

-----------------------------------------------------------------------------
(* The three state machines.  bd_mem_capture waits for /MREQ, so that it    *)
(* also samples refresh cycles, and reads before they are answered;         *)
(* bd_io_capture waits for /IORQ and also samples interrupt acknowledges;   *)
(* cart_addr_log waits for a read of the cartridge slot to end.             *)

MemWord(c) == [addr |-> c.addr, m1 |-> c.type = "fetch", wr |-> c.type = "write",
               data |-> IF c.type = "read" THEN Unseen ELSE c.data]
IoWord(c)  == [addr |-> c.addr, wr |-> c.type = "out", data |-> c.data]
AlogWord(c) == [addr |-> c.addr, data |-> c.data]

Push(queue, condition, word) == IF condition THEN Append(queue, word) ELSE queue

(* The meaning of a cycle, by the comments on boot_phase_t.                 *)
Observe(d, c) ==
    LET read  == c.slot /\ c.type = "read" /\ c.addr \in Header
        bytes == IF read THEN [d.bytes EXCEPT ![c.addr] = c.data] ELSE d.bytes
    IN  [d EXCEPT !.flags = @ \cup c.shows, !.bytes = bytes,
                  !.header_read = @ \/ IsHeader(bytes)]

BusCycle(c) ==
    /\ count < MaxCycles /\ count' = count + 1
    /\ memq' = Push(memq, c.type \in {"fetch", "refresh", "read", "write"}, MemWord(c))
    /\ ioq' = Push(ioq, c.type \in {"in", "out", "intack"}, IoWord(c))
    /\ alog' = Push(alog, c.slot /\ c.type \in {"fetch", "read"} /\ Len(alog) < AlogTotal,
                    AlogWord(c))
    /\ truth' = Observe(truth, c)
    /\ UNCHANGED <<bd_alog_rd, det, pc, left>>

-----------------------------------------------------------------------------
(* boot_capture_drain.  Each ring is drained up to where its DMA was when   *)
(* its turn began.                                                          *)

Turn(from, to, words) ==
    /\ pc = from /\ left = 0
    /\ pc' = to /\ left' = words
    /\ UNCHANGED <<memq, ioq, alog, bd_alog_rd, det, truth, count>>

ButTheLast(queue) == IF queue = << >> THEN 0 ELSE Len(queue) - 1
Waiting(queue)    == Len(queue)

DrainMem  == Turn("loop", "mem", Waiting(memq))
DrainIo   == Turn("mem", "io", Waiting(ioq))
DrainAlog == Turn("io", "alog", Len(alog) - bd_alog_rd)
Return    == Turn("alog", "loop", 0)

FeedMem ==
    /\ pc = "mem" /\ left > 0 /\ left' = left - 1
    /\ det' = Feed(det, decode_mem(Head(memq))) /\ memq' = Tail(memq)
    /\ UNCHANGED <<ioq, alog, bd_alog_rd, pc, truth, count>>

FeedIo ==
    /\ pc = "io" /\ left > 0 /\ left' = left - 1
    /\ det' = Feed(det, decode_io(Head(ioq))) /\ ioq' = Tail(ioq)
    /\ UNCHANGED <<memq, alog, bd_alog_rd, pc, truth, count>>

SkipOne(rd) == rd + 2
NextAlog(rd) == rd + 1

FeedAlog ==
    /\ pc = "alog" /\ left > 0 /\ left' = left - 1
    /\ LET w == alog[bd_alog_rd + 1]
       IN  det' = IF w.addr \in Header THEN Feed(det, header_event(w)) ELSE det
    /\ bd_alog_rd' = NextAlog(bd_alog_rd)
    /\ UNCHANGED <<memq, ioq, alog, pc, truth, count>>

Core1 == \/ DrainMem \/ DrainIo \/ DrainAlog \/ Return
         \/ FeedMem \/ FeedIo \/ FeedAlog

Bus  == \E c \in Cycles : BusCycle(c)
Next == Bus \/ Core1
Spec == Init /\ [][Next]_vars /\ WF_vars(Core1)

-----------------------------------------------------------------------------
(* Properties.                                                              *)

TypeOK ==
    /\ Len(memq) <= MaxCycles /\ Len(ioq) <= MaxCycles
    /\ Len(alog) <= AlogTotal /\ bd_alog_rd \in 0 .. Len(alog)
    /\ pc \in {"loop", "mem", "io", "alog"} /\ left \in 0 .. MaxCycles
    /\ count \in 0 .. MaxCycles
    /\ \A d \in {det, truth} :
          /\ d.flags \subseteq Phases
          /\ d.bytes \in [Header -> Byte]

(* The detector never claims what the bus has not shown: neither a phase,   *)
(* whatever refresh cycles, reads of I/O ports and interrupt acknowledges   *)
(* slip through the sampling gates, nor a cartridge header.                 *)
NeverAhead ==
    /\ det.flags \subseteq truth.flags
    /\ det.header_read => truth.header_read

(* Whatever the interleaving of the three sources, a detector that has read *)
(* everything knows what one that watched the bus itself would know: the    *)
(* same phases, and, unless alog ran full, the last header bytes the CPU    *)
(* took; the early samples of the memory ring do not clobber them.          *)
Drained == pc = "loop" /\ memq = << >> /\ ioq = << >> /\ bd_alog_rd = Len(alog)
OrderDoesNotMatter ==
    Drained =>
        /\ det.flags = truth.flags
        /\ Len(alog) < AlogTotal => /\ det.bytes = truth.bytes
                                    /\ det.header_read = truth.header_read

(* Every phase the bus shows is recognised in the end.                      *)
EveryPhaseIsFed ==
    \A p \in Phases : p \in truth.flags ~> p \in det.flags
=============================================================================
