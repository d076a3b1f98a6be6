---------------------------- MODULE CaptureRing ----------------------------
(***************************************************************************)
(* One capture ring of the boot diagnostic: a PIO state machine pushes one  *)
(* word per Z80 bus cycle, an endless DMA channel stores the words in a     *)
(* ring of RingLen entries and wraps by itself, and Core 1 drains the ring  *)
(* by looking at nothing but the DMA write address.  boot_capture.c holds   *)
(* two such rings (memory and I/O cycles); txn_capture.c holds a third one  *)
(* with the same code.                                                      *)
(*                                                                          *)
(* Three parties interleave: the hardware (BusCycle), Core 1 (BeginDrain,   *)
(* FeedOne, FinishDrain) and Core 0 (BootCaptureInit, PassBegin,            *)
(* EndWindow, CmdReset).  A ring word is identified by the arming it        *)
(* belongs to and its ordinal in that arming; what the word decodes to is   *)
(* left to the module BootDetect.                                           *)
(***************************************************************************)
EXTENDS Integers, Sequences

CONSTANTS
    RingLen,     \* BD_RING_LEN / TX_RING_LEN (4096 in the code)
    CounterMod,  \* 2^32: the counters are uint32_t
    MaxLag,      \* words the bus can add before Core 1 has read the oldest one
    MaxEntries,  \* bound: bus cycles captured per arming
    MaxArmings   \* bound: times the ring is armed

ASSUME RingLenAssumption == RingLen \in Nat \ {0}
ASSUME MaxEntriesAssumption == MaxEntries \in Nat
ASSUME MaxArmingsAssumption == MaxArmings \in Nat
ASSUME MaxLagAssumption == MaxLag \in Nat

(***************************************************************************)
(* A power of two above the ring length, so that a counter and its residue  *)
(* wrap together; an 8 s window holds about 9.2 million bus cycles, far     *)
(* fewer than a counter can count.                                          *)
(***************************************************************************)
ASSUME CounterAssumption ==
    /\ CounterMod \in Nat
    /\ CounterMod > MaxEntries + RingLen
    /\ CounterMod % RingLen = 0

VARIABLES
    ring,         \* slot -> the word last stored there
    waddr,        \* the DMA channel's write position, as a slot number
    armed,        \* the state machine and its DMA channel are running
    arming,       \* how often the ring was armed (history)
    written,      \* words stored since the last arming (history)
    active,       \* s_capture_active
    waddr_total,  \* bd_mem_waddr_total
    waddr_prev,   \* bd_mem_waddr_prev
    rd_cursor,    \* bd_mem_rd
    disc,         \* bd_mem_disc
    pc,           \* Core 1: "loop" between drains, "drain" inside drain_ring
    rd, total,    \* the two locals of drain_ring
    fed           \* words fed to the detector since the last arming (history)

hwvars   == <<ring, waddr, armed, arming, written>>
cursors  == <<waddr_total, waddr_prev, rd_cursor, disc>>
drainer  == <<pc, rd, total>>
vars     == <<hwvars, active, cursors, drainer, fed>>

Slots    == 0 .. RingLen - 1
NoWord   == <<0, 0>>
Word(n)  == <<arming, n>>                       \* the n-th word of this arming
SlotOf(n)   == n % RingLen                      \* the mask RingLen - 1
Wrap32(n)   == n % CounterMod                   \* uint32_t arithmetic

(* The oldest word Core 1 has not read yet.                                 *)
Oldest   == IF pc = "drain" THEN rd ELSE rd_cursor

Init ==
    /\ ring = [s \in Slots |-> NoWord]
    /\ waddr = 0 /\ armed = FALSE /\ arming = 0 /\ written = 0
    /\ active = FALSE
    /\ waddr_total = 0 /\ waddr_prev = 0 /\ rd_cursor = 0 /\ disc = 0
    /\ pc = "loop" /\ rd = 0 /\ total = 0
    /\ fed = << >>

----------------------------------------------------------------------------
(* Hardware.                                                                *)

(* channel_config_set_ring: the write address wraps inside the ring.        *)
NextSlotNoWrap == waddr + 1
NextSlot == SlotOf(waddr + 1)

(* A qualified bus cycle: the word goes through the FIFO into the ring.     *)
(* While Core 1 is draining, at most MaxLag words wait to be read.          *)
BusCycle ==
    /\ armed
    /\ written < MaxEntries
    /\ active => written - Oldest < MaxLag
    /\ ring' = [ring EXCEPT ![waddr] = Word(written)]
    /\ waddr' = NextSlot
    /\ written' = written + 1
    /\ UNCHANGED <<armed, arming, active, cursors, drainer, fed>>

----------------------------------------------------------------------------
(* Core 0.                                                                  *)

(* What boot_capture_init and boot_capture_reset leave behind: the channel  *)
(* restarted at the first slot, and every cursor at zero.                   *)
ArmAndClear ==
    /\ arming < MaxArmings
    /\ armed' = TRUE
    /\ arming' = arming + 1
    /\ waddr' = 0 /\ written' = 0
    /\ waddr_total' = 0 /\ waddr_prev' = 0 /\ rd_cursor' = 0 /\ disc' = 0
    /\ fed' = << >>
    /\ UNCHANGED <<ring, drainer>>

(* The one-time claim of the first request; nobody drains the ring yet.     *)
BootCaptureInit ==
    /\ arming = 0
    /\ ArmAndClear
    /\ UNCHANGED active

(* PASS_BEGIN: re-arm, then let Core 1 drain.  Core 1 left its last drain   *)
(* before the pass began: module BootRound has that as an invariant.        *)
PassBegin ==
    /\ arming > 0 /\ ~active /\ pc = "loop"
    /\ ArmAndClear
    /\ active' = TRUE

EndWindowStopsNothing ==
    /\ active
    /\ active' = FALSE
    /\ UNCHANGED <<hwvars, cursors, drainer, fed>>

(* End of the capture window: Core 1 is told to leave and the ring stops.   *)
EndWindow ==
    /\ active
    /\ active' = FALSE
    /\ armed' = FALSE
    /\ UNCHANGED <<ring, waddr, arming, written, cursors, drainer, fed>>

(* The RESET command re-arms the ring wherever Core 1 is.                   *)
CmdReset ==
    /\ arming > 0
    /\ ArmAndClear
    /\ UNCHANGED active

----------------------------------------------------------------------------
(* Core 1.                                                                  *)

(* bd_dma_total: the write address only tells the position inside the ring. *)
DeltaUnmasked == waddr - waddr_prev
Delta    == SlotOf(waddr - waddr_prev)
DmaTotal == Wrap32(waddr_total + Delta)

(* The overrun guard of drain_ring.                                         *)
Overrun(lag) == lag > RingLen

(* Head of drain_ring: read the total, then skip what an overrun destroyed. *)
BeginDrain ==
    /\ active /\ pc = "loop"
    /\ waddr_total' = DmaTotal
    /\ waddr_prev' = waddr
    /\ total' = DmaTotal
    /\ LET lag == Wrap32(DmaTotal - rd_cursor)
       IN  IF Overrun(lag)
           THEN /\ disc' = Wrap32(disc + lag - RingLen)
                /\ rd' = Wrap32(DmaTotal - RingLen)
           ELSE /\ rd' = rd_cursor
                /\ UNCHANGED disc
    /\ pc' = "drain"
    /\ UNCHANGED <<hwvars, active, rd_cursor, fed>>

(* One turn of drain_ring's loop.                                           *)
FeedOne ==
    /\ pc = "drain" /\ rd # total
    /\ fed' = Append(fed, ring[SlotOf(rd)])
    /\ rd' = Wrap32(rd + 1)
    /\ UNCHANGED <<hwvars, active, cursors, pc, total>>

FinishDrainAtNewest ==
    /\ pc = "drain" /\ rd = total
    /\ rd_cursor' = DmaTotal
    /\ pc' = "loop"
    /\ waddr_total' = DmaTotal /\ waddr_prev' = waddr
    /\ UNCHANGED <<hwvars, active, disc, rd, total, fed>>

FinishDrain ==
    /\ pc = "drain" /\ rd = total
    /\ rd_cursor' = rd
    /\ pc' = "loop"
    /\ UNCHANGED <<hwvars, active, waddr_total, waddr_prev, disc, rd, total, fed>>

Core1 == BeginDrain \/ FeedOne \/ FinishDrain

----------------------------------------------------------------------------
Next    == BusCycle \/ BootCaptureInit \/ PassBegin \/ EndWindow \/ Core1
NextCmd == Next \/ CmdReset

(* Core 1 does nothing but loop, so none of its steps waits for ever.       *)
Spec     == Init /\ [][Next]_vars /\ WF_vars(Core1)
SpecCmd  == Init /\ [][NextCmd]_vars /\ WF_vars(Core1)

----------------------------------------------------------------------------
(* Properties.                                                              *)

TypeOK ==
    /\ ring \in [Slots -> Nat \X Nat]
    /\ waddr \in Slots /\ armed \in BOOLEAN
    /\ arming \in 0 .. MaxArmings /\ written \in 0 .. MaxEntries
    /\ active \in BOOLEAN
    /\ waddr_total \in 0 .. CounterMod - 1 /\ waddr_prev \in Slots
    /\ rd_cursor \in 0 .. CounterMod - 1 /\ disc \in 0 .. CounterMod - 1
    /\ pc \in {"loop", "drain"}
    /\ rd \in 0 .. CounterMod - 1 /\ total \in 0 .. CounterMod - 1
    /\ fed \in Seq(Nat \X Nat)

(* What Core 1 feeds is exactly what was captured since the arming, in the  *)
(* order of the bus, nothing lost, repeated or left over from before: the   *)
(* contract of drain_ring while Core 1 keeps its cadence.                   *)
FedInOrder == \A i \in 1 .. Len(fed) : fed[i] = Word(i - 1)

(* Nothing is fed that was in the ring before it was flushed and re-armed   *)
(* ("flush rings + re-arm", boot_detect.h:78).                              *)
FlushedStaysFlushed == \A i \in 1 .. Len(fed) : fed[i][1] = arming

(* The overrun guard of drain_ring never fires, however many laps Core 1 is *)
(* behind, unless a RESET moves the cursor under it: the total it compares  *)
(* with the cursor comes from a difference modulo the ring length, so it is *)
(* never more than a ring ahead.  The comment at boot_capture.c:159-161     *)
(* ("drain_ring's overrun guard covers that case") says the opposite; the   *)
(* one at boot_capture.c:63-70 ("the overrun guard goes blind") agrees.     *)
GuardNeverFires == disc = 0

(* The ring is the in-order, exactly-once stream of BusStream, and every    *)
(* word of an open window is fed at last.                                   *)
Stream == INSTANCE BusStream WITH
    era <- arming, open <- active, sent <- written, got <- fed
ImplementsBusStream == Stream!StreamSpec

=============================================================================
