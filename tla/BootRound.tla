------------------------------ MODULE BootRound ------------------------------
(***************************************************************************)
(* A round of the passive boot diagnostic (boot_diag.c).  Core 0 runs the   *)
(* state machine boot_diag_tick in its main loop; Core 1 loops, and in each *)
(* turn drains the capture rings if s_capture_active is set and samples the *)
(* bus for the dashboard if not.  The two cores share the detector, the     *)
(* ring cursors and the probe snapshot, and nothing but time keeps them     *)
(* apart: the window, the settle time and the lengths of a drain and of a   *)
(* probe are ticks here, and Tick lets one pass for everybody.              *)
(*                                                                          *)
(* A capture ring is the set of boot phases waiting in it: CaptureRing      *)
(* shows that a ring neither loses, repeats nor reorders its words, and     *)
(* BootCapture that the detector does not depend on how the rings are       *)
(* interleaved.  The item Read stands for a word of txn_capture's ring.     *)
(***************************************************************************)
EXTENDS Integers, FiniteSets

CONSTANTS
    NPhases,    \* BP_PHASE_COUNT (9); the last phase is the cartridge scan
    MaxPasses,  \* BOOT_DIAG_MAX_PASSES (3)
    Window,     \* BOOT_DIAG_WINDOW_MS in ticks
    Settle,     \* the 60 ms of boot_diag.c:246 in ticks
    Pulse,      \* the 100 ms /RESET pulse in ticks
    DrainMax,   \* longest boot_diag_core1_drain_step, in ticks
    ProbeMax,   \* longest bus_probe_sample_once, in ticks
    AlogTotal,  \* ALOG_TOTAL (250): words the finite alog buffer holds
    MaxRounds,  \* bound: rounds requested
    MaxResets   \* bound: commands that reach the capture hardware

ASSUME SizeAssumption ==
    /\ NPhases \in Nat \ {0} /\ MaxPasses \in Nat \ {0}
    /\ AlogTotal \in Nat /\ MaxRounds \in Nat /\ MaxResets \in Nat
ASSUME TimeAssumption ==
    /\ Window \in Nat /\ Settle \in Nat /\ Pulse \in Nat
    /\ DrainMax \in Nat /\ ProbeMax \in Nat
(* 60 ms cover what is left of a drain and a whole probe of 20 ms; the      *)
(* window of 8 s covers the probe that was running when it opened.          *)
ASSUME TimingAssumption ==
    /\ Settle > DrainMax + ProbeMax
    /\ Window > ProbeMax

VARIABLES
    s_phase, s_request, s_inited, s_pass, s_anom, s_result,  \* boot_diag.c
    s_capture_active,
    pc0,        \* Core 0: in its loop, about to pull /RESET, or pulling it
    wait,       \* ticks until s_deadline_ms
    pulseleft,  \* ticks until the /RESET pulse ends
    det,        \* phases set in the detector (boot_detect.c)
    reads,      \* s_bi.n_reads > 0
    c1, c1left, \* Core 1's activity and how long it may still take
    batch,      \* what the current drain has found in the rings
    fresh,      \* the current probe began after the window closed
    snapfresh,  \* so did the probe that published s_snap
    pending,    \* items in the rings, not drained
    armed,      \* the boot_capture and txn_capture state machines run
    txnruns,    \* txn_capture's state machine executes its own program
    tapped,     \* DMA channel 0 takes words from that machine's FIFO
    alogmem, alogn, alogown, \* alog_raw, its fill level, alog owns its channel
    alogrd,     \* bd_alog_rd
    pos,        \* phases the current boot of the MSX has gone through
    captured,   \* items on the bus while s_capture_active (history)
    solid,      \* those seen more than a probe before the deadline of a pass
                \* that no command had disturbed (history)
    clean,      \* no command since the current pass began (history)
    tappedpass, \* a pass of this round began while tapped (history)
    rounds, resets  \* bounds

core0  == <<s_phase, s_request, s_inited, s_pass, s_anom, s_result>>
core1  == <<c1, c1left, batch, fresh, snapfresh>>
shared == <<det, reads>>
timers == <<wait, pulseleft>>
rings  == <<pending, armed, txnruns, tapped>>
alog   == <<alogmem, alogn, alogown>>
hist   == <<captured, solid, clean, tappedpass>>
bounds == <<rounds, resets>>
vars   == <<core0, s_capture_active, pc0, timers, shared, core1, rings, alog,
            alogrd, pos, hist, bounds>>

Phases   == 0 .. NPhases - 1
CartScan == NPhases - 1
Read     == NPhases
Items    == Phases \cup {Read}
Idle     == {"IDLE", "DONE"}
NoResult == [phases |-> {}, reads |-> FALSE, anom |-> {}, passes |-> 0]

Init ==
    /\ s_phase = "IDLE" /\ s_request = FALSE /\ s_inited = FALSE
    /\ s_pass = 0 /\ s_anom = {} /\ s_result = NoResult
    /\ s_capture_active = FALSE
    /\ pc0 = "loop" /\ wait = 0 /\ pulseleft = 0
    /\ det = {} /\ reads = FALSE
    /\ c1 = "loop" /\ c1left = 0 /\ batch = {}
    /\ fresh = FALSE /\ snapfresh = FALSE
    /\ pending = {} /\ armed = FALSE /\ txnruns = FALSE /\ tapped = FALSE
    /\ alogmem = [i \in 1 .. AlogTotal |-> FALSE]
    /\ alogn = 0 /\ alogown = FALSE /\ alogrd = 0
    /\ pos \in 0 .. NPhases
    /\ captured = {} /\ solid = {} /\ clean = FALSE /\ tappedpass = FALSE
    /\ rounds = 0 /\ resets = 0

-----------------------------------------------------------------------------
(* The MSX.  It runs whenever the cartridge does not hold /RESET, reaches   *)
(* the phases in milestone order and may stop for good after any of them.   *)

Running == pc0 \notin {"pulse", "cmdpulse"}

(* A read is lost if the state machine that should see it runs elsewhere,   *)
(* and may be if channel 0 competes for its words: two channels on one FIFO *)
(* take them in an order the program does not choose.                       *)
Capture(items) ==
    /\ \E lost \in BOOLEAN :
          /\ ~txnruns => lost
          /\ lost => ~txnruns \/ tapped
          /\ pending' = IF ~armed THEN pending
                        ELSE pending \cup (IF lost THEN items \ {Read} ELSE items)
    /\ captured' = IF s_capture_active THEN captured \cup items ELSE captured
    /\ solid' = IF s_capture_active /\ clean /\ wait > ProbeMax
                THEN solid \cup items ELSE solid
    /\ UNCHANGED <<clean, tappedpass>>

(* A read of the cartridge slot: one more alog word while there is room.    *)
CartRead(isheader) ==
    /\ IF alogown /\ alogn < AlogTotal
       THEN /\ alogmem' = [alogmem EXCEPT ![alogn + 1] = isheader]
            /\ alogn' = alogn + 1
       ELSE UNCHANGED <<alogmem, alogn>>
    /\ UNCHANGED alogown

Milestone ==
    /\ Running /\ pos < NPhases
    /\ pos' = pos + 1
    /\ Capture({pos, Read})
    /\ IF pos = CartScan THEN CartRead(TRUE) ELSE UNCHANGED alog
    /\ UNCHANGED <<core0, s_capture_active, pc0, timers, shared, core1, armed,
                   txnruns, tapped, alogrd, bounds>>

OtherRead ==
    /\ Running
    /\ Capture({Read})
    /\ CartRead(FALSE) \/ UNCHANGED alog
    /\ UNCHANGED <<core0, s_capture_active, pc0, timers, shared, core1, armed,
                   txnruns, tapped, alogrd, pos, bounds>>

-----------------------------------------------------------------------------
(* Core 0: boot_diag_start, then one action per case of boot_diag_tick.     *)

Request ==
    /\ pc0 = "loop" /\ s_phase \in Idle /\ ~s_request
    /\ rounds < MaxRounds
    /\ s_request' = TRUE
    /\ UNCHANGED <<s_phase, s_inited, s_pass, s_anom, s_result,
                   s_capture_active, pc0, timers, shared, core1, rings, alog,
                   alogrd, pos, hist, bounds>>

StartRound ==
    /\ pc0 = "loop" /\ s_phase \in Idle /\ s_request
    /\ s_request' = FALSE
    /\ IF s_inited
       THEN UNCHANGED <<s_inited, pending, armed, txnruns, alog, alogrd>>
       ELSE /\ s_inited' = TRUE
            /\ alogn' = 0 /\ alogown' = TRUE /\ UNCHANGED alogmem
            /\ pending' = {} /\ armed' = TRUE /\ txnruns' = TRUE
            /\ alogrd' = 0
    /\ det' = {} /\ reads' = FALSE
    /\ s_pass' = 0 /\ s_anom' = {}
    /\ s_phase' = "PASS_BEGIN"
    /\ captured' = {} /\ solid' = {} /\ clean' = FALSE /\ tappedpass' = FALSE
    /\ rounds' = rounds + 1
    /\ UNCHANGED <<s_result, s_capture_active, pc0, timers, core1, tapped, pos,
                   resets>>

(* boot_capture_reset and txn_capture_reset; the detector is the caller's.  *)
RearmOnly == alogrd' = 0 /\ armed' = TRUE /\ UNCHANGED <<pending, shared>>
RearmAndForget == alogrd' = 0 /\ armed' = TRUE /\ pending' = {}
                  /\ det' = {} /\ UNCHANGED reads
Rearm == alogrd' = 0 /\ armed' = TRUE /\ pending' = {} /\ UNCHANGED shared

(* txn_capture_reset restarts its state machine wherever a command has left *)
(* it.  It aborts its own channel only: a channel 0 that a command has put  *)
(* on the same FIFO stays there.                                            *)
RearmTxnOnly == UNCHANGED <<txnruns, tapped>>
RestartTxn == txnruns' = TRUE /\ UNCHANGED tapped

(* The rings are re-armed and Core 1 is sent draining before /RESET is      *)
(* asserted; the deadline counts from the now_ms of this turn of the loop.  *)
(* Nothing re-arms alog: msx_runtime_pulse_reset_passive leaves it alone.   *)
PassBegin ==
    /\ pc0 = "loop" /\ s_phase = "PASS_BEGIN"
    /\ Rearm /\ RestartTxn
    /\ s_capture_active' = TRUE
    /\ wait' = Window
    /\ pc0' = "arm"
    /\ clean' = TRUE /\ tappedpass' = (tappedpass \/ tapped)
    /\ UNCHANGED <<core0, pulseleft, core1, alog, pos, captured, solid, bounds>>

AssertReset ==
    /\ pc0 = "arm"
    /\ pc0' = "pulse" /\ pulseleft' = Pulse /\ pos' = 0
    /\ UNCHANGED <<core0, s_capture_active, wait, shared, core1, rings, alog,
                   alogrd, hist, bounds>>

StayInPhase == s_phase
AfterPulse  == "CAPTURING"
ReleaseReset ==
    /\ pc0 = "pulse" /\ pulseleft = 0
    /\ pc0' = "loop"
    /\ s_phase' = AfterPulse
    /\ UNCHANGED <<s_request, s_inited, s_pass, s_anom, s_result,
                   s_capture_active, timers, shared, core1, rings, alog, alogrd,
                   pos, hist, bounds>>

NoSettle    == 0
ShortSettle == DrainMax + ProbeMax
SettleTime  == Settle

DrainOn   == UNCHANGED s_capture_active
StopDrain == s_capture_active' = FALSE

(* The history variable snapfresh starts anew: no probe has begun yet.      *)
EndWindow ==
    /\ pc0 = "loop" /\ s_phase = "CAPTURING" /\ wait = 0
    /\ StopDrain
    /\ armed' = FALSE
    /\ wait' = SettleTime
    /\ s_phase' = "SETTLE"
    /\ snapfresh' = FALSE
    /\ UNCHANGED <<s_request, s_inited, s_pass, s_anom, s_result, pc0,
                   pulseleft, shared, c1, c1left, batch, fresh, pending, txnruns,
                   tapped, alog, alogrd, pos, hist, bounds>>

(* boot_diag_round_should_stop, or the pass limit.                          *)
StopOnePassLate == Phases \subseteq det \/ s_pass >= MaxPasses
ShouldStop == Phases \subseteq det \/ s_pass + 1 >= MaxPasses

(* SETTLE: classify, then freeze the result or begin the next pass.  The    *)
(* clock is present here, so a pass without reads is "no bus cycles".       *)
Verdict ==
    /\ pc0 = "loop" /\ s_phase = "SETTLE" /\ wait = 0
    /\ s_anom' = s_anom \cup (IF reads THEN {} ELSE {"NO_BUS_CYCLES"})
    /\ s_pass' = s_pass + 1
    /\ IF ShouldStop
       THEN /\ s_result' = [phases |-> det, reads |-> reads,
                            anom |-> s_anom', passes |-> s_pass']
            /\ s_phase' = "DONE"
       ELSE /\ s_phase' = "PASS_BEGIN"
            /\ UNCHANGED s_result
    /\ UNCHANGED <<s_request, s_inited, s_capture_active, pc0, timers, shared,
                   core1, rings, alog, alogrd, pos, hist, bounds>>

(* The commands that reach the capture hardware, once it was claimed.  In    *)
(* passive mode the handles of cart_serve still have their initial value 0: *)
(* cart_serve_reset_pipeline restarts PIO1 SM0, txn_capture's state         *)
(* machine, at address 0 and arms DMA channel 0, alog's, without end on the *)
(* FIFO of PIO1 SM0.  That channel's write address then lies outside        *)
(* alog_raw, and alog_captured reports a full log.                          *)
CartServeResetPipeline ==
    /\ txnruns' = FALSE /\ tapped' = TRUE
    /\ alogown' = FALSE /\ alogn' = AlogTotal /\ UNCHANGED alogmem

Command ==
    /\ pc0 = "loop" /\ s_inited
    /\ resets < MaxResets /\ resets' = resets + 1
    /\ clean' = FALSE

PullReset == pc0' = "cmdpulse" /\ pulseleft' = Pulse /\ pos' = 0

(* cmd_reset: alog_reset, boot_detect_reset and boot_capture_reset, then    *)
(* the pipeline.  It forgets phases; the reads, counted or still in the     *)
(* ring of txn_capture, stay.                                               *)
CmdReset ==
    /\ Command
    /\ CartServeResetPipeline
    /\ det' = {} /\ solid' = solid \cap {Read}
    /\ pending' = pending \cap {Read} /\ alogrd' = 0 /\ armed' = TRUE
    /\ PullReset
    /\ UNCHANGED <<core0, s_capture_active, wait, reads, core1, captured,
                   tappedpass, rounds>>

(* UP+DOWN held: msx_runtime_pulse_reset, where s_detect is FALSE.          *)
ComboReset ==
    /\ Command
    /\ CartServeResetPipeline
    /\ PullReset
    /\ UNCHANGED <<core0, s_capture_active, wait, shared, core1, pending, armed,
                   alogrd, captured, solid, tappedpass, rounds>>

(* EMU OFF: cart_serve_disable_drive aborts channel 0 and arms nothing.     *)
EmuOff ==
    /\ Command
    /\ txnruns' = FALSE /\ tapped' = FALSE /\ alogown' = FALSE
    /\ UNCHANGED <<core0, s_capture_active, pc0, timers, shared, core1, pending,
                   armed, alogmem, alogn, alogrd, pos, captured, solid,
                   tappedpass, rounds>>

(* ALOG RESET: alog_reset takes channel 0 back; the cursor bd_alog_rd stays *)
(* where it is.                                                             *)
AlogReset ==
    /\ Command
    /\ alogn' = 0 /\ alogown' = TRUE /\ tapped' = FALSE
    /\ UNCHANGED <<core0, s_capture_active, pc0, timers, shared, core1, pending,
                   armed, txnruns, alogmem, alogrd, pos, captured, solid,
                   tappedpass, rounds>>

CmdRelease ==
    /\ pc0 = "cmdpulse" /\ pulseleft = 0
    /\ pc0' = "loop"
    /\ UNCHANGED <<core0, s_capture_active, timers, shared, core1, rings, alog,
                   alogrd, pos, hist, bounds>>

-----------------------------------------------------------------------------
(* Core 1: core1_dashboard_loop.                                            *)

BeginDrain ==
    /\ c1 = "loop" /\ s_capture_active
    /\ c1' = "drain" /\ c1left' = DrainMax
    /\ batch' = pending /\ pending' = {}
    /\ UNCHANGED <<core0, s_capture_active, pc0, timers, shared, fresh, snapfresh,
                   armed, txnruns, tapped, alog, alogrd, pos, hist, bounds>>

(* What header reads among the given alog words stand for.                  *)
HeadersIn(words) ==
    IF \E i \in words : alogmem[i] THEN {CartScan} ELSE {}

(* The rest of boot_diag_core1_drain_step: feed what was found, then the    *)
(* alog words that have come in since the last drain.                       *)
EndDrain ==
    /\ c1 = "drain"
    /\ det' = det \cup (batch \cap Phases) \cup HeadersIn(alogrd + 1 .. alogn)
    /\ reads' = (reads \/ Read \in batch)
    /\ alogrd' = IF alogrd < alogn THEN alogn ELSE alogrd
    /\ c1' = "loop" /\ batch' = {}
    /\ UNCHANGED <<core0, s_capture_active, pc0, timers, c1left, fresh,
                   snapfresh, rings, alog, pos, hist, bounds>>

BeginProbe ==
    /\ c1 = "loop" /\ ~s_capture_active
    /\ c1' = "probe" /\ c1left' = ProbeMax
    /\ fresh' = (s_phase = "SETTLE")
    /\ UNCHANGED <<core0, s_capture_active, pc0, timers, shared, batch,
                   snapfresh, rings, alog, alogrd, pos, hist, bounds>>

EndProbe ==
    /\ c1 = "probe"
    /\ c1' = "loop"
    /\ snapfresh' = fresh
    /\ UNCHANGED <<core0, s_capture_active, pc0, timers, shared, c1left, batch,
                   fresh, rings, alog, alogrd, pos, hist, bounds>>

-----------------------------------------------------------------------------
(* Time: no activity of Core 1 outlasts its bound, and neither its turn of  *)
(* the loop nor the instructions between arming and /RESET take a tick.     *)
Less(n) == IF n > 0 THEN n - 1 ELSE 0

Tick ==
    /\ c1 # "loop" /\ c1left > 0 /\ pc0 # "arm"
    /\ c1left' = c1left - 1
    /\ wait' = Less(wait) /\ pulseleft' = Less(pulseleft)
    /\ UNCHANGED <<core0, s_capture_active, pc0, shared, c1, batch, fresh,
                   snapfresh, rings, alog, alogrd, pos, hist, bounds>>

-----------------------------------------------------------------------------
Msx      == Milestone \/ OtherRead
RoundStep == \/ StartRound \/ PassBegin \/ AssertReset \/ ReleaseReset
             \/ EndWindow \/ Verdict
Core1    == BeginDrain \/ EndDrain \/ BeginProbe \/ EndProbe
Next     == Msx \/ Request \/ RoundStep \/ Core1 \/ Tick
NextCmd  == Next \/ CmdReset \/ ComboReset \/ CmdRelease \/ EmuOff \/ AlogReset

(* Both cores run loops that never block, and time passes: that Core 1      *)
(* leaves and re-enters its loop must not keep Tick from happening.         *)
Fairness == WF_vars(RoundStep \/ CmdRelease) /\ WF_vars(Core1) /\ SF_vars(Tick)
Spec     == Init /\ [][Next]_vars /\ Fairness
SpecCmd  == Init /\ [][NextCmd]_vars /\ Fairness

-----------------------------------------------------------------------------
(* The inductive invariants behind the properties.                          *)

(* Counters stay below their limits while they may still grow.              *)
Counting ==
    /\ s_request => rounds < MaxRounds
    /\ s_phase \notin Idle => s_pass < MaxPasses

(* How far each activity of Core 1 is from its end, against the deadline.   *)
Timing ==
    /\ pc0 \in {"arm", "pulse"} => s_phase = "PASS_BEGIN"
    /\ s_capture_active <=> (s_phase = "CAPTURING" \/ pc0 \in {"arm", "pulse"})
    /\ c1 = "drain" => /\ c1left <= DrainMax
                       /\ s_capture_active \/ s_phase = "SETTLE"
    /\ c1 = "probe" => c1left <= ProbeMax
    /\ c1 = "probe" /\ s_capture_active => wait > c1left
    /\ c1 = "drain" /\ s_phase = "SETTLE" => wait > c1left + ProbeMax
    /\ c1 = "probe" /\ s_phase = "SETTLE" => fresh
    /\ s_phase = "SETTLE" /\ ~snapfresh =>
          \/ c1 = "drain"
          \/ c1 = "loop" /\ wait > ProbeMax
          \/ c1 = "probe" /\ wait > c1left

-----------------------------------------------------------------------------
(* Properties.                                                              *)

FlagTypes ==
    /\ s_request \in BOOLEAN /\ s_inited \in BOOLEAN /\ reads \in BOOLEAN
    /\ s_capture_active \in BOOLEAN /\ fresh \in BOOLEAN /\ snapfresh \in BOOLEAN
    /\ armed \in BOOLEAN /\ txnruns \in BOOLEAN /\ alogown \in BOOLEAN
    /\ tapped \in BOOLEAN /\ clean \in BOOLEAN /\ tappedpass \in BOOLEAN
RoundTypes ==
    /\ s_phase \in {"IDLE", "PASS_BEGIN", "CAPTURING", "SETTLE", "DONE"}
    /\ s_pass \in 0 .. MaxPasses /\ s_anom \subseteq {"NO_BUS_CYCLES"}
    /\ det \subseteq Phases
    /\ rounds \in 0 .. MaxRounds /\ resets \in 0 .. MaxResets
ResultType ==
    s_result \in [phases : SUBSET Phases, reads : BOOLEAN,
                  anom : SUBSET {"NO_BUS_CYCLES"}, passes : 0 .. MaxPasses]
CoreTypes ==
    /\ pc0 \in {"loop", "arm", "pulse", "cmdpulse"}
    /\ c1 \in {"loop", "drain", "probe"}
    /\ wait \in Nat /\ pulseleft \in Nat /\ c1left \in Nat
BusTypes ==
    /\ batch \subseteq Items /\ pending \subseteq Items
    /\ captured \subseteq Items /\ solid \subseteq Items
    /\ pos \in 0 .. NPhases
AlogMemory == alogmem \in [1 .. AlogTotal -> BOOLEAN]
AlogTypes  == alogn \in 0 .. AlogTotal /\ alogrd \in 0 .. AlogTotal
TypeOK ==
    /\ FlagTypes /\ RoundTypes /\ ResultType /\ CoreTypes
    /\ BusTypes /\ AlogMemory /\ AlogTypes

(* Core 0 resets and reads the detector, the integrity accumulator and the  *)
(* ring cursors without a lock: when it is about to, Core 1 is not draining *)
(* (boot_diag.c:223-224, 231-232, 253-261).                                 *)
Touches ==
    /\ pc0 = "loop"
    /\ \/ s_phase \in {"IDLE", "DONE", "PASS_BEGIN"}
       \/ s_phase = "SETTLE" /\ wait = 0
DetectorOwned == Touches => c1 # "drain" /\ ~s_capture_active

(* The verdict on clock, /RESET and /WAIT is passed on a probe that began   *)
(* after the window closed ("let Core 1 publish a fresh probe sample",      *)
(* boot_diag.c:246), never on one from before the round.                    *)
FreshVerdict == s_phase = "SETTLE" /\ wait = 0 => snapfresh

(* Every phase and every read seen on the bus more than one probe before    *)
(* the deadline is in the verdict: Core 1 may still be inside the probe it  *)
(* had begun before the pass, but it comes to drain in time.                *)
NothingOverlooked ==
    Touches /\ s_phase \in {"SETTLE", "DONE"} =>
        solid \subseteq det \cup (IF reads THEN {Read} ELSE {})

(* No phase is reported that was not on the bus in a capture window of this *)
(* round, except for a cartridge scan that some older alog word tells of.   *)
NothingInvented == det \subseteq captured \cup HeadersIn(1 .. alogn)

(* The frozen result of a finished round and the live detector agree until  *)
(* the next round starts: nothing is fed behind the report's back.          *)
FrozenIsFinal ==
    s_phase = "DONE" => s_result.phases = det /\ s_result.reads = reads

(* A round is what RoundService promises the main loop: in particular every *)
(* request leads to a finished round, whatever the MSX does.                *)
Service == INSTANCE RoundService WITH
    phase <- IF s_phase \in Idle THEN s_phase ELSE "RUN", request <- s_request
ImplementsRoundService == Service!ServiceSpec

(* "alog itself is re-armed by msx_reset_pulse() -> alog_reset()"           *)
(* (boot_capture.c:144): while a round runs, a cartridge scan that its own  *)
(* windows have not seen is not the one that the round before has reported. *)
NoScanRepeated ==
    s_phase \notin Idle /\ CartScan \in det \ captured =>
        CartScan \notin s_result.phases

(* Commands at any moment: whatever RESET, UP+DOWN, EMU OFF and ALOG RESET  *)
(* did before a pass or in an earlier one, what a pass sees that no command *)
(* disturbs is in the verdict, and a command in a later pass takes no read  *)
(* of an earlier one away.  The exception is a channel 0 that was still on  *)
(* the FIFO of the read capture when a pass of the round began.             *)
EveryPassRepaired == ~tappedpass => NothingOverlooked

=============================================================================
