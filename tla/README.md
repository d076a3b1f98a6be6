# msx-pulse in TLA+

Specifications, model checks and proofs of the firmware of msx-pulse, a diagnostic
cartridge for MSX computers (`src/firmware`: C and PIO programs for an RP2350).
Line references are to the files of that directory.

The cartridge watches the Z80 bus without driving it. On request it pulses /RESET, records
the bus cycles of the boot that follows, and reports how far the machine got. What is hard
about it is that four parties work at once and share memory without locks: the bus (PIO
state machines and DMA channels that store a word per cycle), Core 1 (which drains the
words or samples the bus for the dashboard), Core 0 (main loop: round state machine,
buttons, USB, display) and the user.

## Inventory

| component | state | operations | interacts with |
|---|---|---|---|
| capture rings (`boot_capture.c`, `txn_capture.c`, PIO programs) | DMA write position, running total, previous position, read cursor, discarded words | init, reset (flush and re-arm), stop, drain | filled by hardware, drained by Core 1, re-armed and stopped by Core 0 |
| ALOG (`alog.c`) | finite buffer, DMA position; the reader's cursor `bd_alog_rd` is in `boot_capture.c` | init, reset, captured, peek, print | filled by hardware, read by Core 1's drain, reset by commands |
| phase detector (`boot_detect.c`) | phase flags, header bytes, derived fields | reset, feed, report | fed by Core 1, reset and read by Core 0 |
| bus integrity (`bus_integrity.c`) | seen-high and seen-low masks, counts, checkpoints | reset, feed, verdicts | fed by Core 1, read by Core 0 |
| bus probe (`bus_probe.c`) | published snapshot | sample for 20 ms and publish, get | Core 1 between rounds; `boot_diag.c`, `ui.c`, DASH |
| boot round (`boot_diag.c`) | phase, request, pass, deadline, anomalies, frozen result, `s_capture_active` | start, tick, Core 1 drain step | all of the above, `msx_runtime.c` |
| MSX runtime (`msx_runtime.c`) | /RESET drive | pulse (two forms), hold, pin set-up | called by rounds, commands, UP+DOWN |
| cartridge emulation (`cart_serve.c`, `rom_lut.c`) | PIO and DMA handles, ROM image | arm, disable, reset the pipeline | not armed by `main.c`; two operations are reachable from commands |
| buttons (`buttons.c`) | debounce state of three buttons, UP+DOWN latch | init, set combo, poll, combo check | polled by the main loop |
| user interface (`ui.c`, `oled.c`) | level, page, selector, diagnostic view | handle button, render | main loop; starts rounds, reads their phase |
| USB and commands (`usb_serial.c`, `cmd_dispatch.c`, `ipc.h`) | output ring, command ring, line being typed | task, write line, get command, parse, dispatch | host; RESET, BOOT, ALOG, EMU OFF reach the capture side |
| rails (`adc_rails.c`, fault debounce in `main.c`) | averages, fault count | sample, snapshot, classify | main loop, `ui.c` |
| auto reset (`msx_autoreset.c`) | present count, fired | step | not called at this commit |
| Z80 test ROM (`src/rom`) | machine registers and memory | RAM, VRAM, PSG, slot, CPU tests | built, not served at this commit |

The hard behaviours, with the line where each bites and the property that covers it, are the
`hazards` of `PROJECT.json`. What makes each component correct:

- *rings*: every captured word is fed once, in order, and none from before a flush;
- *round*: the cores never touch the detector at the same time; the verdict is complete,
  not invented, based on a fresh probe; a requested round ends; a frozen result is final;
- *detector*: it knows what the bus has shown, neither more nor less, whatever the order in
  which the three sources are drained;
- *buttons*: one event per press, nothing from a short glitch, nothing from a combo, nothing lost;
- *emulation commands*: what they do to a capture they have nothing to do with is made good by
  the next pass, except for a DMA channel that stays on the FIFO of the read capture;
- *integrity, probe and verdict*: a line that was stuck throughout is named, one that moved is
  not, and the result holds the anomalies that the passes have shown, no others;
- *report*: every finding gets its line, and no buffer cuts a finding;
- *UI*: level, page, view and round agree; no view shows a result that is not there; the
  progress view ends;
- *USB*: each ring is a queue that may refuse but never reorders, repeats or forgets; no
  response pays for another; commands do not run together;
- *rails*: the averages come to rest at what is measured; a fault is shown if it lasts, and
  only then.

## Modules

| module | models |
|---|---|
| `BusStream` | the promise of a ring: an in-order, exactly-once stream per arming (abstract) |
| `CaptureRing` | one ring with its DMA, Core 0 and Core 1; implements `BusStream` |
| `BootRound` | `boot_diag_tick`, the Core 1 loop, the MSX, commands and time |
| `BootDetect` | `boot_detect_feed` and the decoders, as functions |
| `BootCapture`, `MCBootCapture` | `boot_capture_drain` over the memory ring, the I/O ring and ALOG; the cycles TLC uses |
| `Buttons` | one poll of all buttons and the combo check |
| `BusIntegrity` | `bus_integrity.c` and the classification of `bus_probe.c`, as functions |
| `Diagnosis` | what a round makes of a faulty machine over its passes: masks, anomalies, frozen result |
| `BootReport`, `MCDiagnosis` | hints, report and console output by the size of their lines; the machine TLC uses |
| `LossyQueue` | the promise of a USB ring: a bounded queue that may refuse (abstract) |
| `Console` | `usb_serial.c` and `cmd_dispatch.c` with the host; both rings implement `LossyQueue` |
| `Rails`, `MCRails` | `adc_rails.c` and the fault debounce of `main.c`; the supplies TLC uses |
| `RoundService` | the promise of `boot_diag.c` to the main loop (abstract) |
| `Panel` | `ui.c` in the turn of the main loop; builds on `RoundService` |
| `CaptureRingProofs`, `BootRoundProofs`, `BootCaptureProofs`, `DiagnosisProofs`, `ButtonsProofs`, `PanelProofs`, `ConsoleProofs`, `RailsProofs` | theorems about the module of that name |

The three capture models are layers. `CaptureRing` shows that a ring is a queue of words;
`BootCapture` uses queues and shows that the detector does not depend on how they are
interleaved; `BootRound` therefore lets a ring be the *set* of phases waiting in it, and
spends its states on the protocol between the cores. `BootRound` in turn implements
`RoundService` (phases of a pass seen as one), and `Panel` instantiates `RoundService` for the
rounds that it starts and watches. `Diagnosis` stands beside `BootRound`: it takes from it that
nothing is lost, invented or fed out of turn, lets the steps of a pass follow one another,
and spends its states on what the data say. `BootReport` extends it by what the user gets to
read of a result.

### CaptureRing

A word is the pair of its arming and its ordinal, so a lost, repeated, reordered or left-over
word is visible. `BusCycle` is PIO, FIFO and DMA in one step. `PassBegin`, `EndWindow`,
`BootCaptureInit` and `CmdReset` are Core 0's calls; a drain of Core 1 is `BeginDrain` (read
the write address, compute the total, overrun guard), one `FeedOne` per word and
`FinishDrain`, so that hardware and Core 0 act between any two words. Counters are residues
modulo `CounterMod` (2^32). `MaxLag` is the cadence: how many words may come in before the
oldest unread one is taken. The loop in `txn_capture.c` is line for line the same and is
covered by the same model. The health counters (`bd_late_drains`, `bd_max_gap_us`) are only
printed and are left out.

`boot_capture.c:159-161` says that the overrun guard covers a reader that was lapped, and
`boot_capture.c:63-70` that the guard then goes blind. The second is right: `GuardNeverFires` holds
however many laps Core 1 is behind. No run checks it, since under the cadence of the runs nobody
is lapped; `GuardIsDead` proves it for every `MaxLag`. Only a RESET that moves the cursor under a
running drain may make the guard fire, which is why it is stated of `Spec`.

### BootRound

One action per `case` of `boot_diag_tick`; `PASS_BEGIN` is split where it sleeps:
`PassBegin` (re-arm, activate), `AssertReset`, `ReleaseReset`. Core 1's loop is
`BeginDrain`/`EndDrain` when `s_capture_active` is set and `BeginProbe`/`EndProbe` otherwise;
a drain takes at most `DrainMax` and a probe at most `ProbeMax` ticks, and `Tick` lets time pass
for everybody. Core 1's turns between activities take no tick. The commands (`CmdReset`,
`ComboReset`, `EmuOff`, `AlogReset`) are part of `SpecCmd` only.

Simplifications: a drain takes its snapshot of all rings at once. The deadline counts from
the start of the tick, as in the code (`now_ms` is read slightly earlier still). The clock is
present, so a pass without reads is the only anomaly. Code is not fetched from the header
addresses. Commands come only after the first request has claimed the hardware: before that,
`alog_reset` aborts DMA channel -1, whose effect is outside the source. In passive mode
`cart_serve` still has handles 0, which belong to `txn_capture` (PIO1 SM0) and `alog` (DMA
channel 0, the first one claimed); the model says what the code then does to them.

`cart_serve.h:27` claims that the reset of the pipeline does nothing then. It stops the state
machine of the read capture and restarts it elsewhere (`txnruns`), and it arms DMA channel 0
without end on that machine's FIFO (`tapped`), where it competes with the channel of
`txn_capture` for every word. The first is repaired by the next pass, since `txn_capture_reset`
restarts its state machine wherever it has been left (`RestartTxn`). The second is not, because
`txn_capture_reset` aborts its own channel only: it lasts through later passes and rounds until
ALOG RESET or EMU OFF aborts channel 0. Which of two channels gets a word is not chosen by the
program, and the word that channel 0 gets is stored into its own read address, so what it reads
afterwards is not determined by the source either. `Capture` therefore lets any read be lost
while `tapped`. `EveryPassRepaired` says how far the damage reaches: what a pass sees that no
command disturbs is in the verdict, unless a pass of the round began while `tapped`. Without the
exception it does not hold. `clean` and `tappedpass` are history variables. RESET clears the
phases waiting in the rings but not the reads, as `cmd_reset` does not call `txn_capture_reset`.
As in the code, what the boot that is aborted shows between arming and /RESET counts as captured
in the pass.

### BootDetect and BootCapture

`Feed` and the decoders are the code's `switch`es as sets and records; the derived fields
`last_confirmed` and `first_missing` are functions of the flags and are left out. A bus cycle
carries, by the comments on `boot_phase_t`, what it shows (`shows`), and a history variable
`truth` collects it, independently of `Feed`. The sampling gates are modelled with what slips
through them: refresh cycles pass the /MREQ gate, interrupt acknowledges the /IORQ gate, and
a read is sampled before anything drives the data lines. Write data is taken to be settled
when sampled (`pios/boot_detect.pio`). Two assumptions on the cycles, evaluated by TLC for those
of `MCBootCapture`, are what the theorems need of the machine: `ShowsAssumption` ties `shows` to
the true kind of a cycle (`Meant`: a refresh, an input and an interrupt acknowledge mean
nothing to the detector), and `HeaderAssumption` says that only reads address the two header
bytes, since code of a cartridge starts behind them and the refresh page is another one.

### Buttons

`Poll` is `buttons_poll` with its four passes and the `buttons_combo_check` that follows it in
the main loop. The ages of timestamps are kept, not the timestamps, each up to the threshold
it is compared with; the wrap of the 32-bit millisecond counter after 49 days is not
modelled. Init has the first poll later than `DEBOUNCE` after power-up: the display is
initialised before it, over I2C, which takes longer. `buttons_held` has no caller and is left
out, as is the single-button return of pass 1, which needs a button that is neither SELECT nor
in the combo; there is none.

`PressNeedsRelease` is the arming rule of `buttons.c:73-75` with the one exception that the
code makes: the first sample ever taken counts as stable, because `last_change_ms` starts
at 0 and the first poll is late.

`buttons.c:15-17` says that the deferred short of UP or DOWN also fires if the button is released
early; the code drops it there (`buttons.c:155-158`, which says so). `HeldLongEnough` is what the
code does and forbids what the other comment promises; `NoPressLost` asks only for presses that
last.

### Panel

One turn of Core 0's loop is four steps, in the order of the code: `Tick` (`boot_diag_tick`),
`PollButtons` (any event or none, to `ui_handle_btn`), `DispatchCmd` (a BOOT command or nothing
that matters here) and `Refresh` or `NothingDue`. `round` is `RoundService`'s state with
`frozen`, whether any round has written its result; `panel` holds the five variables of `ui.c`.
`ui_handle_btn` is one operator per view or level. `asked` is a history variable: a round was
started from the settings and has not ended. Whether the display answered at start-up is
chosen in `Init`. Left out: what pages show, the power fault text, the state
`DISP_FIRMWARE_UPDATE` (the processor restarts into the boot loader at once), and
`DISP_MSX_HEALTH`, which nothing sets.

### Diagnosis and BootReport

A word on the bus is the set of its lines that are high: a mask is a set of lines, the
or of masks a union, a stuck line a line that `OnBus` adds or takes away. `StartRound`,
`BusRead`, `EndPass` are `boot_diag_tick` in IDLE/DONE, `txn_capture_drain` into
`bus_integrity_feed`, and SETTLE. Faults may change from pass to pass. `seen`, `broken` and
`noticed` are history variables that record what the machine did, independently of masks and
flags, and the properties compare the result with them. `freeze_result` copies values that do
not change before the next round, so the result is an operator; when the copy is taken is
checked in `BootRound` (`FrozenIsFinal`). `NO_BUS_CYCLES` counts the reads of the whole round,
as in the code: a pass without any is noticed only if the earlier ones had none either.

A text is a sequence of lines with their section and length, counted with the line end from
the format strings (checked against the output of the C code compiled natively). `Offsets` are
the offsets that `appendf` returns line by line, `Fits` is what it leaves at the end of a buffer,
`Clipped` what the line buffer of `cmd_boot` leaves of a line: 77 characters of text. `Printed`
puts the 400 characters of causes, the 800 of the report, the line buffer and the 31 free lines
of the output ring together. `SizeAssumption` says what the sizes must be for the properties to
hold: 400 for the causes, 400 more than that for the report, 31 lines of 80, and six address
lines that have moved before any is called stuck. `NamesAssumption` says that every phase has
its names.

### Console

One turn is `Task` (`tud_task`, banner), `DrainLine` per line, `ReadChar` per character and then
`Dispatch` with `WriteLine` per line of the response. Only Core 0 uses the rings at this commit
(`ipc.h:16` still says that Core 1 writes lines), so firmware steps do not interleave; the host
acts while TinyUSB works. The host types words, of which one is UPDATE: a command is UPDATE or
one that responds with some number of lines (`Respond`), none for a line the parser does not
know. A word remembers whether it began a line or a session, which makes mixed commands visible.
A line of a response is a pair of response and number. `tud_cdc_write` keeps what fits into its
256 bytes and the firmware ignores how much that was: a long response is cut, and
`HostSeesPrefixes` says that it is cut at its end only, because it is drained in one turn. The
line being typed and commands in the ring survive a host that hangs up, as in the code. `UPDATE`
ends in the boot ROM, from which only `PowerCycle` leads back.

### Rails

`Turn` is a turn of the main loop with its one sample, `PollTurn` one with the snapshot and the
debounce. At least `PollTurns` turns lie between snapshots; there may be any number more.
Voltages are integers in mV, rounded down; the code computes in `float`. The averages start at 0
with one sample of +5 V taken before the loop. `Good` and `Broken` call a supply so if the
verdict is the same for every average that may come to rest, which is up to `Weight - 1` counts
below the sample: with 63 counts that is 0.47 V on the −12 V bridge, of the 0.6 V that make a
warning. `Left` says how far above a steady supply an average can be after so many samples, and
`SettleAssumption` that nothing is left of that after the `Samples` of an interval. From full
scale the code's average takes 302 samples, that is 906 turns of the three rails, to come down.
The assumption is therefore one about the length of a turn: 500 ms, less five refreshes of the
display and the 100 ms of a /RESET pulse, have room for these if a turn takes less than about
0.3 ms (one conversion, one call of TinyUSB). An interval that a host fills with RESET commands,
which block for 100 ms each, or in which one PINS command blocks for 1 s, is outside the
assumption. Before the first snapshot the status fields are zero, which STATUS prints as OK, and
STATUS prints an absent rail as FAIL (`cmd_dispatch.c:155-157`); RAILS prints both right.

## Runs

| run | question | result |
|---|---|---|
| `ring` | does a ring deliver the stream? | passes: type, order, refinement of `BusStream` with its liveness |
| `ring_race` | is a flushed word gone? | violated by a RESET during a drain |
| `round` | two rounds, no commands | passes: ownership, fresh, complete, not invented, final |
| `round_cmd` | one round with two commands at any moment | passes: implements `RoundService` with its liveness; undisturbed passes are complete, but for a tapped FIFO |
| `round_stale` | is the cartridge scan of a round its own? | violated in the second round: ALOG is never re-armed |
| `capture` | does the detector know what the bus showed? | passes |
| `buttons` | events and resets against what was held | passes |
| `console` | are the rings queues, do responses fit, do commands mix, what does the host see? | passes: both rings refine `LossyQueue` with its liveness |
| `diagnosis` | is the verdict what was wrong, and does the user get to read it? | passes |
| `rails` | do averages settle, and faults show if and only if they last? | passes, with liveness |
| `panel` | do level, page, view and round agree, and does the progress view end? | passes |
| `panel_stale` | are buttons without effect during a round? | violated in a second round |

Bounds, and why they suffice:

- *Rings*: four slots, nine words per arming (two laps and a bit), three armings, `MaxLag` 3
  (one less than a ring, the limit). Behaviour depends on positions modulo the ring and on
  whether a lap is complete; every such case occurs. `CounterMod` 16 exceeds the
  words of an arming, as 2^32 exceeds the about 9.2 million cycles of a window.
- *Rounds*: two phases (one of them the cartridge scan), two passes, two rounds (one with
  commands, with two: one to do damage and another to change it). `Settle` 3 is the least value
  above `DrainMax + ProbeMax` = 2; the mutants `ShortSettle` and `NoSettle` show that one less
  fails. ALOG holds one word, none with commands, so it is empty, filled and full.
- *Detector*: ten kinds of cycle, four cycles in every order, ALOG of three words: header
  bytes in both orders, repeated, of another slot, and a full log.
- *Buttons*: thresholds 2, 3, 4 and 5 ticks in the order of the code's 20, 100, 200 and
  500 ms; polls one or three ticks apart, so that a poll may skip every threshold but the
  longest, and two may fall due in one poll.
- *Diagnosis*: buses and buffers of their real sizes; two passes and up to three reads per
  round, of which two are enough to judge by (`MIN_READS` 2), so that a round has too few, just
  enough and more; `MIN_ADDR_BITS` 6 as in the code. Six faults: none, one line and several,
  data and address, all lines at once. Four probes, one of them a clock beyond the counter.
  Three sets of phases: none, some, all. Two passes are enough for anything to differ
  between a pass and the next, and rounds follow each other without bound.
- *Console*: rings of three and two free lines, responses of no line, responses that fill the
  output ring (three) and overflow it (five), lines of two words, six words or line ends, two
  sessions, a transmit buffer of one and a half lines.
- *Rails*: a converter of 7 bits and an average over four samples, so that averages take several
  samples and stop below them; the supply is absent, good, or half way up, and changes in
  the turn of a snapshot and 16 turns later. 46 turns are 15 samples per rail between
  snapshots, enough for any average to settle (TLC evaluates `SettleAssumption`); after a change
  at turn 16 it may not settle before that snapshot, but before the next.
- *Panel*: the five pages and six result pages of the code, nothing else is bounded.

`CHECK_DEADLOCK FALSE` is set for the ring runs only: there all bounds may be used up and the
last window closed. Everywhere else Core 1 loops for ever.

`FrozenIsFinal` is checked without commands, because RESET resets the live detector after the
round, which does not touch the frozen result. The ownership and freshness checked by `round`
are proved with commands at any moment (below).

### Fairness

Both cores run loops that never wait for each other: weak fairness of `Core1`, and of the
round's steps together (`RoundStep`, with the end of a command's pulse). `Tick` is enabled only
while Core 1 is inside a drain or a probe, and Core 1 leaves and re-enters these again and
again; strong fairness of `Tick` says that time passes nevertheless. Nothing is assumed of the
MSX, the user or the bus. In `BootCapture` only Core 1 is fair; in `Buttons` nothing is, as all its
properties are about safety. `Panel` assumes that the main loop goes on, that a round
ends (promised by `RoundService`, hence strong fairness of `EndRound` among the turns) and that
a refresh falls due again and again (every 100 ms). `ProgressEnds` has two premises that the
code needs: a display is present, since `ui_render` alone leaves the progress view, and BOOT
commands cease, since one that comes between the end of a round and the next refresh starts
another round before anybody saw that end. `Console` assumes weak fairness of Core 0's steps
and nothing of the host. `Rails` assumes that the loop turns and that a snapshot falls due
again and again, each by weak fairness; `FaultFollowsSupply` and `AveragesSettle` speak of a
supply that at last stays as it is.

### Findings

1. A RESET command during a round re-arms rings and detector under a running drain, which goes
   on to feed flushed words (`ring_race`).
2. A passive round never re-arms ALOG although `boot_capture.c:144` counts on it: a second round
   has the cartridge scan of the first before its own windows have seen anything, and a full
   log hides new ones (`round_stale`).
3. A round started from the settings while the phase is still DONE shows the old results
   (`ui.c:388`, same turn), and buttons act while it runs, against `ui.c:336` (`panel_stale`).

Weaknesses that the properties above are worded around, each at the place in the module where
it is described:

- `cart_serve_reset_pipeline` is said to be a no-op if the emulation does not run
  (`cart_serve.h:27`). It is not: a RESET or UP+DOWN costs the running pass its read capture, and
  DMA channel 0 then competes with it for every word of later passes.
- A press of UP or DOWN that is released early gives no short, against `buttons.c:15-17`.
- A lapped reader is not covered by the overrun guard, against `boot_capture.c:159-161`.
- SELECT arms on one stray HIGH sample if that is the first poll, against `buttons.c:73-75`.
- The hints do not fit 400 characters when all five anomalies come together, which
  `boot_diag.h:59-61` does not foresee; that takes passes that differ.
- The hint of a faultless boot is a line of 83 characters (`boot_diag.c:90`, after "- ") and
  `cmd_boot` has room for 77: on the console it ends in "(VDP/PSG/kbd not p".
- The clock counter wraps above 6.55 MHz: a clock of 10.1 MHz is reported as 3.58 MHz.
- `tud_cdc_write` drops what does not fit: HELP is longer than its buffer.
- HELP has two lines of more than the 79 characters of a slot (EMU OFF and ALOG,
  `cmd_dispatch.c:143-145`); they lose their end with its line end. Lines are not cut in
  `Console`, as no property is about their text.
- The averages rest up to 63 counts below the sample when they come from below.

That the guard is dead is proved for every cadence (`GuardIsDead`), so a lap is noticed only by
the health counter of `boot_capture.c:63-70`.

## Proofs

All theorems hold for every value of the constants that satisfies the modules' assumptions.

**`CaptureRingProofs`.** `TypeCorrect` and `GuardIsDead` need no assumption on the cadence.
Neither invariant is inductive alone: `Accounts` ties the software's total to the write
position (both positions are counts modulo the ring, the total never exceeds what was
written, and between drains the cursor equals the total), and with `TypeOK` it is `BaseInv`.
Since one drain adds less than a ring to the total, the guard has nothing to skip.
`DeliveryCorrect` assumes `MaxLag < RingLen` and adds `Delivery`: the words from the
oldest unread one to the newest are all still in their slots, and what was fed ends just
before them. `BusCycle` is the interesting step: the slot it overwrites differs from every
unread one, because two counts less than a ring apart lie in different slots
(`DistinctSlots`). `RingIsAStream` maps every step to a step of `BusStream` or a stutter, from
the same invariant. The facts about remainders and slots are lemmas at the head of the
module, derived from the definition of the remainder.

**`BootRoundProofs`.** `CoresKeptApart` and `VerdictIsFresh` are proved of `SpecCmd`, with commands
at any moment, from `TimingAssumption` (`Settle > DrainMax + ProbeMax`, `Window > ProbeMax`;
in the code 60 ms against a drain of a few ms and a probe of 20 ms, and 8 s against 20 ms).
The inductive invariant is `TypeOK`, `Counting` and `Timing`. `Timing` compares what is left of
Core 1's activity with what is left of the deadline: a drain still running in SETTLE ends
with a whole probe to spare, and a verdict on a stale probe would need the deadline to pass
before either.

Five further results build on this separation of the cores. `RoundKeepsService` (with commands)
shows step by step that the round keeps the safety part of `RoundService`. `ResultIsFinal`,
`ReportedWasSeen` and `SeenIsReported` are about rounds without commands, `DamageIsRepaired`
about any. `FrozenIsFinal` is inductive with `Timing`: no drain reaches past the settle time.
For `NothingInvented` the invariant follows the words on their way (`Sourced`): what is in a
ring or in the batch of a drain was captured in this round, and what the detector holds was
captured or stands in an alog word. For `NothingOverlooked` it follows them the other way
(`Covered`): an early phase is in the ring, in the batch or in the detector (`Caught`), and as
long as one is not in the batch or the detector Core 1 will begin another drain before the
deadline (`InTime`). This needs `DrainMax <= ProbeMax`, stated in the theorem: a drain of a few
ms against a probe of 20 ms. `DamageIsRepaired` proves `EveryPassRepaired` of `SpecCmd` from the
same invariant. `Open` adds what a command may not have undone in a pass that it has not
disturbed (`clean`): the rings are armed, the state machine of the read capture runs its own
program, and nobody takes its words unless the pass began so. The lemma `CommandsAreCovered` is
the step of a command, which leaves what was seen before it where it is, or takes it out of what
must be found (phases at RESET). Without commands nothing is ever `tapped`, which gives
`SeenIsReported`.

**`DiagnosisProofs`.** `VerdictOnLines` is `LinesJudged` for every program, every set of faults
(a line is not stuck at both levels), all thresholds with `MIN_READS > 0` and any number of
passes. The inductive invariant has two parts: `MasksMatch` (the masks are exactly what `seen`
has shown, and a read was counted if anything was seen) and `BrokenShows` (a line broken in every
pass so far has its level in every word seen so far). The verdicts on lines then follow
without further induction; the diversity gate is the same cardinality on both sides once the
masks are replaced. `VerdictOnAnomalies` adds that the accumulator equals `noticed` as long as no
clock outran the counter, for every set of probes that see some level on each line
(`ProbeAssumption`); that the counter then holds the number of edges is `CounterHolds`.

The two theorems about the report, `EveryFindingIsHinted` and `ReportReachesUser`, hold for all
sizes that `SizeAssumption` allows and whatever the machine did. Three things had to be found.
First, facts about the verdict without which the hints would not fit 400 characters:
`CountsMatch` (a word of all zeros or all ones that was counted is in the masks as well) is
inductive with the invariant above, and gives `ResultOK`: no line is stuck both high and low, the
bus is not called undriven when lines are stuck at both levels, and at most ten address lines are
named. Second, induction: `Offsets` is a recursive function over a text of any length. `Least` (a
set of numbers has a least one, from the library's `WFMin`) gives `Induction` with a set in the
place of a predicate, and with it `OffsetsDef` (the function exists and adds up), `OffsetsShift`
(a text within a text), `OffsetsBelow` (shorter lines, smaller offsets) and `JoinedOffsets` (sizes
of joined texts add up) are proved. `FittedText` is what a buffer leaves of a text. Third, the
account: `Measured` gives section, width, number and size of the lines of a text and is kept by
joining, so the sections are measured line by line (`FindingsMeasured`, `CausesBounded`,
`IntegrityMeasured`, `AnomaliesMeasured`); the findings take at most 384 characters unless all
five anomalies come together, and what stands before the phases at most 26 lines and
`CausesSize + 368` characters. `PrintedCount` then shows that a section which stands in that part is
printed whole.

**`BootCaptureProofs`.** `DetectorNeverAhead` and `DrainOrderIsFree` hold for all cycles that
the two assumptions above allow, any number of them and any length of the log. The detector and
the `truth` are compared through what is on its way. `FlagsMatch`: the phases of the bus are
those of the detector together with those that the words waiting in the two rings will say, so
that it makes no difference which ring is drained first. `HeadersMatch`: the header bytes of the
detector are those of the last header words before the cursor of the log (`LastBytes`), the
bytes of the bus those of the last header words in the whole log as long as it is not full, and
a header was read if and only if some prefix of the log held one. When nothing waits the two
coincide; before that the detector has less. Words of the memory ring never touch the bytes
(`FeedMemWord`), as their read data are not trusted.

**`ButtonsProofs`.** All properties of `Buttons` hold for every debounce, window and hold time
of which the combo's hold is the longest (`LongestAssumption`: 500 ms against 100 and 200 ms),
and however late a poll is. `HeldLongEnough` speaks of `level_age`, which the code does not
have. `AgesAgree` relates it to the `change_age` that the code has; `PressesAreHeld` says that a
press that is being timed has been LOW for the debounce time longer than its age.
`ShortsAreOwed` is the account of UP and DOWN: a press is deferred and unanswered, or answered
once, or overlapped with the other. `HoldsFireOnce` and `ComboFiresOnce` do the same for SELECT
and for the reset. They are inductive together with the properties themselves. As a poll is one
step, the proof has one lemma per part of the invariant (`AgesStep`, `PressesStep`,
`ShortsStep`, `HoldsStep`, `ComboOnce`), over lemmas that say what a poll does to one button.

**`ConsoleProofs`.** The rings are dealt with once. `Ring` is the sequence that a ring of `n`
slots holds between its indices; that a write into the slot of the write index extends it
(`RingPush`), that taking the slot of the read index leaves its tail (`RingPop`) and that it is
full when one slot is free (`RingIsFull`) is proved of all rings and used for both. With these
`CommandsKeepOrder` and `OutputKeepsOrder` map every step of `Console` to a step of `LossyQueue`
or a stutter (`QueueSafety`, the refinement without its liveness). `LinesStayApart` is inductive
with `Follows`: a word that begins a line is behind a line end in what was typed, or is next and
the line being typed is empty. `DrainMakesRoom` and `PrefixesOnly` share `OneResponse`: what
waits for the host is a run of consecutive lines of one response; the ring is empty when a
command is dispatched, and in `respond` it holds all lines written so far or is full.
`SentSoFar` adds that as long as the transmit buffer has room, all that was taken out of the
ring has been given to it; once it is full it stays so to the end of the drain, so the first
piece that is lost is the last. Nothing is assumed of the host, of line and buffer lengths or of
the number of lines a command writes, but that they are positive, and natural, numbers.

**`PanelProofs`.** `TypeCorrect`, `LevelsAgree`, `ViewsAreTrue` and `ProgressStays` hold for any
positive number of pages. They are inductive together once `DoneIsFrozen` is added: a round that
is DONE has written its result, which is what lets `ui_render` take DONE for "there is something
to show". `MovedStays` is the one fact about cursors; pages, result pages and rows all use it.

**`RailsProofs`.** `FaultsAreLasting` holds for every converter, every weight of the average, every
set of supplies and a supply that changes at any time, under `SettleAssumption` (see the
module above). That a fault needs four disturbed intervals says nothing of the averages, so
the invariant has to: while the supply is good and steady, an average that has been
sampled `k` times since the last snapshot is at most `Left[k]` above it, and at most `Weight - 1`
more than that below (`Settling`). `AverageNears` is the step: one sample turns a distance `l` into
at most `Average(l, 0)`, although the division truncates. A sample happens every third turn, so
`Ago` counts back to the last one of each rail. At the snapshot the averages are then
among those for which `Good` was asked (`SnapshotSettled`), so that it does not fail, and
`fault_count` never exceeds the number of disturbed intervals in a row (`FaultsCounted`).

Only model-checked: *liveness* (`ImplementsRoundService`, `ProgressEnds`, `EveryPhaseIsFed`,
`AveragesSettle`, `FaultFollowsSupply`, and the liveness part of `ImplementsBusStream`,
`CommandsAreQueued` and `OutputIsQueued`), since the prover knows neither ENABLED nor fairness.
That the four sections of `Sections` and the lines of `Findings` have the lengths the definitions
give them is not a theorem either; these numbers are the format strings.

## Not modelled, and what is left

- *Cartridge emulation* beyond its two operations that commands reach, with `rom_lut.c`:
  `main.c` never arms it, so its state machines run in no state of the program.
- *Z80 test ROM*: built, not served; sequential code about the machine under test.
- *Auto reset*: a pure function without a caller.
- *Commands before the first round*: `alog_reset` then aborts DMA channel −1, whose effect is
  outside the source.
- *Watchdog*: what blocks in one turn is a fixed sum far below 5 s.
- Framebuffer, font and I2C transfer (layout), USB descriptors and build files (constants),
  report wording, the hardware design.

Every invariant that a passing run checks is proved. What neither a run nor a proof shows is that
`SettleAssumption` holds of the firmware: it is a measurement of the turn of the main loop, not
a property of its source.
