------------------------------- MODULE Console -------------------------------
(***************************************************************************)
(* The USB console (usb_serial.c, cmd_dispatch.c).  In every turn of its     *)
(* main loop Core 0 lets TinyUSB work, drains the output ring to the host,   *)
(* accumulates what the host has typed into lines for the command ring, and  *)
(* later dispatches one command, whose response goes into the output ring.   *)
(* Only Core 0 uses the rings at this commit, so nothing of the firmware     *)
(* interleaves with a turn; the host acts whenever TinyUSB works.            *)
(*                                                                          *)
(* The host types words and line ends; a line has room for LineLen words     *)
(* and the rest of an overlong line is dropped.  A line of a response is     *)
(* its number in it; a slot of a ring forgets a line that was read, as       *)
(* nobody reads it again.  A line takes LineSize units of the CDC transmit        *)
(* buffer, which keeps what fits and drops the rest.                        *)
(***************************************************************************)
EXTENDS Integers, Sequences

CONSTANTS
    OUT_LINES,   \* USB_OUT_RING_LINES (32)
    CMD_LINES,   \* CMD_RING_LINES (8)
    LineLen,     \* CMD_LINE_LEN - 1 (63 characters), in words
    TxSize,      \* CFG_TUD_CDC_TX_BUFSIZE (256), in units
    LineSize,    \* length of a response line, in units
    Words,       \* the words the host types
    ResponseLines,  \* numbers of lines that a response may have
    MaxTyped,    \* bound: words and line ends typed
    MaxSessions  \* bound: times the host opens the port

ASSUME RingAssumption == OUT_LINES \in Nat \ {0} /\ CMD_LINES \in Nat \ {0}
ASSUME SizeAssumption == LineLen \in Nat \ {0} /\ TxSize \in Nat /\ LineSize \in Nat \ {0}
ASSUME InputAssumption ==
    ResponseLines \subseteq Nat /\ MaxTyped \in Nat /\ MaxSessions \in Nat

VARIABLES
    connected,       \* tud_cdc_connected(): a terminal has the port open
    rx,              \* typed, not yet read by tud_cdc_read_char
    txused,          \* units in the CDC transmit buffer
    pc,              \* where Core 0 is in its turn
    was_connected,   \* usb_serial_task
    accum,           \* the line being typed
    cmd, cmd_write, cmd_read,  \* cmd_ring_t
    out, out_write, out_read,  \* usb_out_ring_t
    resp,            \* the response being written: number, lines, next line
    typed, sessions, \* bounds
    next,            \* what the next word would begin (history)
    pushed, printed, \* change when a line is offered to a ring (history)
    refused,         \* lines of the response that found no room (history)
    sent             \* the last piece of the response given to CDC (history)

host   == <<connected, rx, typed, sessions, next>>
ring_c == <<cmd, cmd_write, cmd_read>>
ring_o == <<out, out_write, out_read>>
hist   == <<pushed, printed, refused, sent>>
vars   == <<host, txused, pc, was_connected, accum, ring_c, ring_o, resp, hist>>

EOL     == "EOL"
Min2(a, b) == IF a < b THEN a ELSE b
NextOut(i) == (i + 1) % OUT_LINES
NextCmd(i) == (i + 1) % CMD_LINES
Silence(n) == [n |-> n, lines |-> 0, next |-> 1]
Nothing == [n |-> -1, from |-> 0, upto |-> 0]

NoCommands == [i \in 0 .. CMD_LINES - 1 |-> << >>]
NoLine     == <<0, 0>>
NoOutput   == [i \in 0 .. OUT_LINES - 1 |-> NoLine]

Init ==
    /\ connected = FALSE /\ rx = << >> /\ txused = 0
    /\ pc = "task" /\ was_connected = FALSE /\ accum = << >>
    /\ cmd = NoCommands /\ cmd_write = 0 /\ cmd_read = 0
    /\ out = NoOutput /\ out_write = 0 /\ out_read = 0
    /\ resp = Silence(0)
    /\ typed = 0 /\ sessions = 0 /\ next = "session"
    /\ pushed = FALSE /\ printed = FALSE /\ refused = {} /\ sent = Nothing

-----------------------------------------------------------------------------
(* The host, while tud_task() runs.                                         *)

Open ==
    /\ pc = "task" /\ ~connected /\ sessions < MaxSessions
    /\ connected' = TRUE /\ sessions' = sessions + 1 /\ next' = "session"
    /\ UNCHANGED <<rx, typed, txused, pc, was_connected, accum, ring_c, ring_o,
                   resp, hist>>

HangUp ==
    /\ pc = "task" /\ connected
    /\ connected' = FALSE
    /\ UNCHANGED <<rx, typed, sessions, next, txused, pc, was_connected, accum,
                   ring_c, ring_o, resp, hist>>

(* A typed word knows whether it is the first of a line, or of a session.   *)
Type ==
    /\ pc = "task" /\ connected /\ typed < MaxTyped
    /\ \E w \in Words \cup {EOL} :
          /\ rx' = Append(rx, [word |-> w, begins |-> IF w = EOL THEN "nothing" ELSE next])
          /\ next' = IF w = EOL THEN "line" ELSE "nothing"
    /\ typed' = typed + 1
    /\ UNCHANGED <<connected, sessions, txused, pc, was_connected, accum, ring_c,
                   ring_o, resp, hist>>

Fetch ==
    /\ pc = "task" /\ txused > 0
    /\ txused' \in 0 .. txused - 1
    /\ UNCHANGED <<host, pc, was_connected, accum, ring_c, ring_o, resp, hist>>

-----------------------------------------------------------------------------
(* usb_serial_task.                                                         *)

Banner == connected /\ ~was_connected

(* The banner takes one unit.                                               *)
Task ==
    /\ pc = "task" /\ pc' = "drain"
    /\ was_connected' = connected
    /\ txused' = IF Banner THEN Min2(txused + 1, TxSize) ELSE txused
    /\ UNCHANGED <<host, accum, ring_c, ring_o, resp, hist>>

(* tud_cdc_write: the line, or the piece of it that fits.                   *)
Room == TxSize - txused
CdcWrite(n, i) ==
    LET took == Min2(Room, LineSize) IN
    /\ txused' = txused + took
    /\ sent' = IF took > 0
               THEN [n |-> n, from |-> (i - 1) * LineSize, upto |-> (i - 1) * LineSize + took]
               ELSE sent

WhileIdle == out_read # out_write /\ txused = 0
ToDrain == out_read # out_write

DrainLine ==
    /\ pc = "drain" /\ ToDrain
    /\ IF connected THEN CdcWrite(out[out_read][1], out[out_read][2])
       ELSE UNCHANGED <<txused, sent>>
    /\ out_read' = NextOut(out_read)
    /\ out' = [out EXCEPT ![out_read] = NoLine]
    /\ UNCHANGED <<host, pc, was_connected, accum, ring_c, out_write, resp,
                   pushed, printed, refused>>

DrainEnd ==
    /\ pc = "drain" /\ ~ToDrain /\ pc' = "read"
    /\ UNCHANGED <<host, txused, was_connected, accum, ring_c, ring_o, resp, hist>>

(* A complete line goes into the command ring, or nowhere if that is full.  *)
Overwrite  == TRUE
RoomForCmd == NextCmd(cmd_write) # cmd_read
PushCmd ==
    /\ pushed' = ~pushed
    /\ IF RoomForCmd
       THEN /\ cmd' = [cmd EXCEPT ![cmd_write] = accum]
            /\ cmd_write' = NextCmd(cmd_write)
       ELSE UNCHANGED <<cmd, cmd_write>>

LineKept  == accum
AfterLine == << >>
RoomForNul  == Len(accum) <= LineLen
RoomForChar == Len(accum) < LineLen

ReadChar ==
    /\ pc = "read" /\ rx # << >>
    /\ rx' = Tail(rx)
    /\ IF Head(rx).word = EOL
       THEN /\ IF accum # << >> THEN PushCmd ELSE UNCHANGED <<cmd, cmd_write, pushed>>
            /\ accum' = AfterLine
       ELSE /\ accum' = IF RoomForChar THEN Append(accum, Head(rx)) ELSE accum
            /\ UNCHANGED <<cmd, cmd_write, pushed>>
    /\ UNCHANGED <<connected, typed, sessions, next, txused, pc, was_connected,
                   cmd_read, ring_o, resp, printed, refused, sent>>

ReadEnd ==
    /\ pc = "read" /\ rx = << >> /\ pc' = "dispatch"
    /\ UNCHANGED <<host, txused, was_connected, accum, ring_c, ring_o, resp, hist>>
-----------------------------------------------------------------------------
(* usb_serial_parse_cmd: of all commands only UPDATE matters by its name.    *)
IsUpdate(l) == Len(l) = 1 /\ l[1].word = "UPDATE"

(* What the other commands write is told apart by its number of lines: none  *)
(* for a line that is no command, one to sixteen for most, more for BOOT.    *)
Respond ==
    \E n \in ResponseLines : resp' = [n |-> 1 - resp.n, lines |-> n, next |-> 1]

(* UPDATE restarts the processor in the boot loader: nothing in RAM is left. *)
Update ==
    /\ connected' = FALSE /\ rx' = << >> /\ txused' = 0
    /\ pc' = "bootrom" /\ was_connected' = FALSE /\ accum' = << >>
    /\ cmd' = NoCommands /\ cmd_write' = 0 /\ cmd_read' = 0
    /\ out' = NoOutput /\ out_write' = 0 /\ out_read' = 0
    /\ resp' = Silence(0) /\ next' = "session"
    /\ pushed' = FALSE /\ printed' = FALSE /\ refused' = {} /\ sent' = Nothing
    /\ UNCHANGED <<typed, sessions>>

PowerCycle ==
    /\ pc = "bootrom" /\ pc' = "task"
    /\ UNCHANGED <<host, txused, was_connected, accum, ring_c, ring_o, resp, hist>>

NoCommand ==
    /\ pc = "dispatch" /\ cmd_read = cmd_write /\ pc' = "task"
    /\ UNCHANGED <<host, txused, was_connected, accum, ring_c, ring_o, resp, hist>>

(* usb_serial_get_cmd and cmd_dispatch.                                     *)
Dispatch ==
    /\ pc = "dispatch" /\ cmd_read # cmd_write
    /\ IF IsUpdate(cmd[cmd_read]) THEN Update
       ELSE /\ Respond
            /\ cmd_read' = NextCmd(cmd_read)
            /\ cmd' = [cmd EXCEPT ![cmd_read] = << >>]
            /\ pc' = "respond" /\ sent' = Nothing
            /\ UNCHANGED <<host, txused, was_connected, accum, cmd_write, ring_o,
                           pushed, printed, refused>>

(* usb_serial_write_line.                                                   *)
OneShort    == (out_write - out_read) % OUT_LINES < OUT_LINES - 2
RoomForLine == NextOut(out_write) # out_read
WriteLine ==
    /\ pc = "respond" /\ resp.next <= resp.lines
    /\ resp' = [resp EXCEPT !.next = @ + 1]
    /\ printed' = ~printed
    /\ IF RoomForLine
       THEN /\ out' = [out EXCEPT ![out_write] = <<resp.n, resp.next>>]
            /\ out_write' = NextOut(out_write)
            /\ UNCHANGED refused
       ELSE /\ refused' = refused \cup {resp.next}
            /\ UNCHANGED <<out, out_write>>
    /\ UNCHANGED <<host, txused, pc, was_connected, accum, ring_c, out_read,
                   pushed, sent>>

Done ==
    /\ pc = "respond" /\ resp.next > resp.lines /\ pc' = "task"
    /\ resp' = Silence(resp.n) /\ refused' = {}
    /\ UNCHANGED <<host, txused, was_connected, accum, ring_c, ring_o, pushed,
                   printed, sent>>

-----------------------------------------------------------------------------
Host  == Open \/ HangUp \/ Type \/ Fetch
Core0 == \/ Task \/ DrainLine \/ DrainEnd \/ ReadChar \/ ReadEnd
         \/ NoCommand \/ Dispatch \/ WriteLine \/ Done
Next  == Host \/ Core0 \/ PowerCycle

(* The main loop never waits for the host.                                  *)
Spec  == Init /\ [][Next]_vars /\ WF_vars(Core0)

-----------------------------------------------------------------------------
(* Properties.                                                              *)

CmdQueue == [i \in 1 .. (cmd_write - cmd_read) % CMD_LINES |->
                 cmd[(cmd_read + i - 1) % CMD_LINES]]
OutQueue == [i \in 1 .. (out_write - out_read) % OUT_LINES |->
                 out[(out_read + i - 1) % OUT_LINES]]

Typed == [word : Words, begins : {"nothing", "line", "session"}]
TypeOK ==
    /\ connected \in BOOLEAN /\ was_connected \in BOOLEAN
    /\ txused \in 0 .. TxSize
    /\ pc \in {"task", "drain", "read", "dispatch", "respond", "bootrom"}
    /\ accum \in Seq(Typed) /\ Len(accum) <= LineLen
    /\ cmd \in [0 .. CMD_LINES - 1 -> Seq(Typed)]
    /\ {cmd_write, cmd_read} \subseteq 0 .. CMD_LINES - 1
    /\ {out_write, out_read} \subseteq 0 .. OUT_LINES - 1
    /\ out \in [0 .. OUT_LINES - 1 -> Nat \X Nat]
    /\ resp.next \in 1 .. resp.lines + 1

(* The command ring is a lossy queue of CMD_LINES - 1 lines: a complete line *)
(* is dropped only when that many wait, none is reordered, repeated or      *)
(* overwritten, and every line in it is dispatched at last (unless UPDATE    *)
(* comes first), however fast the host types and hangs up.                  *)
Commands == INSTANCE LossyQueue WITH
    Cap <- CMD_LINES - 1, queue <- CmdQueue, offered <- pushed
CommandsAreQueued == Commands!QueueSpec

(* So is the output ring, of OUT_LINES - 1 lines.                           *)
Output == INSTANCE LossyQueue WITH
    Cap <- OUT_LINES - 1, queue <- OutQueue, offered <- printed
OutputIsQueued == Output!QueueSpec

(* No line of a response is refused that the empty ring would have held:    *)
(* what earlier commands have printed, or a host that does not listen, never *)
(* costs a response a line ("Drain the output ring", usb_serial.c:129).      *)
ResponsesFit == \A i \in refused : i >= OUT_LINES

(* Words of two lines come together in one command only when the host hangs  *)
(* up in the middle of the first: the line being typed outlives its session. *)
Unmixed(l) == \A i \in 2 .. Len(l) : l[i].begins # "line"
CommandsAreLines ==
    Unmixed(accum) /\ \A i \in 1 .. Len(CmdQueue) : Unmixed(CmdQueue[i])

(* However slowly the host fetches, and although what tud_cdc_write cannot   *)
(* take is dropped, the host sees a prefix of each response, never one with  *)
(* a hole: a response goes out in one turn of the loop, in which the CDC     *)
(* buffer only fills.                                                       *)
HostSeesPrefixes ==
    [][sent' # sent => \/ sent' = Nothing
                       \/ sent'.n = sent.n /\ sent'.from = sent.upto
                       \/ sent'.n # sent.n /\ sent'.from = 0]_vars

=============================================================================
