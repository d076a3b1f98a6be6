------------------------------ MODULE BootReport ------------------------------
(***************************************************************************)
(* The report of a round (boot_diag_possible_causes, boot_diag_format_report *)
(* and cmd_boot) as far as its size goes: a text is a sequence of lines,     *)
(* each with its section and its length including the line end.  The causes  *)
(* are put together in a buffer of 400 characters, the report in one of 800, *)
(* and the console takes 31 lines.  What does not fit is cut off.           *)
(***************************************************************************)
EXTENDS Diagnosis

CONSTANTS
    CausesSize,   \* causes[400]
    ReportSize,   \* buf[800]
    RingLines,    \* USB_OUT_RING_LINES - 1
    LineSize      \* USB_OUT_LINE_LEN (80)

ASSUME SizeAssumption ==
    /\ {CausesSize, ReportSize, RingLines, LineSize} \subseteq Nat
    /\ CausesSize >= 400 /\ ReportSize >= CausesSize + 400
    /\ RingLines >= 31 /\ LineSize >= 80 /\ MIN_ADDR_BITS >= 6

Line(section, len) == <<[section |-> section, len |-> len, whole |-> TRUE]>>
LineIf(p, section, len) == IF p THEN Line(section, len) ELSE << >>

(* "D3 " or " A12" for each line of a mask.                                 *)
Names(mask) == 3 * Cardinality(mask \cap 0 .. 9) + 4 * Cardinality(mask \ (0 .. 9))

(* The offset that appendf returns after each line.                         *)
Offsets(text) ==
    LET off[i \in 0 .. Len(text)] == IF i = 0 THEN 0 ELSE off[i - 1] + text[i].len
    IN  off

(* appendf stops at the end of the buffer: what is left is a prefix.        *)
Room(text, size, i) == size - 1 - Offsets(text)[i - 1]
Kept(text, size, i) ==
    IF text[i].len <= Room(text, size, i) THEN text[i]
    ELSE [text[i] EXCEPT !.len = Room(text, size, i), !.whole = FALSE]
Fits(text, size) ==
    [i \in {j \in DOMAIN text : Room(text, size, j) > 0} |-> Kept(text, size, i)]

-------------------------------------------------------------------------------
ShortName == <<12, 15, 14, 14, 13, 15, 15, 8, 9>>   \* boot_phase_short_name
FullName  == <<18, 15, 14, 18, 19, 16, 18, 17, 14>> \* boot_phase_name
ASSUME NamesAssumption == NPhases <= Len(ShortName)

first_missing(flags) ==
    IF Phases \subseteq flags THEN NPhases
    ELSE CHOOSE p \in Phases \ flags : \A q \in Phases \ flags : p <= q

phase_status_of(flags, p) ==
    IF p \in flags THEN "OK" ELSE IF p = first_missing(flags) THEN "STALLED" ELSE "--"

CauseSize == [CLK_ABSENT |-> 42, CLK_OUT_OF_RANGE |-> 34, RESET_STUCK |-> 41,
              NO_BUS_CYCLES |-> 45, WAIT_STUCK_LOW |-> 30]
NameSize  == [CLK_ABSENT |-> 8, CLK_OUT_OF_RANGE |-> 14, RESET_STUCK |-> 10,
              NO_BUS_CYCLES |-> 13, WAIT_STUCK_LOW |-> 15]
Order     == <<"CLK_ABSENT", "CLK_OUT_OF_RANGE", "RESET_STUCK", "NO_BUS_CYCLES",
               "WAIT_STUCK_LOW">>

Cause(r, i)   == LineIf(Order[i] \in r.anomaly_flags, "causes", CauseSize[Order[i]])
Anomaly(r, i) == LineIf(Order[i] \in r.anomaly_flags, "anomalies", 3 + NameSize[Order[i]])

(* One line for every finding.                                              *)
FindingsBeforeAddr(r) ==
    Cause(r, 1) \o Cause(r, 2) \o Cause(r, 3) \o Cause(r, 4) \o Cause(r, 5)
    \o LineIf(r.stuck_data_hi # {}, "causes", Names(r.stuck_data_hi) + 37)
    \o LineIf(r.stuck_data_lo # {}, "causes", Names(r.stuck_data_lo) + 37)
Findings(r) ==
    FindingsBeforeAddr(r)
    \o LineIf(r.stuck_addr # {}, "causes", Names(r.stuck_addr) + 31)
    \o LineIf(r.bus_undriven, "causes", 54)
    \o LineIf(r.cp_failed # {}, "causes", 40)

possible_causes(r) ==
    IF Findings(r) # << >> THEN Fits(Findings(r), CausesSize)
    ELSE Line("causes", IF Phases \subseteq r.phase_flags THEN 82
                        ELSE 33 + ShortName[first_missing(r.phase_flags) + 1])

(* "- " before each cause, and a line end for one that has lost its own.    *)
Listed(text) ==
    [i \in DOMAIN text |->
        [text[i] EXCEPT !.len = IF text[i].whole THEN @ + 2 ELSE @ + 3, !.whole = TRUE]]

(* Three windows of 8 s hold fewer than 10^8 reads.                         *)
ReadsDigits == 8

IntegrityLines(r) ==
    LET problems ==
            LineIf(r.stuck_data_hi # {}, "integrity", 17 + Names(r.stuck_data_hi))
            \o LineIf(r.stuck_data_lo # {}, "integrity", 16 + Names(r.stuck_data_lo))
            \o LineIf(r.stuck_addr # {}, "integrity", 12 + Names(r.stuck_addr))
            \o LineIf(r.bus_undriven, "integrity", 26)
            \o LineIf(r.cp_failed # {}, "integrity", 36)
    IN  Line("integrity", 24 + ReadsDigits)
        \o (IF problems = << >> THEN Line("integrity", 5) ELSE problems)

AnomalyLines(r) ==
    LineIf(r.anomaly_flags # {}, "anomalies", 11)
    \o Anomaly(r, 1) \o Anomaly(r, 2) \o Anomaly(r, 3) \o Anomaly(r, 4) \o Anomaly(r, 5)

StatusSize(status) == IF status = "STALLED" THEN 7 ELSE 2
PhaseLines(r) ==
    LET next == first_missing(r.phase_flags) IN
    Line("phases", 1)
    \o Line("phases", 21 + IF next = NPhases THEN 8 ELSE FullName[next + 1])
    \o Line("phases", 8)
    \o [i \in 1 .. NPhases |-> [section |-> "phases", whole |-> TRUE,
           len |-> ShortName[i] + 5 + StatusSize(phase_status_of(r.phase_flags, i - 1))]]
    \o Line("phases", 33)

Heading(r) == Line("title", IF r.passes_run = 1 THEN 33 ELSE 35) \o Line("title", 1)
CauseLines(r) ==
    Line("causes", 17) \o Listed(possible_causes(r)) \o Line("causes", 1)

Shuffled(r) == Heading(r) \o PhaseLines(r) \o CauseLines(r) \o IntegrityLines(r)
               \o AnomalyLines(r)
Sections(r) == Heading(r) \o CauseLines(r) \o IntegrityLines(r) \o AnomalyLines(r)
               \o PhaseLines(r)
format_report(r) == Fits(Sections(r), ReportSize)

(* cmd_boot: one line of its own, then the report line by line, each in a    *)
(* buffer with room for the line end and a null.                             *)
Clipped(l) ==
    IF l.len < LineSize - 1 THEN l ELSE [l EXCEPT !.len = LineSize - 2, !.whole = FALSE]
Copied(text) == [i \in DOMAIN text |-> Clipped(text[i])]
Printed(r) ==
    LET all == Line("title", 79) \o Copied(format_report(r))
    IN  SubSeq(all, 1, IF Len(all) < RingLines THEN Len(all) ELSE RingLines)

-------------------------------------------------------------------------------
(* Properties.                                                              *)

Count(text, section) ==
    Cardinality({i \in DOMAIN text : text[i].section = section /\ text[i].whole})

Found(r) ==
    Cardinality(r.anomaly_flags) + If(r.stuck_data_hi # {}) + If(r.stuck_data_lo # {})
    + If(r.stuck_addr # {}) + If(r.bus_undriven) + If(r.cp_failed # {})

(* "Every finding present in the result contributes its own newline-         *)
(* terminated hint line, so one observation never masks another"            *)
(* (boot_diag.h:59-61), as far as 400 characters reach: it holds unless all  *)
(* five anomalies come together, which takes passes that differ; with no     *)
(* finding there is one line all the same.                                  *)
EveryFindingHinted ==
    s_phase = "DONE" /\ s_result.anomaly_flags # AnomalyNames =>
        LET hints == possible_causes(s_result)
        IN  /\ Count(hints, "causes") = Len(hints)
            /\ Len(hints) = IF Found(s_result) = 0 THEN 1 ELSE Found(s_result)

(* However much is found, the causes, the integrity section and the          *)
(* anomalies reach the console: neither the 800 characters of the report nor *)
(* 31 lines of 77 characters cut anything but the list of phases.  The one   *)
(* exception is the hint of a faultless boot, which loses its last words.    *)
Faultless(r) == Findings(r) = << >> /\ Phases \subseteq r.phase_flags
OnlyPhasesAreCut ==
    s_phase = "DONE" =>
        LET text == Printed(s_result)
            Complete(section, lines) == Count(text, section) = Len(lines)
        IN  /\ ~Faultless(s_result) => Complete("causes", CauseLines(s_result))
            /\ Complete("integrity", IntegrityLines(s_result))
            /\ Complete("anomalies", AnomalyLines(s_result))

===============================================================================
