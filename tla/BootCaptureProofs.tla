--------------------------- MODULE BootCaptureProofs ---------------------------
(***************************************************************************)
(* The detector behind the three sources, for all bus cycles, any length of  *)
(* alog and any number of cycles.  The phases of the bus are in the          *)
(* detector or in a word still waiting, and no word says more; the header    *)
(* bytes are those of the last alog words, whatever the rings hold.          *)
(***************************************************************************)
EXTENDS BootCapture, TLAPS

MemWords  == [addr : Address, m1 : BOOLEAN, wr : BOOLEAN, data : Byte]
IoWords   == [addr : Address, wr : BOOLEAN, data : Byte]
AlogWords == [addr : Address, data : Byte]
Detector  == [flags : SUBSET Phases, ppi : BOOLEAN, workarea : BOOLEAN,
              header_read : BOOLEAN, bytes : [Header -> Byte]]

Types ==
    /\ memq \in Seq(MemWords) /\ ioq \in Seq(IoWords) /\ alog \in Seq(AlogWords)
    /\ det \in Detector /\ truth \in Detector

(* What is left in a turn is there to be read.                              *)
Sizes ==
    /\ count \in 0 .. MaxCycles /\ bd_alog_rd \in Nat /\ left \in Nat
    /\ Len(memq) <= count /\ Len(ioq) <= count /\ Len(alog) <= count
    /\ Len(alog) <= AlogTotal /\ bd_alog_rd <= Len(alog)
    /\ pc \in {"loop", "mem", "io", "alog"}
    /\ pc = "loop" => left = 0
    /\ pc = "mem" => left <= Len(memq)
    /\ pc = "io" => left <= Len(ioq)
    /\ pc = "alog" => left <= Len(alog) - bd_alog_rd

(* The phases a waiting word will say.                                      *)
Says(e)   == Reached(e.kind, e.addr)
WordsIn(q) == {q[i] : i \in 1 .. Len(q)}
MemSays(q) == UNION {Says(decode_mem(w)) : w \in WordsIn(q)}
IoSays(q)  == UNION {Says(decode_io(w)) : w \in WordsIn(q)}
FlagsMatch ==
    /\ truth.flags = det.flags \cup MemSays(memq) \cup IoSays(ioq)
    /\ \A i \in 1 .. Len(alog) : alog[i].addr \in Header => CART_SCAN \in truth.flags

(* The bytes are those of the last header words among the first n.          *)
LastByte(log, n, a, b) ==
    \/ b = Unseen /\ \A i \in 1 .. n : log[i].addr # a
    \/ \E i \in 1 .. n : /\ log[i].addr = a /\ log[i].data = b
                         /\ \A j \in i + 1 .. n : log[j].addr # a
LastBytes(log, n, bytes) == \A a \in Header : LastByte(log, n, a, bytes[a])
HeaderAt(log, n) ==
    \E bytes \in [Header -> Byte] : LastBytes(log, n, bytes) /\ IsHeader(bytes)

HeadersMatch ==
    /\ LastBytes(alog, bd_alog_rd, det.bytes)
    /\ det.header_read <=> \E n \in 0 .. bd_alog_rd : HeaderAt(alog, n)
    /\ \A n \in 0 .. Len(alog) : HeaderAt(alog, n) => truth.header_read
    /\ IsHeader(truth.bytes) => truth.header_read
    /\ Len(alog) < AlogTotal =>
          /\ LastBytes(alog, Len(alog), truth.bytes)
          /\ truth.header_read => \E n \in 0 .. Len(alog) : HeaderAt(alog, n)

IInv == Types /\ Sizes /\ FlagsMatch /\ HeadersMatch

-----------------------------------------------------------------------------
(* An unseen byte is a byte, and not one of a header.                       *)
LEMMA UnseenByte == Unseen \in Byte /\ ~IsHeader([a \in Header |-> Unseen])
<1>1. Unseen \in Byte BY SMT DEF Unseen, Byte
<1>2. \h4000 \in Header BY SMT DEF Header
<1>3. Unseen # \h41 BY SMT DEF Unseen
<1> QED BY <1>1, <1>2, <1>3, SMT DEF IsHeader

(* A milestone is one of the nine phases.                                   *)
LEMMA ReachedPhases == \A kind, addr : Reached(kind, addr) \subseteq Phases
<1> TAKE kind, addr
<1> USE DEF Phases, RESET_VECTOR, BIOS_ENTRY, SLOT_RAM_PROBE, BIOS_INIT_DONE,
     BASIC_HANDOFF, BASIC_COLDSTART, BASIC_BIOS_VECS, VDP_INIT, CART_SCAN
<1>1. \A m \in FetchPhase : m[2] \in Phases
  BY SMT DEF FetchPhase
<1>2. \A condition, phase : If(condition, phase) \subseteq {phase}
  BY DEF If
<1>3. {CART_SCAN, BASIC_COLDSTART, SLOT_RAM_PROBE, BIOS_ENTRY, VDP_INIT} \subseteq Phases
  BY SMT
<1> HIDE DEF Phases, RESET_VECTOR, BIOS_ENTRY, SLOT_RAM_PROBE, BIOS_INIT_DONE,
     BASIC_HANDOFF, BASIC_COLDSTART, BASIC_BIOS_VECS, VDP_INIT, CART_SCAN
<1> QED BY <1>1, <1>2, <1>3, SMT DEF Reached

(* What the words of the two rings say, by their kind.                      *)
LEMMA ReachedByKind ==
    /\ \A a : Reached("ioRead", a) = {}
    /\ \A a : Reached("memRead", a) = IF a \in Header THEN {CART_SCAN} ELSE {}
BY DEF Reached, If

(* A word of the memory ring leaves the header bytes alone.                 *)
LEMMA FeedMemWord ==
    ASSUME NEW d \in Detector, NEW w \in MemWords
    PROVE  LET e == Feed(d, decode_mem(w))
           IN  /\ e \in Detector
               /\ e.flags = d.flags \cup Says(decode_mem(w))
               /\ e.bytes = d.bytes /\ e.header_read = d.header_read
<1> DEFINE e == decode_mem(w)
<1>1. ~HeaderByte(e)
  BY DEF HeaderByte, decode_mem, TrustSettled
<1>2. Latch(d.bytes, e) = d.bytes
  BY <1>1 DEF Latch
<1>3. Says(e) \subseteq Phases
  BY ReachedPhases DEF Says
<1> QED BY <1>1, <1>2, <1>3 DEF Feed, Detector, Says

(* Neither does a word of the I/O ring.                                     *)
LEMMA FeedIoWord ==
    ASSUME NEW d \in Detector, NEW w \in IoWords
    PROVE  LET e == Feed(d, decode_io(w))
           IN  /\ e \in Detector
               /\ e.flags = d.flags \cup Says(decode_io(w))
               /\ e.bytes = d.bytes /\ e.header_read = d.header_read
<1> DEFINE e == decode_io(w)
<1>1. ~HeaderByte(e)
  BY DEF HeaderByte, decode_io, IoKind
<1>2. Latch(d.bytes, e) = d.bytes
  BY <1>1 DEF Latch
<1>3. Says(e) \subseteq Phases
  BY ReachedPhases DEF Says
<1> QED BY <1>1, <1>2, <1>3 DEF Feed, Detector, Says

(* A header word of alog sets the byte at its address.                      *)
LEMMA FeedHeaderWord ==
    ASSUME NEW d \in Detector, NEW w \in AlogWords, w.addr \in Header
    PROVE  LET e == Feed(d, header_event(w))
               b == [d.bytes EXCEPT ![w.addr] = w.data]
           IN  /\ e \in Detector
               /\ e.flags = d.flags \cup {CART_SCAN}
               /\ e.bytes = b /\ e.header_read = (d.header_read \/ IsHeader(b))
<1> DEFINE e == header_event(w)
<1>1. /\ e.kind = "memRead" /\ e.addr = w.addr /\ e.data = w.data /\ e.valid
  BY DEF header_event
<1>2. HeaderByte(e)
  BY <1>1 DEF HeaderByte
<1>3. Latch(d.bytes, e) = [d.bytes EXCEPT ![w.addr] = w.data]
  BY <1>1, <1>2 DEF Latch
<1>4. Reached(e.kind, e.addr) = {CART_SCAN} /\ {CART_SCAN} \subseteq Phases
  BY <1>1, ReachedByKind, ReachedPhases
<1>5. [d.bytes EXCEPT ![w.addr] = w.data] \in [Header -> Byte]
  BY DEF Detector, AlogWords
<1> HIDE DEF e
<1> DEFINE f == Feed(d, e)
<1>6. /\ f.flags = d.flags \cup Reached(e.kind, e.addr)
      /\ f.bytes = Latch(d.bytes, e)
      /\ f.header_read = (d.header_read \/ (HeaderByte(e) /\ IsHeader(Latch(d.bytes, e))))
  BY DEF Feed
<1>7. f \in Detector
  BY <1>3, <1>4, <1>5 DEF Feed, Detector
<1> QED BY <1>2, <1>3, <1>4, <1>6, <1>7 DEF e

(* The words waiting, when one more comes and when the first is taken.       *)
LEMMA OneMore ==
    ASSUME NEW S, NEW q \in Seq(S), NEW w \in S
    PROVE  /\ Append(q, w) \in Seq(S) /\ Len(Append(q, w)) = Len(q) + 1
           /\ WordsIn(Append(q, w)) = WordsIn(q) \cup {w}
<1>1. /\ Len(Append(q, w)) = Len(q) + 1 /\ Append(q, w)[Len(q) + 1] = w
      /\ \A i \in 1 .. Len(q) : Append(q, w)[i] = q[i]
  OBVIOUS
<1>2. 1 .. Len(q) + 1 = (1 .. Len(q)) \cup {Len(q) + 1}
  OBVIOUS
<1> QED BY <1>1, <1>2 DEF WordsIn

(* The words in a queue without its first.                                  *)
LEMMA OneLess ==
    ASSUME NEW S, NEW q \in Seq(S), Len(q) > 0
    PROVE  /\ Tail(q) \in Seq(S) /\ Len(Tail(q)) = Len(q) - 1 /\ Head(q) \in S
           /\ WordsIn(q) = {Head(q)} \cup WordsIn(Tail(q))
<1>1. /\ Tail(q) \in Seq(S) /\ Head(q) \in S
      /\ Len(q) \in Nat /\ Len(Tail(q)) = Len(q) - 1 /\ Head(q) = q[1]
      /\ \A i \in 1 .. Len(q) - 1 : Tail(q)[i] = q[i + 1]
  OBVIOUS
<1>2. WordsIn(q) = {q[1]} \cup {q[i] : i \in 2 .. Len(q)}
  <2>1. 1 .. Len(q) = {1} \cup 2 .. Len(q) BY <1>1
  <2> QED BY <2>1 DEF WordsIn
<1>3. ASSUME NEW i \in 2 .. Len(q) PROVE q[i] \in WordsIn(Tail(q))
  <2>1. i - 1 \in 1 .. Len(q) - 1 /\ (i - 1) + 1 = i BY <1>1
  <2>2. Tail(q)[i - 1] = q[i] BY <1>1, <2>1
  <2> QED BY <1>1, <2>1, <2>2 DEF WordsIn
<1>4. ASSUME NEW i \in 1 .. Len(q) - 1 PROVE Tail(q)[i] \in {q[j] : j \in 2 .. Len(q)}
  <2>1. i + 1 \in 2 .. Len(q) BY <1>1
  <2> QED BY <1>1, <2>1
<1>5. WordsIn(Tail(q)) = {q[j] : j \in 2 .. Len(q)}
  BY <1>1, <1>3, <1>4 DEF WordsIn
<1> QED BY <1>1, <1>2, <1>5

-----------------------------------------------------------------------------
(* What a bus cycle shows is what its word in one of the rings will say; a   *)
(* header byte the CPU reads from the slot also reaches alog.               *)
LEMMA CycleSays ==
    ASSUME NEW c \in Cycles
    PROVE  /\ c.type \in {"fetch", "refresh", "read", "write"} =>
                  c.shows = Says(decode_mem(MemWord(c)))
           /\ c.type \in {"in", "out", "intack"} =>
                  c.shows = Says(decode_io(IoWord(c)))
           /\ c.type = "read" /\ c.addr \in Header => CART_SCAN \in c.shows
<1>1. /\ c.type = "fetch" => c.shows = Reached("fetch", c.addr)
      /\ c.type = "read" => c.shows = Reached("memRead", c.addr)
      /\ c.type = "write" => c.shows = Reached("memWrite", c.addr)
      /\ c.type = "out" => c.shows = Reached("ioWrite", c.addr)
      /\ c.type \in {"refresh", "in", "intack"} => c.shows = {}
  BY ShowsAssumption DEF Meant
<1>2. /\ decode_mem(MemWord(c)).addr = c.addr
      /\ decode_mem(MemWord(c)).kind = IF c.type = "fetch" THEN "fetch"
                                       ELSE IF c.type = "write" THEN "memWrite" ELSE "memRead"
  BY DEF decode_mem, MemKind, MemWord
<1>3. /\ decode_io(IoWord(c)).addr = c.addr
      /\ decode_io(IoWord(c)).kind = IF c.type = "out" THEN "ioWrite" ELSE "ioRead"
  BY DEF decode_io, IoKind, IoWord
<1>4. c.type = "refresh" => Reached("memRead", c.addr) = {}
  BY HeaderAssumption, ReachedByKind
<1>5. c.type = "read" /\ c.addr \in Header => CART_SCAN \in c.shows
  BY <1>1, ReachedByKind
<1>6. Reached("ioRead", c.addr) = {}
  BY ReachedByKind
<1> QED BY <1>1, <1>2, <1>3, <1>4, <1>5, <1>6 DEF Says

(* Every state machine stores a well-typed word.                            *)
LEMMA WordsTyped ==
    ASSUME NEW c \in Cycles
    PROVE  /\ c.type \in CycleTypes /\ c.shows \subseteq Phases
           /\ c.addr \in Address /\ c.data \in Byte
           /\ MemWord(c) \in MemWords /\ IoWord(c) \in IoWords
           /\ AlogWord(c) \in AlogWords
<1>1. /\ c.type \in CycleTypes /\ c.shows \subseteq Phases
      /\ c.addr \in Address /\ c.data \in Byte
  BY CycleAssumption
<1>2. MemWord(c) \in MemWords
  BY <1>1, UnseenByte DEF MemWord, MemWords
<1>3. IoWord(c) \in IoWords
  BY <1>1 DEF IoWord, IoWords
<1>4. AlogWord(c) \in AlogWords
  BY <1>1 DEF AlogWord, AlogWords
<1> QED BY <1>1, <1>2, <1>3, <1>4

-----------------------------------------------------------------------------
(* A log tells one last byte for each address.                              *)
LEMMA OneLastByte ==
    ASSUME NEW log, NEW n \in Nat, NEW a, NEW b, NEW c,
           LastByte(log, n, a, b), LastByte(log, n, a, c)
    PROVE  b = c
<1>1. CASE \A i \in 1 .. n : log[i].addr # a
  BY <1>1 DEF LastByte
<1>2. CASE \E i \in 1 .. n : log[i].addr = a
  <2>1. PICK i \in 1 .. n : /\ log[i].addr = a /\ log[i].data = b
                            /\ \A k \in i + 1 .. n : log[k].addr # a
    BY <1>2 DEF LastByte
  <2>2. PICK j \in 1 .. n : /\ log[j].addr = a /\ log[j].data = c
                            /\ \A k \in j + 1 .. n : log[k].addr # a
    BY <1>2 DEF LastByte
  <2>3. i = j BY <2>1, <2>2
  <2> QED BY <2>1, <2>2, <2>3
<1> QED BY <1>1, <1>2

(* So a log says what the detector latched of the header, and nothing else.  *)
LEMMA HeaderIsLast ==
    ASSUME NEW log, NEW n \in Nat, NEW b \in [Header -> Byte], LastBytes(log, n, b)
    PROVE  /\ HeaderAt(log, n) <=> IsHeader(b)
           /\ \A c \in [Header -> Byte] : LastBytes(log, n, c) => c = b
<1>1. ASSUME NEW c \in [Header -> Byte], LastBytes(log, n, c) PROVE c = b
  <2>1. \A a \in Header : c[a] = b[a]
    BY <1>1, OneLastByte DEF LastBytes
  <2> QED BY <2>1
<1> QED BY <1>1 DEF HeaderAt

(* Only the words before tell the last bytes.                               *)
LEMMA SamePrefix ==
    ASSUME NEW log, NEW new, NEW n \in Nat, \A i \in 1 .. n : new[i] = log[i]
    PROVE  /\ \A b : LastBytes(new, n, b) <=> LastBytes(log, n, b)
           /\ HeaderAt(new, n) <=> HeaderAt(log, n)
<1>1. ASSUME NEW a, NEW b PROVE LastByte(new, n, a, b) <=> LastByte(log, n, a, b)
  <2>1. \A i \in 1 .. n : \A j \in i + 1 .. n : j \in 1 .. n
    OBVIOUS
  <2> QED BY <2>1 DEF LastByte
<1> QED BY <1>1 DEF LastBytes, HeaderAt

(* The next word sets the byte at its own address, if that is in the header. *)
LEMMA NextWord ==
    ASSUME NEW log, NEW n \in Nat
    PROVE  /\ log[n + 1].addr \notin Header =>
                 /\ \A b : LastBytes(log, n + 1, b) <=> LastBytes(log, n, b)
                 /\ HeaderAt(log, n + 1) <=> HeaderAt(log, n)
           /\ \A b \in [Header -> Byte] :
                 log[n + 1].addr \in Header /\ LastBytes(log, n, b) =>
                     LastBytes(log, n + 1, [b EXCEPT ![log[n + 1].addr] = log[n + 1].data])
<1> DEFINE w == log[n + 1]
<1>0. 1 .. n + 1 = (1 .. n) \cup {n + 1} /\ n + 1 \notin 1 .. n
  OBVIOUS
<1>1. ASSUME NEW a, w.addr # a, NEW b
      PROVE  LastByte(log, n + 1, a, b) <=> LastByte(log, n, a, b)
  <2>1. (\A i \in 1 .. n + 1 : log[i].addr # a) <=> (\A i \in 1 .. n : log[i].addr # a)
    BY <1>0, <1>1
  <2>2. \A i \in 1 .. n : (\A j \in i + 1 .. n + 1 : log[j].addr # a)
                          <=> (\A j \in i + 1 .. n : log[j].addr # a)
    <3>1. \A i \in 1 .. n : i + 1 .. n + 1 = (i + 1 .. n) \cup {n + 1}
      OBVIOUS
    <3> QED BY <3>1, <1>1
  <2>3. LastByte(log, n + 1, a, b) => LastByte(log, n, a, b)
    BY <1>0, <1>1, <2>1, <2>2 DEF LastByte
  <2>4. LastByte(log, n, a, b) => LastByte(log, n + 1, a, b)
    BY <1>0, <1>1, <2>1, <2>2 DEF LastByte
  <2> QED BY <2>3, <2>4
<1>2. LastByte(log, n + 1, w.addr, w.data)
  <2>1. n + 1 \in 1 .. n + 1 /\ \A j \in (n + 1) + 1 .. n + 1 : FALSE
    OBVIOUS
  <2> QED BY <2>1 DEF LastByte
<1>3. ASSUME w.addr \notin Header
      PROVE  /\ \A b : LastBytes(log, n + 1, b) <=> LastBytes(log, n, b)
             /\ HeaderAt(log, n + 1) <=> HeaderAt(log, n)
  BY <1>1, <1>3 DEF LastBytes, HeaderAt
<1>4. ASSUME NEW b \in [Header -> Byte], w.addr \in Header, LastBytes(log, n, b)
      PROVE  LastBytes(log, n + 1, [b EXCEPT ![w.addr] = w.data])
  <2> DEFINE c == [b EXCEPT ![w.addr] = w.data]
  <2>1. c[w.addr] = w.data /\ \A a \in Header \ {w.addr} : c[a] = b[a]
    BY <1>4
  <2>2. \A a \in Header \ {w.addr} : LastByte(log, n + 1, a, b[a])
    BY <1>1, <1>4 DEF LastBytes
  <2> QED BY <1>2, <2>1, <2>2 DEF LastBytes
<1> QED BY <1>3, <1>4

-----------------------------------------------------------------------------
(* Nothing was on the bus and nothing is known.                             *)
LEMMA InitiallyMatched == Init => IInv
<1> SUFFICES ASSUME Init PROVE IInv OBVIOUS
<1>1. Types
  BY UnseenByte DEF Init, Types, Reset, Detector
<1>2. Sizes
  BY BoundAssumption DEF Init, Sizes
<1>3. FlagsMatch
  BY DEF Init, FlagsMatch, Reset, MemSays, IoSays, WordsIn
<1>4. Reset.bytes \in [Header -> Byte] /\ LastBytes(alog, 0, Reset.bytes)
  BY UnseenByte DEF Reset, LastBytes, LastByte
<1>5. ~IsHeader(Reset.bytes)
  BY UnseenByte DEF Reset
<1>6. ~HeaderAt(alog, 0)
  BY <1>4, <1>5, HeaderIsLast
<1>7. HeadersMatch
  BY <1>4, <1>5, <1>6 DEF Init, HeadersMatch, Reset
<1> QED BY <1>1, <1>2, <1>3, <1>7 DEF IInv

-----------------------------------------------------------------------------
(* A bus cycle leaves the detector alone and adds its words to the sources.  *)
LEMMA CycleTyped ==
    ASSUME IInv, NEW c \in Cycles, BusCycle(c)
    PROVE  Types' /\ Sizes'
<1>1. /\ MemWord(c) \in MemWords /\ IoWord(c) \in IoWords /\ AlogWord(c) \in AlogWords
      /\ c.addr \in Address /\ c.data \in Byte /\ c.shows \subseteq Phases
  BY WordsTyped
<1>2. memq' \in Seq(MemWords) /\ Len(memq') \in {Len(memq), Len(memq) + 1}
  BY <1>1, OneMore DEF IInv, Types, BusCycle, Push
<1>3. ioq' \in Seq(IoWords) /\ Len(ioq') \in {Len(ioq), Len(ioq) + 1}
  BY <1>1, OneMore DEF IInv, Types, BusCycle, Push
<1>4. /\ alog' \in Seq(AlogWords)
      /\ Len(alog') = Len(alog) \/ (Len(alog') = Len(alog) + 1 /\ Len(alog) < AlogTotal)
  BY <1>1, OneMore DEF IInv, Types, BusCycle, Push
<1>5. Observe(truth, c) \in Detector
  <2>1. truth \in Detector BY DEF IInv, Types
  <2>2. [truth.bytes EXCEPT ![c.addr] = c.data] \in [Header -> Byte]
    BY <1>1, <2>1 DEF Detector
  <2> QED BY <1>1, <2>1, <2>2 DEF Observe, Detector
<1>6. Types'
  BY <1>2, <1>3, <1>4, <1>5 DEF IInv, Types, BusCycle
<1>7. Len(memq) \in Nat /\ Len(ioq) \in Nat /\ Len(alog) \in Nat
  BY DEF IInv, Types
<1>8. Sizes'
  <2>1. /\ count' = count + 1 /\ count' \in 0 .. MaxCycles /\ count \in Nat
        /\ bd_alog_rd' = bd_alog_rd /\ pc' = pc /\ left' = left
        /\ bd_alog_rd \in Nat /\ left \in Nat /\ AlogTotal \in Nat
    BY BoundAssumption DEF IInv, Sizes, BusCycle
  <2>2. Len(memq') \in Nat /\ Len(ioq') \in Nat /\ Len(alog') \in Nat
    BY <1>2, <1>3, <1>4, <1>7
  <2>3. /\ Len(memq') <= count' /\ Len(ioq') <= count' /\ Len(alog') <= count'
        /\ Len(alog') <= AlogTotal
    <3>1. /\ Len(memq) <= count /\ Len(ioq) <= count /\ Len(alog) <= count
          /\ Len(alog) <= AlogTotal
      BY DEF IInv, Sizes
    <3>2. Len(memq') <= count' BY <1>2, <1>7, <2>1, <3>1
    <3>3. Len(ioq') <= count' BY <1>3, <1>7, <2>1, <3>1
    <3>4. Len(alog') <= count' /\ Len(alog') <= AlogTotal
      BY <1>4, <1>7, <2>1, <3>1
    <3> QED BY <3>2, <3>3, <3>4
  <2>4. /\ Len(memq) <= Len(memq') /\ Len(ioq) <= Len(ioq') /\ Len(alog) <= Len(alog')
    BY <1>2, <1>3, <1>4, <1>7
  <2>5. /\ bd_alog_rd <= Len(alog')
        /\ pc \in {"loop", "mem", "io", "alog"}
        /\ pc = "loop" => left = 0
        /\ pc = "mem" => left <= Len(memq')
        /\ pc = "io" => left <= Len(ioq')
        /\ pc = "alog" => left <= Len(alog') - bd_alog_rd
    BY <1>7, <2>1, <2>2, <2>4 DEF IInv, Sizes
  <2> QED BY <2>1, <2>3, <2>5 DEF Sizes
<1> QED BY <1>6, <1>8

(* What the cycle shows waits in one of the rings.                          *)
LEMMA CycleFlags ==
    ASSUME IInv, NEW c \in Cycles, BusCycle(c)
    PROVE  FlagsMatch'
<1>1. /\ MemWord(c) \in MemWords /\ IoWord(c) \in IoWords /\ AlogWord(c) \in AlogWords
      /\ c.type \in CycleTypes
  BY WordsTyped
<1>2. truth'.flags = truth.flags \cup c.shows
  BY DEF BusCycle, Observe, IInv, Types, Detector
<1>3. MemSays(memq') \cup IoSays(ioq') = MemSays(memq) \cup IoSays(ioq) \cup c.shows
  <2>1. CASE c.type \in {"fetch", "refresh", "read", "write"}
    <3>1. memq' = Append(memq, MemWord(c)) /\ ioq' = ioq
      BY <2>1 DEF BusCycle, Push
    <3>2. WordsIn(memq') = WordsIn(memq) \cup {MemWord(c)}
      BY <1>1, <3>1, OneMore DEF IInv, Types
    <3> QED BY <2>1, <3>1, <3>2, CycleSays DEF MemSays
  <2>2. CASE c.type \in {"in", "out", "intack"}
    <3>1. ioq' = Append(ioq, IoWord(c)) /\ memq' = memq
      BY <2>2 DEF BusCycle, Push
    <3>2. WordsIn(ioq') = WordsIn(ioq) \cup {IoWord(c)}
      BY <1>1, <3>1, OneMore DEF IInv, Types
    <3> QED BY <2>2, <3>1, <3>2, CycleSays DEF IoSays
  <2> QED BY <1>1, <2>1, <2>2 DEF CycleTypes
<1>4. \A i \in 1 .. Len(alog') : alog'[i].addr \in Header => CART_SCAN \in truth'.flags
  <2>1. CASE alog' = alog
    BY <1>2, <2>1 DEF IInv, FlagsMatch
  <2>2. CASE alog' = Append(alog, AlogWord(c)) /\ c.slot /\ c.type \in {"fetch", "read"}
    <3>1. /\ Len(alog') = Len(alog) + 1 /\ alog'[Len(alog) + 1] = AlogWord(c)
          /\ Len(alog) \in Nat /\ \A i \in 1 .. Len(alog) : alog'[i] = alog[i]
      BY <2>2, <1>1 DEF IInv, Types
    <3>2. c.addr \in Header => CART_SCAN \in c.shows
      BY <2>2, HeaderAssumption, CycleSays
    <3>3. AlogWord(c).addr = c.addr
      BY DEF AlogWord
    <3>4. \A i \in 1 .. Len(alog') : i \in 1 .. Len(alog) \/ i = Len(alog) + 1
      BY <3>1
    <3> QED BY <1>2, <3>1, <3>2, <3>3, <3>4 DEF IInv, FlagsMatch
  <2> QED BY <2>1, <2>2 DEF BusCycle, Push
<1> QED BY <1>2, <1>3, <1>4 DEF IInv, FlagsMatch, BusCycle

(* While alog has room the last words of the log and the bus agree on the    *)
(* header bytes.                                                            *)
LEMMA CycleHeaders ==
    ASSUME IInv, NEW c \in Cycles, BusCycle(c)
    PROVE  HeadersMatch'
<1> DEFINE n == Len(alog)
           read == c.slot /\ c.type = "read" /\ c.addr \in Header
           set == [truth.bytes EXCEPT ![c.addr] = c.data]
<1>1. /\ truth.bytes \in [Header -> Byte] /\ n \in Nat /\ bd_alog_rd \in 0 .. n
      /\ AlogWord(c) \in AlogWords /\ alog \in Seq(AlogWords)
      /\ AlogWord(c).addr = c.addr /\ AlogWord(c).data = c.data
      /\ c.data \in Byte
  BY WordsTyped DEF IInv, Types, Sizes, Detector, AlogWord
<1>2. /\ truth'.bytes = IF read THEN set ELSE truth.bytes
      /\ truth'.header_read = (truth.header_read \/ IsHeader(truth'.bytes))
  BY DEF BusCycle, Observe, IInv, Types, Detector
<1>3. truth'.bytes \in [Header -> Byte]
  BY <1>1, <1>2
<1>4. bd_alog_rd' = bd_alog_rd /\ det' = det
  BY DEF BusCycle
<1>5. CASE alog' = alog
  <2>1. n < AlogTotal => ~read
    <3>1. SUFFICES ASSUME n < AlogTotal, read PROVE FALSE
      OBVIOUS
    <3>2. alog' = Append(alog, AlogWord(c))
      BY <3>1 DEF BusCycle, Push
    <3>3. Len(alog') = n + 1
      BY <3>2, <1>1
    <3> QED BY <3>3, <1>1, <1>5
  <2>2. n < AlogTotal => /\ truth'.bytes = truth.bytes
                         /\ truth'.header_read <=> truth.header_read
    <3>1. IsHeader(truth.bytes) => truth.header_read
      BY DEF IInv, HeadersMatch
    <3> QED BY <1>2, <2>1, <3>1
  <2>3. \A m \in 0 .. Len(alog) : HeaderAt(alog, m) => truth'.header_read
    BY <1>2 DEF IInv, HeadersMatch
  <2> QED BY <1>2, <1>4, <1>5, <2>2, <2>3 DEF IInv, HeadersMatch
<1>6. CASE /\ alog' = Append(alog, AlogWord(c)) /\ n < AlogTotal
           /\ c.slot /\ c.type \in {"fetch", "read"}
  <2>1. /\ Len(alog') = n + 1 /\ alog'[n + 1] = AlogWord(c)
        /\ \A i \in 1 .. n : alog'[i] = alog[i]
    BY <1>1, <1>6
  <2>2. ASSUME NEW m \in 0 .. n
        PROVE  /\ HeaderAt(alog', m) <=> HeaderAt(alog, m)
               /\ \A b : LastBytes(alog', m, b) <=> LastBytes(alog, m, b)
    <3>1. m \in Nat /\ \A i \in 1 .. m : alog'[i] = alog[i]
      BY <1>1, <2>1
    <3> QED BY <3>1, SamePrefix
  <2>3. c.addr \in Header <=> read
    BY <1>6, HeaderAssumption
  <2>4. LastBytes(alog', n, truth.bytes)
    BY <1>1, <1>6, <2>2 DEF IInv, HeadersMatch
  <2>5. LastBytes(alog', n + 1, truth'.bytes)
    <3>1. alog'[n + 1].addr = c.addr /\ alog'[n + 1].data = c.data
      BY <1>1, <2>1
    <3>2. CASE read
      <4>1. truth'.bytes = [truth.bytes EXCEPT ![alog'[n + 1].addr] = alog'[n + 1].data]
        BY <1>2, <3>1, <3>2
      <4>2. alog'[n + 1].addr \in Header
        BY <3>1, <3>2
      <4> HIDE DEF n
      <4> QED BY <1>1, <2>4, <4>1, <4>2, NextWord
    <3>3. CASE ~read
      BY <1>1, <1>2, <2>3, <2>4, <3>1, <3>3, NextWord
    <3> QED BY <3>2, <3>3
  <2>6. HeaderAt(alog', n + 1) <=> IsHeader(truth'.bytes)
    BY <1>1, <1>3, <2>5, HeaderIsLast
  <2>7. \A m \in 0 .. Len(alog') : m \in 0 .. n \/ m = n + 1
    BY <1>1, <2>1
  <2>8. \A m \in 0 .. Len(alog') : HeaderAt(alog', m) => truth'.header_read
    BY <1>2, <2>2, <2>6, <2>7 DEF IInv, HeadersMatch
  <2>9. truth'.header_read => \E m \in 0 .. Len(alog') : HeaderAt(alog', m)
    <3>1. CASE truth.header_read
      <4>1. PICK m \in 0 .. n : HeaderAt(alog, m)
        BY <1>6, <3>1 DEF IInv, HeadersMatch
      <4>2. m \in 0 .. Len(alog')
        BY <1>1, <2>1
      <4> QED BY <2>2, <4>1, <4>2
    <3>2. CASE ~truth.header_read
      <4>1. n + 1 \in 0 .. Len(alog')
        BY <1>1, <2>1
      <4> QED BY <1>2, <2>6, <3>2, <4>1
    <3> QED BY <3>1, <3>2
  <2>10. LastBytes(alog', bd_alog_rd, det.bytes)
    BY <1>1, <2>2 DEF IInv, HeadersMatch
  <2>11. det.header_read <=> \E m \in 0 .. bd_alog_rd : HeaderAt(alog', m)
    <3>1. \A m \in 0 .. bd_alog_rd : m \in 0 .. n
      BY <1>1
    <3> QED BY <2>2, <3>1 DEF IInv, HeadersMatch
  <2> QED BY <1>2, <1>4, <2>1, <2>5, <2>8, <2>9, <2>10, <2>11 DEF HeadersMatch
<1> QED BY <1>5, <1>6 DEF BusCycle, Push

-----------------------------------------------------------------------------
(* A turn of boot_capture_drain only says how much there is to be read.     *)
LEMMA TurnStep ==
    IInv /\ (DrainMem \/ DrainIo \/ DrainAlog \/ Return) => IInv'
<1> SUFFICES ASSUME IInv, DrainMem \/ DrainIo \/ DrainAlog \/ Return PROVE IInv'
  OBVIOUS
<1>1. UNCHANGED <<memq, ioq, alog, bd_alog_rd, det, truth, count>>
  BY DEF DrainMem, DrainIo, DrainAlog, Return, Turn
<1>2. Len(memq) \in Nat /\ Len(ioq) \in Nat /\ Len(alog) \in Nat
  BY DEF IInv, Types
<1>3. Sizes'
  BY <1>1, <1>2 DEF IInv, Sizes, DrainMem, DrainIo, DrainAlog, Return, Turn, Waiting
<1>4. Types' /\ FlagsMatch' /\ HeadersMatch'
  BY <1>1 DEF IInv, Types, FlagsMatch, HeadersMatch
<1> QED BY <1>3, <1>4 DEF IInv

(* A word of the memory ring moves its phases to the detector.              *)
LEMMA MemStep == IInv /\ FeedMem => IInv'
<1> SUFFICES ASSUME IInv, FeedMem PROVE IInv' OBVIOUS
<1>1. memq \in Seq(MemWords) /\ det \in Detector /\ Len(memq) > 0
  BY DEF IInv, Types, Sizes, FeedMem
<1>2. /\ Tail(memq) \in Seq(MemWords) /\ Len(Tail(memq)) = Len(memq) - 1
      /\ Head(memq) \in MemWords
      /\ WordsIn(memq) = {Head(memq)} \cup WordsIn(Tail(memq))
  BY <1>1, OneLess
<1>3. /\ memq' = Tail(memq) /\ left' = left - 1 /\ left > 0 /\ pc = "mem"
      /\ det' = Feed(det, decode_mem(Head(memq)))
      /\ UNCHANGED <<ioq, alog, bd_alog_rd, pc, truth, count>>
  BY DEF FeedMem
<1>4. /\ det' \in Detector
      /\ det'.flags = det.flags \cup Says(decode_mem(Head(memq)))
      /\ det'.bytes = det.bytes /\ det'.header_read = det.header_read
  BY <1>1, <1>2, <1>3, FeedMemWord
<1>5. Types'
  BY <1>2, <1>3, <1>4 DEF IInv, Types
<1>6. Len(memq) \in Nat
  BY <1>1
<1>7. Sizes'
  BY <1>2, <1>3, <1>6 DEF IInv, Sizes
<1>8. MemSays(memq) = Says(decode_mem(Head(memq))) \cup MemSays(memq')
  BY <1>2, <1>3 DEF MemSays
<1>9. FlagsMatch'
  BY <1>3, <1>4, <1>8 DEF IInv, FlagsMatch
<1>10. HeadersMatch'
  BY <1>3, <1>4 DEF IInv, HeadersMatch
<1> QED BY <1>5, <1>7, <1>9, <1>10 DEF IInv

(* So does a word of the I/O ring.                                          *)
LEMMA IoStep == IInv /\ FeedIo => IInv'
<1> SUFFICES ASSUME IInv, FeedIo PROVE IInv' OBVIOUS
<1>1. ioq \in Seq(IoWords) /\ det \in Detector /\ Len(ioq) > 0
  BY DEF IInv, Types, Sizes, FeedIo
<1>2. /\ Tail(ioq) \in Seq(IoWords) /\ Len(Tail(ioq)) = Len(ioq) - 1
      /\ Head(ioq) \in IoWords
      /\ WordsIn(ioq) = {Head(ioq)} \cup WordsIn(Tail(ioq))
  BY <1>1, OneLess
<1>3. /\ ioq' = Tail(ioq) /\ left' = left - 1 /\ left > 0 /\ pc = "io"
      /\ det' = Feed(det, decode_io(Head(ioq)))
      /\ UNCHANGED <<memq, alog, bd_alog_rd, pc, truth, count>>
  BY DEF FeedIo
<1>4. /\ det' \in Detector
      /\ det'.flags = det.flags \cup Says(decode_io(Head(ioq)))
      /\ det'.bytes = det.bytes /\ det'.header_read = det.header_read
  BY <1>1, <1>2, <1>3, FeedIoWord
<1>5. Types'
  BY <1>2, <1>3, <1>4 DEF IInv, Types
<1>6. Len(ioq) \in Nat
  BY <1>1
<1>7. Sizes'
  BY <1>2, <1>3, <1>6 DEF IInv, Sizes
<1>8. IoSays(ioq) = Says(decode_io(Head(ioq))) \cup IoSays(ioq')
  BY <1>2, <1>3 DEF IoSays
<1>9. FlagsMatch'
  BY <1>3, <1>4, <1>8 DEF IInv, FlagsMatch
<1>10. HeadersMatch'
  BY <1>3, <1>4 DEF IInv, HeadersMatch
<1> QED BY <1>5, <1>7, <1>9, <1>10 DEF IInv

(* The next alog word, if it is of the header, brings its byte; the cartridge *)
(* scan it tells of is known from the memory ring, or will be.              *)
LEMMA AlogStep == IInv /\ FeedAlog => IInv'
<1> SUFFICES ASSUME IInv, FeedAlog PROVE IInv' OBVIOUS
<1> DEFINE n == bd_alog_rd
           w == alog[n + 1]
<1>1. /\ alog \in Seq(AlogWords) /\ det \in Detector /\ n \in Nat
      /\ Len(alog) \in Nat /\ n < Len(alog)
  BY DEF IInv, Types, Sizes, FeedAlog
<1>2. w \in AlogWords
  <2>1. n + 1 \in 1 .. Len(alog) BY <1>1
  <2> QED BY <1>1, <2>1
<1>3. /\ left' = left - 1 /\ left > 0 /\ pc = "alog" /\ n' = n + 1
      /\ det' = IF w.addr \in Header THEN Feed(det, header_event(w)) ELSE det
      /\ UNCHANGED <<memq, ioq, alog, pc, truth, count>>
  BY DEF FeedAlog, NextAlog
<1>4. Sizes'
  BY <1>1, <1>3 DEF IInv, Sizes
<1>5. LastBytes(alog, n, det.bytes) /\ det.bytes \in [Header -> Byte]
  BY <1>1 DEF IInv, HeadersMatch, Detector
<1>6. 0 .. n + 1 = (0 .. n) \cup {n + 1}
  BY <1>1
<1>7. CASE w.addr \in Header
  <2> DEFINE b == [det.bytes EXCEPT ![w.addr] = w.data]
  <2>1. /\ det' \in Detector /\ det'.flags = det.flags \cup {CART_SCAN}
        /\ det'.bytes = b /\ det'.header_read = (det.header_read \/ IsHeader(b))
    BY <1>1, <1>2, <1>3, <1>7, FeedHeaderWord
  <2>2. CART_SCAN \in truth.flags
    <3>1. n + 1 \in 1 .. Len(alog) BY <1>1
    <3> QED BY <1>7, <3>1 DEF IInv, FlagsMatch
  <2>3. b \in [Header -> Byte]
    BY <2>1 DEF Detector
  <2>4. LastBytes(alog, n + 1, b)
    BY <1>1, <1>5, <1>7, NextWord
  <2>5. HeaderAt(alog, n + 1) <=> IsHeader(b)
    <3>1. n + 1 \in Nat BY <1>1
    <3> HIDE DEF n, b
    <3> QED BY <2>3, <2>4, <3>1, HeaderIsLast
  <2>6. det'.header_read <=> \E m \in 0 .. n + 1 : HeaderAt(alog, m)
    BY <1>6, <2>1, <2>5 DEF IInv, HeadersMatch
  <2>7. Types'
    BY <1>3, <2>1 DEF IInv, Types
  <2>8. FlagsMatch'
    BY <1>3, <2>1, <2>2 DEF IInv, FlagsMatch
  <2>9. HeadersMatch'
    BY <1>3, <2>1, <2>4, <2>6 DEF IInv, HeadersMatch
  <2> QED BY <1>4, <2>7, <2>8, <2>9 DEF IInv
<1>8. CASE w.addr \notin Header
  <2>1. /\ LastBytes(alog, n + 1, det.bytes)
        /\ HeaderAt(alog, n + 1) <=> HeaderAt(alog, n)
    BY <1>1, <1>5, <1>8, NextWord
  <2>2. n \in 0 .. n
    BY <1>1
  <2>3. det.header_read <=> \E m \in 0 .. n + 1 : HeaderAt(alog, m)
    BY <1>6, <2>1, <2>2 DEF IInv, HeadersMatch
  <2>4. HeadersMatch'
    BY <1>3, <1>8, <2>1, <2>3 DEF IInv, HeadersMatch
  <2>5. Types' /\ FlagsMatch'
    BY <1>3, <1>8 DEF IInv, Types, FlagsMatch
  <2> QED BY <1>4, <2>4, <2>5 DEF IInv
<1> QED BY <1>7, <1>8

(* Bus and detector stay matched.                                           *)
LEMMA StaysMatched == IInv /\ [Next]_vars => IInv'
<1> SUFFICES ASSUME IInv, [Next]_vars PROVE IInv' OBVIOUS
<1>1. CASE UNCHANGED vars
  BY <1>1 DEF vars, IInv, Types, Sizes, FlagsMatch, HeadersMatch
<1>2. CASE Bus
  <2>1. PICK c \in Cycles : BusCycle(c)
    BY <1>2 DEF Bus
  <2> QED BY <2>1, CycleTyped, CycleFlags, CycleHeaders DEF IInv
<1>3. CASE Core1
  BY <1>3, TurnStep, MemStep, IoStep, AlogStep DEF Core1
<1> QED BY <1>1, <1>2, <1>3 DEF Next

-----------------------------------------------------------------------------
(* The types of the capture layer, and that no cursor passes what it reads.  *)
THEOREM TypeCorrect == Spec => []TypeOK
<1>1. IInv => TypeOK
  <2> SUFFICES ASSUME IInv PROVE TypeOK OBVIOUS
  <2>1. Len(memq) \in Nat /\ Len(ioq) \in Nat /\ Len(alog) \in Nat
    BY DEF IInv, Types
  <2>2. /\ Len(memq) <= MaxCycles /\ Len(ioq) <= MaxCycles
        /\ Len(alog) <= AlogTotal /\ bd_alog_rd \in 0 .. Len(alog)
        /\ pc \in {"loop", "mem", "io", "alog"} /\ left \in 0 .. MaxCycles
        /\ count \in 0 .. MaxCycles
    BY <2>1, BoundAssumption DEF IInv, Sizes
  <2>3. \A d \in {det, truth} : d.flags \subseteq Phases /\ d.bytes \in [Header -> Byte]
    BY DEF IInv, Types, Detector
  <2> QED BY <2>2, <2>3 DEF TypeOK
<1> QED BY <1>1, InitiallyMatched, StaysMatched, PTL DEF Spec

(* The detector never claims a phase or a cartridge header that the bus has  *)
(* not shown, whatever slips through the gates of the state machines         *)
(* (pios/boot_detect.pio, boot_detect.c).                                   *)
THEOREM DetectorNeverAhead == Spec => []NeverAhead
<1>1. IInv => NeverAhead
  <2> SUFFICES ASSUME IInv PROVE NeverAhead OBVIOUS
  <2>1. \A m \in 0 .. bd_alog_rd : m \in 0 .. Len(alog)
    <3>1. Len(alog) \in Nat BY DEF IInv, Types
    <3> QED BY <3>1 DEF IInv, Sizes
  <2>2. det.header_read => truth.header_read
    BY <2>1 DEF IInv, HeadersMatch
  <2> QED BY <2>2 DEF NeverAhead, IInv, FlagsMatch
<1> QED BY <1>1, InitiallyMatched, StaysMatched, PTL DEF Spec

(* Whatever the order in which boot_capture_drain comes to the three         *)
(* sources, an idle detector knows the phases that were on the bus and,      *)
(* unless alog ran full, the header bytes the CPU took.                     *)
THEOREM DrainOrderIsFree == Spec => []OrderDoesNotMatter
<1>1. IInv => OrderDoesNotMatter
  <2> SUFFICES ASSUME IInv, Drained PROVE
          /\ det.flags = truth.flags
          /\ Len(alog) < AlogTotal => /\ det.bytes = truth.bytes
                                      /\ det.header_read = truth.header_read
    BY DEF OrderDoesNotMatter
  <2>1. MemSays(memq) = {} /\ IoSays(ioq) = {}
    BY DEF Drained, MemSays, IoSays, WordsIn
  <2>2. det.flags = truth.flags
    BY <2>1 DEF IInv, FlagsMatch
  <2>3. ASSUME Len(alog) < AlogTotal
        PROVE  det.bytes = truth.bytes /\ det.header_read = truth.header_read
    <3>1. /\ det.bytes \in [Header -> Byte] /\ truth.bytes \in [Header -> Byte]
          /\ det.header_read \in BOOLEAN /\ truth.header_read \in BOOLEAN
          /\ Len(alog) \in Nat
      BY DEF IInv, Types, Detector
    <3>2. LastBytes(alog, Len(alog), det.bytes) /\ LastBytes(alog, Len(alog), truth.bytes)
      BY <2>3 DEF IInv, HeadersMatch, Drained
    <3>3. det.bytes = truth.bytes
      BY <3>1, <3>2, HeaderIsLast
    <3>4. det.header_read <=> truth.header_read
      BY <2>3 DEF IInv, HeadersMatch, Drained
    <3> QED BY <3>1, <3>3, <3>4
  <2> QED BY <2>2, <2>3
<1> QED BY <1>1, InitiallyMatched, StaysMatched, PTL DEF Spec
===============================================================================
