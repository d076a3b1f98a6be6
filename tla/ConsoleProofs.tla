--------------------------- MODULE ConsoleProofs ---------------------------
(***************************************************************************)
(* Proofs about Console, for rings, lines and buffers of every size, and     *)
(* for every host.  Ring is the queue that a ring of usb_serial.c holds; its  *)
(* lemmas are about indices alone and serve both rings.                     *)
(***************************************************************************)
EXTENDS Console, TLAPS

-----------------------------------------------------------------------------
(* How many lines wait in a ring of n slots that is written at w and read     *)
(* from r, the slot of the i-th of them, and the slot after a slot.         *)
Count(w, r, n) == IF w >= r THEN w - r ELSE w - r + n
Slot(r, i, n)  == IF r + i - 1 < n THEN r + i - 1 ELSE r + i - 1 - n
After(i, n)    == IF i + 1 = n THEN 0 ELSE i + 1
Ring(slots, w, r, n) == [i \in 1 .. Count(w, r, n) |-> slots[Slot(r, i, n)]]

(* The products of n with numbers near zero, and how large the others are.   *)
LEMMA SmallProducts ==
    ASSUME NEW n \in Nat, n > 0, NEW q \in Int
    PROVE  /\ q >= 2 => n * q >= n + n
           /\ q <= -2 => n * q <= -n - n
           /\ q = 1 => n * q = n
           /\ q = 0 => n * q = 0
           /\ q = -1 => n * q = -n
<1>1. q >= 2 => n * q >= n * 2 OBVIOUS
<1>2. q <= -2 => n * q <= n * (-2) OBVIOUS
<1>3. n * 2 = n + n /\ n * (-2) = -n - n /\ n * 1 = n /\ n * 0 = 0 /\ n * (-1) = -n OBVIOUS
<1> QED BY <1>1, <1>2, <1>3

(* Remainders near zero, without the division.                               *)
LEMMA NearRemainders ==
    ASSUME NEW n \in Nat, n > 0, NEW x \in Int
    PROVE  /\ x >= 0 /\ x < n => x % n = x
           /\ x >= n /\ x < n + n => x % n = x - n
           /\ x < 0 /\ x >= -n => x % n = x + n
<1>1. PICK q \in Int, r \in 0 .. n - 1 : q = x \div n /\ r = (x % n) OBVIOUS
<1>2. x = n * q + r BY <1>1
<1>3. PICK p \in Int : p = n * q OBVIOUS
<1>4. /\ q >= 2 => p >= n + n
      /\ q <= -2 => p <= -n - n
      /\ q = 1 => p = n
      /\ q = 0 => p = 0
      /\ q = -1 => p = -n
  BY <1>3, SmallProducts
<1>5. q >= 2 \/ q <= -2 \/ q = 1 \/ q = 0 \/ q = -1 OBVIOUS
<1>6. x = p + r BY <1>2, <1>3
<1>7. /\ x >= 0 /\ x < n => r = x
      /\ x >= n /\ x < n + n => r = x - n
      /\ x < 0 /\ x >= -n => r = x + n
  BY <1>4, <1>5, <1>6
<1> QED BY <1>1, <1>7
(* So the indices of the code are those of Ring.                             *)
LEMMA RingIndices ==
    ASSUME NEW n \in Nat, n > 0, NEW w \in 0 .. n - 1, NEW r \in 0 .. n - 1
    PROVE  /\ (w - r) % n = Count(w, r, n)
           /\ (w + 1) % n = After(w, n)
           /\ (r + 1) % n = After(r, n)
           /\ \A i \in 1 .. n : (r + i - 1) % n = Slot(r, i, n)
<1>1. (w - r) % n = Count(w, r, n)
  <2>1. PICK x \in Int : x = w - r OBVIOUS
  <2>2. x % n = IF x >= 0 THEN x ELSE x + n BY <2>1, NearRemainders
  <2> QED BY <2>1, <2>2 DEF Count
<1>2. ASSUME NEW i \in 0 .. n - 1 PROVE (i + 1) % n = After(i, n)
  <2>1. PICK x \in Int : x = i + 1 OBVIOUS
  <2>2. x % n = IF x = n THEN 0 ELSE x BY <2>1, NearRemainders
  <2> QED BY <2>1, <2>2 DEF After
<1>3. ASSUME NEW i \in 1 .. n PROVE (r + i - 1) % n = Slot(r, i, n)
  <2>1. PICK x \in Int : x = r + i - 1 OBVIOUS
  <2>2. x % n = IF x < n THEN x ELSE x - n BY <2>1, NearRemainders
  <2> QED BY <2>1, <2>2 DEF Slot
<1> QED BY <1>1, <1>2, <1>3

(* A ring of n slots that hold elements of S.                                *)
IsRing(slots, w, r, n, S) ==
    /\ n \in Nat /\ n > 0 /\ w \in 0 .. n - 1 /\ r \in 0 .. n - 1
    /\ slots \in [0 .. n - 1 -> S]

(* To put v into slot i and go on to the next, and how queues change.        *)
Put(more, slots, i, i2, v, n) == more = [slots EXCEPT ![i] = v] /\ i2 = After(i, n)
Extends(p, q) == Len(p) = Len(q) + 1 /\ SubSeq(p, 1, Len(q)) = q
IsRest(p, q) == p = Tail(q)

(* A ring holds a sequence, which is empty when its indices meet.            *)
LEMMA RingIsQueue ==
    ASSUME NEW slots, NEW w, NEW r, NEW n, NEW S, IsRing(slots, w, r, n, S)
    PROVE  /\ Len(Ring(slots, w, r, n)) = Count(w, r, n)
           /\ Ring(slots, w, r, n) = << >> <=> w = r
<1>0. /\ n \in Nat /\ n > 0 /\ w \in 0 .. n - 1 /\ r \in 0 .. n - 1
      /\ slots \in [0 .. n - 1 -> S]
  BY DEF IsRing
<1> DEFINE k == Count(w, r, n)
           q == Ring(slots, w, r, n)
<1>1. k \in Nat /\ (k = 0 <=> w = r) BY <1>0 DEF Count
<1>2. \A i \in 1 .. k : Slot(r, i, n) \in 0 .. n - 1 BY <1>0 DEF Count, Slot
<1>3. q = [i \in 1 .. k |-> slots[Slot(r, i, n)]] BY DEF Ring
<1> HIDE DEF q, k
<1>4. \A i \in 1 .. k : slots[Slot(r, i, n)] \in S BY <1>0, <1>2
<1>5. q \in [1 .. k -> S] BY <1>3, <1>4
<1>6. q \in Seq(S) /\ Len(q) = k BY <1>1, <1>5
<1>7. q = << >> <=> k = 0 BY <1>6
<1> QED BY <1>1, <1>3, <1>6, <1>7 DEF q, k

(* A push appends, if there is room.                                         *)
LEMMA RingPush ==
    \A slots, w, r, n, S, v, more, w2 :
        IsRing(slots, w, r, n, S) /\ v \in S /\ Put(more, slots, w, w2, v, n) /\ w2 # r
        => Extends(Ring(more, w2, r, n), Ring(slots, w, r, n))
<1> TAKE slots, w, r, n, S, v, more, w2
<1> HAVE IsRing(slots, w, r, n, S) /\ v \in S /\ Put(more, slots, w, w2, v, n) /\ w2 # r
<1>0. /\ more = [slots EXCEPT ![w] = v] /\ w2 = After(w, n) /\ w2 # r /\ v \in S
      /\ n \in Nat /\ n > 0 /\ w \in 0 .. n - 1 /\ r \in 0 .. n - 1
      /\ slots \in [0 .. n - 1 -> S]
  BY DEF IsRing, Put
<1>1. PICK k : k = Count(w, r, n) OBVIOUS
<1>2. PICK q : q = Ring(slots, w, r, n) OBVIOUS
<1>3. PICK p : p = Ring(more, w2, r, n) OBVIOUS
<1>4. more \in [0 .. n - 1 -> S] /\ w2 \in 0 .. n - 1 /\ k \in Nat
  <2>1. After(w, n) \in 0 .. n - 1 /\ Count(w, r, n) \in 0 .. n - 1
    BY <1>0 DEF After, Count
  <2> QED BY <1>0, <1>1, <2>1
<1>5. /\ Count(w2, r, n) = k + 1
      /\ \A i \in 1 .. k : Slot(r, i, n) \in (0 .. n - 1) \ {w}
  BY <1>0, <1>1 DEF Count, Slot, After
<1>6. /\ q \in Seq(S) /\ Len(q) = k
      /\ \A i \in 1 .. k : q[i] = slots[Slot(r, i, n)]
  <2>1. q = [i \in 1 .. k |-> slots[Slot(r, i, n)]] BY <1>1, <1>2 DEF Ring
  <2>2. \A i \in 1 .. k : slots[Slot(r, i, n)] \in S BY <1>0, <1>5
  <2>3. q \in [1 .. k -> S] BY <2>1, <2>2
  <2> QED BY <1>4, <2>1, <2>3
<1>7. /\ p \in Seq(S) /\ Len(p) = k + 1
      /\ \A i \in 1 .. k + 1 : p[i] = more[Slot(r, i, n)]
  <2>1. p = [i \in 1 .. k + 1 |-> more[Slot(r, i, n)]] BY <1>3, <1>5 DEF Ring
  <2>2. \A i \in 1 .. k + 1 : Slot(r, i, n) \in 0 .. n - 1
    BY <1>0, <1>1 DEF Count, Slot, After
  <2>3. \A i \in 1 .. k + 1 : more[Slot(r, i, n)] \in S BY <1>4, <2>2
  <2>4. p \in [1 .. k + 1 -> S] BY <2>1, <2>3
  <2> QED BY <1>4, <2>1, <2>4
<1>8. ASSUME NEW i \in 1 .. k PROVE p[i] = q[i]
  <2>1. i \in 1 .. k + 1 BY <1>4
  <2>2. Slot(r, i, n) \in (0 .. n - 1) \ {w} BY <1>5
  <2>3. more[Slot(r, i, n)] = slots[Slot(r, i, n)] BY <1>0, <2>2
  <2> QED BY <1>6, <1>7, <2>1, <2>3
<1>9. SubSeq(p, 1, Len(q)) = q
  BY <1>4, <1>6, <1>7, <1>8
<1> QED BY <1>2, <1>3, <1>6, <1>7, <1>9 DEF Extends

(* A pop takes the first, whatever is then put into its slot.                *)
LEMMA RingPop ==
    \A slots, w, r, n, S, v, rest, r2 :
        IsRing(slots, w, r, n, S) /\ v \in S /\ Put(rest, slots, r, r2, v, n) /\ w # r
        => IsRest(Ring(rest, w, r2, n), Ring(slots, w, r, n))
<1> TAKE slots, w, r, n, S, v, rest, r2
<1> HAVE IsRing(slots, w, r, n, S) /\ v \in S /\ Put(rest, slots, r, r2, v, n) /\ w # r
<1>0. /\ rest = [slots EXCEPT ![r] = v] /\ r2 = After(r, n) /\ w # r /\ v \in S
      /\ n \in Nat /\ n > 0 /\ w \in 0 .. n - 1 /\ r \in 0 .. n - 1
      /\ slots \in [0 .. n - 1 -> S]
  BY DEF IsRing, Put
<1>1. PICK k : k = Count(w, r, n) OBVIOUS
<1>2. PICK q : q = Ring(slots, w, r, n) OBVIOUS
<1>3. PICK p : p = Ring(rest, w, r2, n) OBVIOUS
<1>4. rest \in [0 .. n - 1 -> S] /\ r2 \in 0 .. n - 1 /\ k \in Nat /\ k > 0
  <2>1. /\ After(r, n) \in 0 .. n - 1 /\ Count(w, r, n) \in 0 .. n - 1
        /\ Count(w, r, n) # 0
    BY <1>0 DEF After, Count
  <2>2. rest \in [0 .. n - 1 -> S] BY <1>0
  <2> QED BY <1>0, <1>1, <2>1, <2>2
<1>5. /\ Count(w, r2, n) = k - 1
      /\ \A i \in 1 .. k : Slot(r, i, n) \in 0 .. n - 1
      /\ \A i \in 1 .. k - 1 : /\ Slot(r2, i, n) = Slot(r, i + 1, n)
                              /\ Slot(r2, i, n) # r
  <2>1. Count(w, r2, n) = k - 1 BY <1>0, <1>1 DEF Count, Slot, After
  <2>2. \A i \in 1 .. k : Slot(r, i, n) \in 0 .. n - 1 BY <1>0, <1>1 DEF Count, Slot, After
  <2>3. \A i \in 1 .. k - 1 : /\ Slot(r2, i, n) = Slot(r, i + 1, n)
                              /\ Slot(r2, i, n) # r
    BY <1>0, <1>1 DEF Count, Slot, After
  <2> QED BY <2>1, <2>2, <2>3
<1>6. /\ q \in Seq(S) /\ Len(q) = k
      /\ \A i \in 1 .. k : q[i] = slots[Slot(r, i, n)]
  <2>1. q = [i \in 1 .. k |-> slots[Slot(r, i, n)]] BY <1>1, <1>2 DEF Ring
  <2>2. \A i \in 1 .. k : slots[Slot(r, i, n)] \in S BY <1>0, <1>5
  <2>3. q \in [1 .. k -> S] BY <2>1, <2>2
  <2> QED BY <1>4, <2>1, <2>3
<1>7. /\ p \in Seq(S) /\ Len(p) = k - 1
      /\ \A i \in 1 .. k - 1 : p[i] = rest[Slot(r2, i, n)]
  <2>1. p = [i \in 1 .. k - 1 |-> rest[Slot(r2, i, n)]] BY <1>3, <1>5 DEF Ring
  <2>2. \A i \in 1 .. k - 1 : Slot(r2, i, n) \in 0 .. n - 1
    BY <1>0, <1>1 DEF Count, Slot, After
  <2>3. \A i \in 1 .. k - 1 : rest[Slot(r2, i, n)] \in S BY <1>4, <2>2
  <2>4. p \in [1 .. k - 1 -> S] BY <2>1, <2>3
  <2> QED BY <1>4, <2>1, <2>4
<1>8. ASSUME NEW i \in 1 .. k - 1 PROVE p[i] = q[i + 1]
  <2>1. i \in 1 .. k /\ i + 1 \in 1 .. k BY <1>4
  <2>2. p[i] = rest[Slot(r2, i, n)] BY <1>7
  <2>3. /\ Slot(r2, i, n) = Slot(r, i + 1, n)
        /\ Slot(r2, i, n) # r /\ Slot(r, i + 1, n) \in 0 .. n - 1
    BY <1>5, <2>1
  <2>4. rest[Slot(r2, i, n)] = slots[Slot(r, i + 1, n)]
    BY <1>0, <2>3
  <2>5. q[i + 1] = slots[Slot(r, i + 1, n)]
    BY <1>6, <2>1
  <2> QED BY <2>2, <2>4, <2>5
<1>9. /\ Tail(q) \in Seq(S) /\ Len(Tail(q)) = k - 1
      /\ \A i \in 1 .. k - 1 : Tail(q)[i] = q[i + 1]
  <2>1. q # << >> BY <1>4, <1>6
  <2> QED BY <1>4, <1>6, <2>1
<1>10. p = Tail(q)
  <2>1. \A i \in 1 .. k - 1 : p[i] = Tail(q)[i] BY <1>8, <1>9
  <2>2. Len(p) = Len(Tail(q)) BY <1>7, <1>9
  <2> QED BY <1>7, <1>9, <2>1, <2>2
<1> QED BY <1>2, <1>3, <1>10 DEF IsRest

-----------------------------------------------------------------------------
(* The inductive invariant.                                                  *)

Received == [word : Words \cup {EOL}, begins : {"nothing", "line", "session"}]

InputTypes ==
    /\ rx \in Seq(Received) /\ next \in {"nothing", "line", "session"}
    /\ accum \in Seq(Typed) /\ Len(accum) <= LineLen
    /\ cmd \in [0 .. CMD_LINES - 1 -> Seq(Typed)]
    /\ cmd_write \in 0 .. CMD_LINES - 1 /\ cmd_read \in 0 .. CMD_LINES - 1
    /\ pushed \in BOOLEAN
OutputTypes ==
    /\ out \in [0 .. OUT_LINES - 1 -> Nat \X Nat]
    /\ out_write \in 0 .. OUT_LINES - 1 /\ out_read \in 0 .. OUT_LINES - 1
    /\ resp \in [n : {0, 1}, lines : Nat, next : Nat \ {0}]
    /\ resp.next <= resp.lines + 1
    /\ sent = Nothing \/ sent \in [n : {0, 1}, from : Nat, upto : Nat]
    /\ txused \in 0 .. TxSize
    /\ refused \subseteq Nat /\ printed \in BOOLEAN
TurnTypes ==
    /\ connected \in BOOLEAN /\ was_connected \in BOOLEAN
    /\ pc \in {"task", "drain", "read", "dispatch", "respond", "bootrom"}

(* A word that begins a line follows a line end, or is the next to come to   *)
(* an empty line.                                                           *)
Follows ==
    /\ \A i \in 2 .. Len(rx) : rx[i].begins = "line" => rx[i - 1].word = EOL
    /\ rx # << >> /\ rx[1].begins = "line" => accum = << >>
    /\ next = "line" => IF rx = << >> THEN accum = << >> ELSE rx[Len(rx)].word = EOL
AllUnmixed == Unmixed(accum) /\ \A i \in 0 .. CMD_LINES - 1 : Unmixed(cmd[i])

(* How many lines wait for the host, and the number of the first of them.    *)
Waiting == Count(out_write, out_read, OUT_LINES)
First   == out[out_read][2]

(* What waits is a run of lines of the present response, all of it written   *)
(* in one turn into an empty ring, and from its beginning until a drain.    *)
OneResponse ==
    /\ \A i \in 1 .. Waiting : 
          out[Slot(out_read, i, OUT_LINES)] = <<resp.n, First + i - 1>>
    /\ Waiting > 0 => First > 0
    /\ pc \in {"read", "dispatch", "bootrom"} => Waiting = 0
    /\ pc \in {"task", "respond"} /\ Waiting > 0 => First = 1 /\ sent = Nothing
    /\ pc = "respond" => /\ Waiting = Min2(resp.next - 1, OUT_LINES - 1)
                         /\ sent = Nothing

(* The units of i lines.                                                     *)
Units(i) == i * LineSize

(* What CDC got in a drain is all that was drained, unless its buffer is     *)
(* full, and then it gets no more.                                          *)
SentSoFar ==
    pc = "drain" /\ connected /\ Waiting > 0 /\ txused < TxSize =>
        IF sent = Nothing THEN First = 1
        ELSE sent.n = resp.n /\ sent.upto = Units(First - 1)

InputInv  == InputTypes /\ Follows /\ AllUnmixed
OutputInv == OutputTypes /\ OneResponse /\ SentSoFar /\ ResponsesFit
IInv      == InputInv /\ OutputInv /\ TurnTypes

-----------------------------------------------------------------------------
(* The state space.                                                          *)

(* The assumptions, one by one.                                              *)
LEMMA Sizes ==
    /\ OUT_LINES \in Nat /\ OUT_LINES > 0 /\ CMD_LINES \in Nat /\ CMD_LINES > 0
    /\ LineLen \in Nat /\ LineLen > 0 /\ LineSize \in Nat /\ LineSize > 0
    /\ TxSize \in Nat
BY RingAssumption, SizeAssumption

(* Where the code takes a remainder, it steps through a ring.                *)
LEMMA CodeIndices ==
    /\ \A i \in 0 .. OUT_LINES - 1 : NextOut(i) = After(i, OUT_LINES)
    /\ \A i \in 0 .. CMD_LINES - 1 : NextCmd(i) = After(i, CMD_LINES)
<1>1. ASSUME NEW i \in 0 .. OUT_LINES - 1 PROVE NextOut(i) = After(i, OUT_LINES)
  BY Sizes, RingIndices DEF NextOut
<1>2. ASSUME NEW i \in 0 .. CMD_LINES - 1 PROVE NextCmd(i) = After(i, CMD_LINES)
  BY Sizes, RingIndices DEF NextCmd
<1> QED BY <1>1, <1>2

(* What waits in a ring is the queue that Ring makes of it.                  *)
LEMMA CmdQueueIsRing ==
    ASSUME cmd_write \in 0 .. CMD_LINES - 1, cmd_read \in 0 .. CMD_LINES - 1
    PROVE  CmdQueue = Ring(cmd, cmd_write, cmd_read, CMD_LINES)
<1>1. /\ (cmd_write - cmd_read) % CMD_LINES = Count(cmd_write, cmd_read, CMD_LINES)
      /\ \A i \in 1 .. CMD_LINES :
            (cmd_read + i - 1) % CMD_LINES = Slot(cmd_read, i, CMD_LINES)
  BY Sizes, RingIndices
<1>2. \A i \in 1 .. Count(cmd_write, cmd_read, CMD_LINES) : i \in 1 .. CMD_LINES
  BY Sizes DEF Count
<1> QED BY <1>1, <1>2 DEF CmdQueue, Ring

(* And so is what waits for the host.                                       *)
LEMMA OutQueueIsRing ==
    ASSUME out_write \in 0 .. OUT_LINES - 1, out_read \in 0 .. OUT_LINES - 1
    PROVE  OutQueue = Ring(out, out_write, out_read, OUT_LINES)
<1>1. /\ (out_write - out_read) % OUT_LINES = Count(out_write, out_read, OUT_LINES)
      /\ \A i \in 1 .. OUT_LINES :
            (out_read + i - 1) % OUT_LINES = Slot(out_read, i, OUT_LINES)
  BY Sizes, RingIndices
<1>2. \A i \in 1 .. Count(out_write, out_read, OUT_LINES) : i \in 1 .. OUT_LINES
  BY Sizes DEF Count
<1> QED BY <1>1, <1>2 DEF OutQueue, Ring

(* A command is executed: its response begins, and its line leaves the ring. *)
Execute ==
    /\ \E n \in Nat : resp' = [n |-> 1 - resp.n, lines |-> n, next |-> 1]
    /\ cmd_read' = NextCmd(cmd_read)
    /\ cmd' = [cmd EXCEPT ![cmd_read] = << >>]
    /\ pc' = "respond" /\ sent' = Nothing
    /\ UNCHANGED <<host, txused, was_connected, accum, cmd_write, ring_o,
                   pushed, printed, refused>>

(* A dispatch enters the boot loader or executes a command.                  *)
LEMMA DispatchCases ==
    ASSUME Dispatch
    PROVE  pc = "dispatch" /\ cmd_read # cmd_write /\ (Update \/ Execute)
<1>1. pc = "dispatch" /\ cmd_read # cmd_write BY DEF Dispatch
<1>2. CASE IsUpdate(cmd[cmd_read]) BY <1>1, <1>2 DEF Dispatch
<1>3. CASE ~IsUpdate(cmd[cmd_read])
  <2>1. \E n \in Nat : resp' = [n |-> 1 - resp.n, lines |-> n, next |-> 1]
    BY <1>3, InputAssumption DEF Dispatch, Respond
  <2> QED BY <1>1, <1>3, <2>1 DEF Dispatch, Execute
<1> QED BY <1>1, <1>2, <1>3
-----------------------------------------------------------------------------
(* The way in: what the host types becomes lines.                            *)

(* A typed word goes to the end of what is to be read.                       *)
LEMMA TypeStep == ASSUME InputInv, Type PROVE InputInv'
<1>1. InputTypes /\ Follows /\ AllUnmixed BY DEF InputInv
<1>2. PICK w \in Words \cup {EOL} :
        /\ rx' = Append(rx, [word |-> w, begins |-> IF w = EOL THEN "nothing" ELSE next])
        /\ next' = IF w = EOL THEN "line" ELSE "nothing"
  BY DEF Type
<1>3. UNCHANGED <<accum, ring_c, pushed>> BY DEF Type, hist
<1>4. PICK e : e = [word |-> w, begins |-> IF w = EOL THEN "nothing" ELSE next] OBVIOUS
<1>5. /\ e \in Received /\ e.word = w
      /\ e.begins = "line" => w # EOL /\ next = "line"
  BY <1>1, <1>4 DEF Received, InputTypes
<1>6. /\ rx \in Seq(Received) /\ rx' = Append(rx, e) /\ Len(rx) \in Nat
  BY <1>1, <1>2, <1>4 DEF InputTypes
<1>7. /\ rx' \in Seq(Received) /\ Len(rx') = Len(rx) + 1 /\ rx' # << >>
      /\ rx'[Len(rx) + 1] = e
      /\ \A i \in 1 .. Len(rx) : rx'[i] = rx[i]
  BY <1>5, <1>6
<1>8. InputTypes'
  BY <1>1, <1>2, <1>3, <1>7 DEF InputTypes, ring_c
<1>9. ASSUME NEW i \in 2 .. Len(rx'), rx'[i].begins = "line" PROVE rx'[i - 1].word = EOL
  <2>1. CASE i = Len(rx) + 1
    <3>1. rx # << >> /\ i - 1 = Len(rx) /\ Len(rx) \in 1 .. Len(rx)
      BY <1>6, <2>1
    <3>2. rx[Len(rx)].word = EOL BY <1>1, <1>5, <1>7, <1>9, <2>1, <3>1 DEF Follows
    <3> QED BY <1>7, <3>1, <3>2
  <2>2. CASE i # Len(rx) + 1
    <3>1. i \in 2 .. Len(rx) /\ i - 1 \in 1 .. Len(rx) /\ i \in 1 .. Len(rx)
      BY <1>6, <1>7, <2>2
    <3> QED BY <1>1, <1>7, <1>9, <3>1 DEF Follows
  <2> QED BY <2>1, <2>2
<1>10. rx'[1].begins = "line" => accum' = << >>
  <2>1. CASE rx = << >>
    BY <1>1, <1>3, <1>5, <1>6, <1>7, <2>1 DEF Follows
  <2>2. CASE rx # << >>
    <3>1. 1 \in 1 .. Len(rx) BY <1>6, <2>2
    <3> QED BY <1>1, <1>3, <1>7, <2>2, <3>1 DEF Follows
  <2> QED BY <2>1, <2>2
<1>11. next' = "line" => rx'[Len(rx')].word = EOL
  BY <1>2, <1>5, <1>7
<1>12. Follows' BY <1>7, <1>9, <1>10, <1>11 DEF Follows
<1>13. AllUnmixed' BY <1>1, <1>3 DEF AllUnmixed, ring_c
<1> QED BY <1>8, <1>12, <1>13 DEF InputInv

(* A line that is pushed keeps the ring of commands in type.                 *)
LEMMA PushKeeps ==
    ASSUME InputTypes, AllUnmixed, PushCmd
    PROVE  /\ cmd' \in [0 .. CMD_LINES - 1 -> Seq(Typed)]
           /\ cmd_write' \in 0 .. CMD_LINES - 1 /\ pushed' \in BOOLEAN
           /\ \A i \in 0 .. CMD_LINES - 1 : Unmixed(cmd'[i])
<1>1. After(cmd_write, CMD_LINES) \in 0 .. CMD_LINES - 1
  BY Sizes DEF InputTypes, After
<1>2. NextCmd(cmd_write) = After(cmd_write, CMD_LINES)
  BY CodeIndices DEF InputTypes
<1>3. cmd' = cmd \/ cmd' = [cmd EXCEPT ![cmd_write] = accum]
  BY DEF PushCmd
<1>4. cmd' \in [0 .. CMD_LINES - 1 -> Seq(Typed)]
  BY <1>3 DEF InputTypes
<1>5. cmd_write' \in 0 .. CMD_LINES - 1 /\ pushed' \in BOOLEAN
  BY <1>1, <1>2 DEF PushCmd, InputTypes
<1>6. ASSUME NEW i \in 0 .. CMD_LINES - 1 PROVE Unmixed(cmd'[i])
  <2>1. cmd'[i] = cmd[i] \/ cmd'[i] = accum BY <1>3 DEF InputTypes
  <2> QED BY <2>1 DEF AllUnmixed
<1> QED BY <1>4, <1>5, <1>6

(* A line end empties the line, a word makes it longer or is dropped.        *)
LEMMA ReadStep == ASSUME InputInv, ReadChar PROVE InputInv'
<1>1. InputTypes /\ Follows /\ AllUnmixed BY DEF InputInv
<1>2. /\ rx \in Seq(Received) /\ rx # << >> /\ rx' = Tail(rx) /\ UNCHANGED <<next, cmd_read>>
  BY <1>1 DEF ReadChar, InputTypes
<1>3. /\ Head(rx) \in Received /\ Head(rx) = rx[1] /\ Len(rx) \in Nat /\ Len(rx) > 0
      /\ rx' \in Seq(Received) /\ Len(rx') = Len(rx) - 1
      /\ \A i \in 1 .. Len(rx) - 1 : rx'[i] = rx[i + 1]
  BY <1>2
<1>4. \/ /\ rx[1].word = EOL /\ accum' = << >>
         /\ PushCmd \/ UNCHANGED <<cmd, cmd_write, pushed>>
      \/ /\ rx[1].word # EOL /\ UNCHANGED <<cmd, cmd_write, pushed>>
         /\ \/ accum' = accum /\ Len(accum) >= LineLen
            \/ accum' = Append(accum, rx[1]) /\ Len(accum) < LineLen
  <2>1. Len(accum) \in Nat /\ LineLen \in Nat BY <1>1, Sizes DEF InputTypes
  <2> QED BY <1>3, <2>1 DEF ReadChar, AfterLine, RoomForChar
<1>5. /\ cmd' \in [0 .. CMD_LINES - 1 -> Seq(Typed)]
      /\ cmd_write' \in 0 .. CMD_LINES - 1 /\ pushed' \in BOOLEAN
      /\ \A i \in 0 .. CMD_LINES - 1 : Unmixed(cmd'[i])
  <2>1. CASE PushCmd BY <1>1, <2>1, PushKeeps
  <2>2. CASE UNCHANGED <<cmd, cmd_write, pushed>>
    BY <1>1, <2>2 DEF InputTypes, AllUnmixed
  <2> QED BY <1>4, <2>1, <2>2
<1>6. rx[1].word # EOL => rx[1] \in Typed
  BY <1>3 DEF Received, Typed
<1>7. accum' \in Seq(Typed) /\ Len(accum') <= LineLen
  <2>1. accum \in Seq(Typed) /\ Len(accum) <= LineLen /\ Len(accum) \in Nat /\ LineLen \in Nat
    BY <1>1, Sizes DEF InputTypes
  <2>2. CASE accum' = << >> BY <2>1, <2>2
  <2>3. CASE accum' = accum BY <2>1, <2>3
  <2>4. CASE accum' = Append(accum, rx[1]) /\ Len(accum) < LineLen /\ rx[1] \in Typed
    BY <2>1, <2>4
  <2> QED BY <1>4, <1>6, <2>2, <2>3, <2>4
<1>8. InputTypes' BY <1>1, <1>2, <1>3, <1>5, <1>7 DEF InputTypes
<1>9. Unmixed(accum')
  <2>1. Unmixed(accum) /\ accum \in Seq(Typed) BY <1>1 DEF AllUnmixed, InputTypes
  <2>2. CASE accum' = << >> BY <2>2 DEF Unmixed
  <2>3. CASE accum' = accum BY <2>1, <2>3
  <2>4. CASE accum' = Append(accum, rx[1])
    <3> SUFFICES ASSUME NEW i \in 2 .. Len(accum) + 1 PROVE accum'[i].begins # "line"
      BY <2>1, <2>4 DEF Unmixed
    <3>1. CASE i \in 2 .. Len(accum)
      BY <2>1, <2>4, <3>1 DEF Unmixed
    <3>2. CASE i = Len(accum) + 1
      <4>1. accum # << >> /\ accum'[i] = rx[1] BY <2>1, <2>4, <3>2
      <4> QED BY <1>1, <1>2, <4>1 DEF Follows
    <3> QED BY <2>1, <3>1, <3>2
  <2> QED BY <1>4, <2>2, <2>3, <2>4
<1>10. Follows'
  <2>1. ASSUME NEW i \in 2 .. Len(rx'), rx'[i].begins = "line" PROVE rx'[i - 1].word = EOL
    <3>1. /\ i + 1 \in 2 .. Len(rx) /\ i \in 1 .. Len(rx) - 1 /\ i - 1 \in 1 .. Len(rx) - 1
          /\ (i + 1) - 1 = (i - 1) + 1
      BY <1>3
    <3>2. rx'[i] = rx[i + 1] /\ rx'[i - 1] = rx[(i - 1) + 1] BY <1>3, <3>1
    <3> QED BY <1>1, <2>1, <3>1, <3>2 DEF Follows
  <2>2. ASSUME rx' # << >>, rx'[1].begins = "line" PROVE accum' = << >>
    <3>1. 1 \in 1 .. Len(rx) - 1 /\ 2 \in 2 .. Len(rx) /\ rx'[1] = rx[2] /\ 2 - 1 = 1
      BY <1>3, <2>2
    <3>2. rx[1].word = EOL BY <1>1, <2>2, <3>1 DEF Follows
    <3> QED BY <1>4, <3>2
  <2>3. ASSUME next' = "line"
        PROVE  IF rx' = << >> THEN accum' = << >> ELSE rx'[Len(rx')].word = EOL
    <3>1. rx[Len(rx)].word = EOL BY <1>1, <1>2, <2>3 DEF Follows
    <3>2. CASE rx' = << >>
      <4>1. Len(rx) = 1 BY <1>3, <3>2
      <4> QED BY <1>4, <3>1, <3>2, <4>1
    <3>3. CASE rx' # << >>
      <4>1. Len(rx') \in 1 .. Len(rx) - 1 /\ Len(rx') + 1 = Len(rx) BY <1>3, <3>3
      <4>2. rx'[Len(rx')] = rx[Len(rx)] BY <1>3, <4>1
      <4> QED BY <3>1, <3>3, <4>2
    <3> QED BY <3>2, <3>3
  <2> QED BY <2>1, <2>2, <2>3 DEF Follows
<1> QED BY <1>5, <1>8, <1>9, <1>10 DEF InputInv, AllUnmixed

(* Nothing else changes what has been typed, but for the commands it takes.  *)
LEMMA InputStep == InputInv /\ [Next]_vars => InputInv'
<1> SUFFICES ASSUME InputInv, [Next]_vars PROVE InputInv' OBVIOUS
<1>1. InputTypes /\ Follows /\ AllUnmixed BY DEF InputInv
<1>2. CASE UNCHANGED <<rx, accum, ring_c, pushed>> /\ (next' = next \/ next' = "session")
  <2>1. InputTypes' BY <1>1, <1>2 DEF InputTypes, ring_c
  <2>2. Follows' BY <1>1, <1>2 DEF Follows
  <2>3. AllUnmixed' BY <1>1, <1>2 DEF AllUnmixed, ring_c
  <2> QED BY <2>1, <2>2, <2>3 DEF InputInv
<1>3. CASE Update
  <2>1. /\ rx' = << >> /\ accum' = << >> /\ cmd' = NoCommands /\ cmd_write' = 0
        /\ cmd_read' = 0 /\ next' = "session" /\ pushed' = FALSE
    BY <1>3 DEF Update
  <2>2. /\ << >> \in Seq(Received) /\ << >> \in Seq(Typed) /\ Len(<< >>) <= LineLen
        /\ 0 \in 0 .. CMD_LINES - 1
        /\ NoCommands \in [0 .. CMD_LINES - 1 -> Seq(Typed)]
    BY Sizes DEF NoCommands
  <2>3. InputTypes' BY <2>1, <2>2 DEF InputTypes
  <2>4. Follows' BY <2>1 DEF Follows
  <2>5. AllUnmixed' BY <2>1 DEF AllUnmixed, Unmixed, NoCommands
  <2> QED BY <2>3, <2>4, <2>5 DEF InputInv
<1>4. CASE Execute
  <2>1. /\ UNCHANGED <<rx, next, accum, cmd_write, pushed>>
        /\ cmd_read' = NextCmd(cmd_read)
        /\ cmd' = [cmd EXCEPT ![cmd_read] = << >>]
    BY <1>4 DEF Execute, host
  <2>2. NextCmd(cmd_read) \in 0 .. CMD_LINES - 1
    <3>1. After(cmd_read, CMD_LINES) \in 0 .. CMD_LINES - 1
      BY <1>1, Sizes DEF InputTypes, After
    <3> QED BY <1>1, <3>1, CodeIndices DEF InputTypes
  <2>3. InputTypes' BY <1>1, <2>1, <2>2 DEF InputTypes
  <2>4. Follows' BY <1>1, <2>1 DEF Follows
  <2>5. AllUnmixed'
    <3>1. Unmixed(<< >>) BY DEF Unmixed
    <3>2. \A i \in 0 .. CMD_LINES - 1 : cmd'[i] = << >> \/ cmd'[i] = cmd[i]
      BY <1>1, <2>1 DEF InputTypes
    <3> QED BY <1>1, <2>1, <3>1, <3>2 DEF AllUnmixed
  <2> QED BY <2>3, <2>4, <2>5 DEF InputInv
<1>5. CASE Type BY <1>5, TypeStep
<1>6. CASE ReadChar BY <1>6, ReadStep
<1>7. CASE Dispatch BY <1>3, <1>4, <1>7, DispatchCases
<1>8. CASE Open \/ HangUp \/ Fetch
  BY <1>2, <1>8 DEF Open, HangUp, Fetch, host, hist
<1>9. CASE Task \/ DrainLine \/ DrainEnd \/ ReadEnd \/ NoCommand \/ WriteLine \/ Done
           \/ PowerCycle
  BY <1>2, <1>9 DEF Task, DrainLine, DrainEnd, ReadEnd, NoCommand, WriteLine, Done,
                    PowerCycle, host, hist
<1>10. CASE UNCHANGED vars BY <1>2, <1>10 DEF vars, host, hist
<1> QED BY <1>5, <1>6, <1>7, <1>8, <1>9, <1>10 DEF Next, Host, Core0
-----------------------------------------------------------------------------
(* The way out: a response becomes units for the host.                       *)

(* Units add up line by line.                                                *)
LEMMA UnitsAdd ==
    ASSUME NEW i \in Nat
    PROVE  Units(i) \in Nat /\ Units(i + 1) = Units(i) + LineSize /\ Units(0) = 0
<1>1. LineSize \in Nat BY Sizes
<1>2. i * LineSize \in Nat BY <1>1
<1>3. (i + 1) * LineSize = i * LineSize + LineSize BY <1>1
<1>4. 0 * LineSize = 0 BY <1>1
<1> QED BY <1>2, <1>3, <1>4 DEF Units

(* The ring waits between its ends.                                          *)
LEMMA WaitingType ==
    ASSUME OutputTypes
    PROVE  /\ Waiting \in 0 .. OUT_LINES - 1
           /\ Waiting = 0 <=> out_read = out_write
           /\ NextOut(out_write) = out_read <=> Waiting = OUT_LINES - 1
<1>1. /\ out_write \in 0 .. OUT_LINES - 1 /\ out_read \in 0 .. OUT_LINES - 1
      /\ NextOut(out_write) = After(out_write, OUT_LINES)
  BY CodeIndices DEF OutputTypes
<1> QED BY <1>1, Sizes DEF Waiting, Count, After

(* What a line that leaves the ring is, and what CDC takes of it.            *)
LEMMA DrainFacts ==
    ASSUME OutputInv, DrainLine
    PROVE  /\ Waiting > 0 /\ First \in Nat \ {0} /\ resp.n \in {0, 1}
           /\ out_read' = After(out_read, OUT_LINES)
           /\ UNCHANGED <<connected, pc, out_write, resp, printed, refused>>
           /\ pc = "drain"
           /\ out' = [out EXCEPT ![out_read] = NoLine]
           /\ \/ ~connected /\ UNCHANGED <<txused, sent>>
              \/ connected /\ txused = TxSize /\ UNCHANGED <<txused, sent>>
              \/ \E took \in Nat :
                    /\ connected /\ txused < TxSize /\ took > 0
                    /\ txused' = txused + took /\ txused' <= TxSize
                    /\ txused' = TxSize \/ took = LineSize
                    /\ sent' = [n |-> resp.n, from |-> Units(First - 1),
                                upto |-> Units(First - 1) + took]
<1>1. OutputTypes /\ OneResponse BY DEF OutputInv
<1>2. Waiting > 0 /\ Waiting \in Nat /\ out_read \in 0 .. OUT_LINES - 1
  BY <1>1, Sizes, WaitingType DEF DrainLine, ToDrain, OutputTypes
<1>3. First \in Nat \ {0}
  <2>1. out[out_read] \in Nat \X Nat BY <1>1, <1>2 DEF OutputTypes
  <2> QED BY <1>1, <1>2, <2>1 DEF OneResponse, First
<1>4. out[out_read] = <<resp.n, First>>
  <2>1. Slot(out_read, 1, OUT_LINES) = out_read BY <1>2, Sizes DEF Slot
  <2>2. 1 \in 1 .. Waiting BY <1>2
  <2>3. out[out_read] = <<resp.n, First + 1 - 1>> BY <1>1, <2>1, <2>2 DEF OneResponse
  <2>4. First + 1 - 1 = First BY <1>3
  <2> QED BY <2>3, <2>4
<1>5. out_read' = After(out_read, OUT_LINES)
  BY <1>2, CodeIndices DEF DrainLine
<1>6. /\ UNCHANGED <<connected, pc, out_write, resp, printed, refused>> /\ pc = "drain"
      /\ out' = [out EXCEPT ![out_read] = NoLine]
  BY DEF DrainLine, host
<1>7. ASSUME connected
      PROVE  \/ txused = TxSize /\ UNCHANGED <<txused, sent>>
             \/ \E took \in Nat :
                   /\ txused < TxSize /\ took > 0
                   /\ txused' = txused + took /\ txused' <= TxSize
                   /\ txused' = TxSize \/ took = LineSize
                   /\ sent' = [n |-> resp.n, from |-> Units(First - 1),
                               upto |-> Units(First - 1) + took]
  <2>1. CdcWrite(resp.n, First)
    <3>1. out[out_read][1] = resp.n /\ out[out_read][2] = First BY <1>4
    <3> QED BY <1>7, <3>1 DEF DrainLine
  <2>2. PICK took : took = Min2(Room, LineSize) OBVIOUS
  <2>3. /\ txused' = txused + took
        /\ sent' = IF took > 0 THEN [n |-> resp.n, from |-> Units(First - 1),
                                     upto |-> Units(First - 1) + took]
                   ELSE sent
    BY <2>1, <2>2 DEF CdcWrite, Units
  <2>4. txused \in 0 .. TxSize /\ TxSize \in Nat /\ LineSize \in Nat /\ LineSize > 0
    BY <1>1, Sizes DEF OutputTypes
  <2>5. took = IF TxSize - txused < LineSize THEN TxSize - txused ELSE LineSize
    BY <2>2 DEF Min2, Room
  <2>6. CASE txused = TxSize
    <3>1. took = 0 BY <2>4, <2>5, <2>6
    <3> QED BY <2>3, <2>4, <2>6, <3>1
  <2>7. CASE txused # TxSize
    <3>1. took \in Nat /\ took > 0 /\ txused < TxSize /\ txused + took <= TxSize
          /\ (txused + took = TxSize \/ took = LineSize)
      BY <2>4, <2>5, <2>7
    <3> QED BY <2>3, <3>1
  <2> QED BY <2>6, <2>7
<1>8. ~connected => UNCHANGED <<txused, sent>> BY DEF DrainLine
<1> QED BY <1>2, <1>3, <1>4, <1>5, <1>6, <1>7, <1>8, <1>1 DEF OutputTypes
(* The lines behind the drained one move up, and CDC has all before them.    *)
LEMMA DrainStep == ASSUME OutputInv, DrainLine PROVE OutputInv'
<1> DEFINE k  == Waiting
           r  == out_read
           r2 == After(out_read, OUT_LINES)
<1>1. OutputTypes /\ OneResponse /\ SentSoFar /\ ResponsesFit BY DEF OutputInv
<1>2. /\ k > 0 /\ First \in Nat \ {0} /\ resp.n \in {0, 1} /\ pc = "drain"
      /\ out_read' = r2 /\ out' = [out EXCEPT ![r] = NoLine]
      /\ UNCHANGED <<connected, pc, out_write, resp, printed, refused>>
  BY DrainFacts
<1>3. /\ out_write \in 0 .. OUT_LINES - 1 /\ r \in 0 .. OUT_LINES - 1
      /\ OUT_LINES \in Nat /\ OUT_LINES > 0 /\ k \in 0 .. OUT_LINES - 1 /\ out_write # r
  BY <1>1, <1>2, Sizes, WaitingType DEF OutputTypes
<1>4. /\ r2 \in 0 .. OUT_LINES - 1
      /\ Count(out_write, r2, OUT_LINES) = k - 1
      /\ k > 1 => Slot(r2, 1, OUT_LINES) = r2
      /\ \A i \in 1 .. k - 1 : /\ Slot(r2, i, OUT_LINES) = Slot(r, i + 1, OUT_LINES)
                              /\ Slot(r2, i, OUT_LINES) # r
                              /\ Slot(r2, i, OUT_LINES) \in 0 .. OUT_LINES - 1
  BY <1>3 DEF Waiting, Count, Slot, After
<1>5. Waiting' = k - 1 BY <1>2, <1>4 DEF Waiting
<1> HIDE DEF k, r, r2
<1>6. out \in [0 .. OUT_LINES - 1 -> Nat \X Nat] BY <1>1 DEF OutputTypes
<1>7. ASSUME NEW i \in 1 .. k - 1
      PROVE  out'[Slot(r2, i, OUT_LINES)] = <<resp.n, First + i>>
  <2>1. out'[Slot(r2, i, OUT_LINES)] = out[Slot(r, i + 1, OUT_LINES)]
    BY <1>2, <1>4, <1>6
  <2>2. i + 1 \in 1 .. k BY <1>3
  <2>3. out[Slot(r, i + 1, OUT_LINES)] = <<resp.n, First + (i + 1) - 1>>
    BY <1>1, <2>2 DEF OneResponse, k, r
  <2>4. First + (i + 1) - 1 = First + i BY <1>2
  <2> QED BY <2>1, <2>3, <2>4
<1>8. k > 1 => First' = First + 1
  <2> SUFFICES ASSUME k > 1 PROVE First' = First + 1 OBVIOUS
  <2>1. 1 \in 1 .. k - 1 BY <1>3
  <2>2. out'[r2] = <<resp.n, First + 1>> BY <1>4, <1>7, <2>1
  <2> QED BY <1>2, <2>2 DEF First
<1>9. \/ UNCHANGED <<txused, sent>> /\ (~connected \/ txused = TxSize)
      \/ \E took \in Nat :
            /\ connected /\ txused < TxSize /\ took > 0
            /\ txused' = txused + took /\ txused' <= TxSize
            /\ txused' = TxSize \/ took = LineSize
            /\ sent' = [n |-> resp.n, from |-> Units(First - 1),
                        upto |-> Units(First - 1) + took]
  BY DrainFacts
<1>10. Units(First - 1) \in Nat /\ Units(First) = Units(First - 1) + LineSize
  <2>1. First - 1 \in Nat /\ (First - 1) + 1 = First BY <1>2
  <2> QED BY <2>1, UnitsAdd
<1>11. OutputTypes'
  <2>1. out' \in [0 .. OUT_LINES - 1 -> Nat \X Nat]
    BY <1>2, <1>6 DEF NoLine
  <2>2. /\ txused' \in 0 .. TxSize
        /\ sent' = Nothing \/ sent' \in [n : {0, 1}, from : Nat, upto : Nat]
    <3>1. CASE UNCHANGED <<txused, sent>> BY <1>1, <3>1 DEF OutputTypes
    <3>2. ASSUME NEW took \in Nat, txused' = txused + took, txused' <= TxSize,
                 sent' = [n |-> resp.n, from |-> Units(First - 1),
                          upto |-> Units(First - 1) + took]
          PROVE  txused' \in 0 .. TxSize /\ sent' \in [n : {0, 1}, from : Nat, upto : Nat]
      <4>1. txused \in 0 .. TxSize /\ TxSize \in Nat BY <1>1, Sizes DEF OutputTypes
      <4>2. Units(First - 1) + took \in Nat BY <1>10
      <4> QED BY <1>2, <1>10, <3>2, <4>1, <4>2
    <3> QED BY <1>9, <3>1, <3>2
  <2> QED BY <1>1, <1>2, <1>4, <2>1, <2>2 DEF OutputTypes
<1>12. OneResponse'
  <2>1. /\ \A i \in 1 .. Waiting' :
              out'[Slot(out_read', i, OUT_LINES)] = <<resp'.n, First' + i - 1>>
        /\ Waiting' > 0 => First' > 0
    <3>1. CASE k = 1 BY <1>5, <3>1
    <3>2. CASE k > 1
      <4>1. First' = First + 1 BY <1>8, <3>2
      <4>2. ASSUME NEW i \in 1 .. k - 1
            PROVE  out'[Slot(r2, i, OUT_LINES)] = <<resp.n, First' + i - 1>>
        <5>1. First' + i - 1 = First + i BY <1>2, <4>1
        <5> QED BY <1>7, <5>1
      <4>3. First' > 0 BY <1>2, <4>1
      <4> QED BY <1>2, <1>5, <4>2, <4>3
    <3> QED BY <1>2, <1>3, <3>1, <3>2
  <2> QED BY <1>2, <2>1 DEF OneResponse
<1>13. SentSoFar'
  <2> SUFFICES ASSUME connected', Waiting' > 0, txused' < TxSize
               PROVE  /\ sent' # Nothing
                      /\ sent'.n = resp'.n /\ sent'.upto = Units(First' - 1)
    BY DEF SentSoFar
  <2>1. k > 1 /\ First' - 1 = First BY <1>2, <1>3, <1>5, <1>8
  <2>2. TxSize \in Nat /\ txused \in 0 .. TxSize BY <1>1, Sizes DEF OutputTypes
  <2>3. PICK took \in Nat :
            /\ txused' = TxSize \/ took = LineSize
            /\ sent' = [n |-> resp.n, from |-> Units(First - 1),
                        upto |-> Units(First - 1) + took]
    BY <1>2, <1>9, <2>2
  <2>4. took = LineSize BY <2>2, <2>3
  <2>5. sent'.n = resp.n /\ sent'.upto = Units(First - 1) + took BY <2>3
  <2>6. sent' # Nothing
    <3>1. sent'.n # -1 BY <1>2, <2>5
    <3>2. Nothing.n = -1 BY DEF Nothing
    <3> QED BY <3>1, <3>2
  <2> QED BY <1>2, <1>10, <2>1, <2>4, <2>5, <2>6
<1>14. ResponsesFit' BY <1>1, <1>2 DEF ResponsesFit
<1> QED BY <1>11, <1>12, <1>13, <1>14 DEF OutputInv

(* A line of a response finds room as long as a ring has it.                 *)
LEMMA WriteStep == ASSUME OutputInv, WriteLine PROVE OutputInv'
<1> DEFINE k == Waiting
<1>1. OutputTypes /\ OneResponse /\ SentSoFar /\ ResponsesFit BY DEF OutputInv
<1>2. /\ pc = "respond" /\ resp.next <= resp.lines
      /\ resp' = [resp EXCEPT !.next = @ + 1] /\ printed' = ~printed
      /\ UNCHANGED <<pc, connected, txused, sent, out_read>>
  BY DEF WriteLine, host
<1>3. /\ resp \in [n : {0, 1}, lines : Nat, next : Nat \ {0}]
      /\ out \in [0 .. OUT_LINES - 1 -> Nat \X Nat]
      /\ out_write \in 0 .. OUT_LINES - 1 /\ out_read \in 0 .. OUT_LINES - 1
      /\ OUT_LINES \in Nat /\ OUT_LINES > 0 /\ refused \subseteq Nat
  BY <1>1, Sizes DEF OutputTypes
<1>4. /\ resp' \in [n : {0, 1}, lines : Nat, next : Nat \ {0}]
      /\ resp'.n = resp.n /\ resp'.lines = resp.lines /\ resp'.next = resp.next + 1
      /\ resp.next \in Nat /\ resp.next > 0 /\ resp.lines \in Nat
  <2>1. resp.next \in Nat /\ resp.next > 0 /\ resp.lines \in Nat BY <1>3
  <2>2. resp.next + 1 \in Nat \ {0} BY <2>1
  <2> QED BY <1>2, <1>3, <2>1, <2>2
<1>5. /\ k = Min2(resp.next - 1, OUT_LINES - 1) /\ sent = Nothing
      /\ k > 0 => First = 1
      /\ k \in 0 .. OUT_LINES - 1
      /\ RoomForLine <=> k # OUT_LINES - 1
  BY <1>1, <1>2, WaitingType DEF OneResponse, RoomForLine
<1>6. SentSoFar' BY <1>2 DEF SentSoFar
<1>7. CASE RoomForLine
  <2>1. /\ out' = [out EXCEPT ![out_write] = <<resp.n, resp.next>>]
        /\ out_write' = NextOut(out_write) /\ refused' = refused
    BY <1>7 DEF WriteLine
  <2>2. k = resp.next - 1 /\ k < OUT_LINES - 1 BY <1>3, <1>4, <1>5, <1>7 DEF Min2
  <2>3. out_write' = After(out_write, OUT_LINES) BY <1>3, <2>1, CodeIndices
  <2>4. /\ out_write' \in 0 .. OUT_LINES - 1
        /\ Count(out_write', out_read, OUT_LINES) = k + 1
        /\ Slot(out_read, k + 1, OUT_LINES) = out_write
        /\ \A i \in 1 .. k : /\ Slot(out_read, i, OUT_LINES) # out_write
                            /\ Slot(out_read, i, OUT_LINES) \in 0 .. OUT_LINES - 1
        /\ k = 0 <=> out_read = out_write
    <3>1. out_write' \in 0 .. OUT_LINES - 1 BY <1>3, <2>3 DEF After
    <3>2. k = Count(out_write, out_read, OUT_LINES) /\ k < OUT_LINES - 1
      BY <2>2 DEF Waiting
    <3>3. Count(out_write', out_read, OUT_LINES) = k + 1
      BY <1>3, <2>3, <3>2 DEF Count, After
    <3>4. Slot(out_read, k + 1, OUT_LINES) = out_write
      BY <1>3, <3>2 DEF Count, Slot
    <3>5. \A i \in 1 .. k : /\ Slot(out_read, i, OUT_LINES) # out_write
                            /\ Slot(out_read, i, OUT_LINES) \in 0 .. OUT_LINES - 1
      BY <1>3, <3>2 DEF Count, Slot
    <3>6. k = 0 <=> out_read = out_write BY <1>3, <3>2 DEF Count
    <3> QED BY <3>1, <3>3, <3>4, <3>5, <3>6
  <2>5. Waiting' = k + 1 BY <1>2, <2>4 DEF Waiting
  <2> HIDE DEF k
  <2>6. First' = 1
    <3>1. CASE k = 0
      <4>1. out_read = out_write /\ resp.next = 1 BY <1>4, <2>2, <2>4, <3>1
      <4>2. out'[out_read'] = <<resp.n, 1>> BY <1>2, <1>3, <2>1, <4>1
      <4> QED BY <4>2 DEF First
    <3>2. CASE k # 0
      <4>1. out_read # out_write /\ First = 1 BY <1>5, <2>4, <3>2
      <4>2. out'[out_read'] = out[out_read] BY <1>2, <1>3, <2>1, <4>1
      <4> QED BY <4>1, <4>2 DEF First
    <3> QED BY <3>1, <3>2
  <2>7. ASSUME NEW i \in 1 .. k + 1
        PROVE  out'[Slot(out_read, i, OUT_LINES)] = <<resp.n, i>>
    <3>1. CASE i = k + 1
      <4>1. i = resp.next BY <1>4, <2>2, <3>1
      <4>2. out'[out_write] = <<resp.n, resp.next>> BY <1>3, <2>1
      <4> QED BY <2>4, <3>1, <4>1, <4>2
    <3>2. CASE i # k + 1
      <4>1. i \in 1 .. k /\ First = 1 BY <1>5, <3>2
      <4>2. out'[Slot(out_read, i, OUT_LINES)] = out[Slot(out_read, i, OUT_LINES)]
        BY <1>3, <2>1, <2>4, <4>1
      <4>3. out[Slot(out_read, i, OUT_LINES)] = <<resp.n, First + i - 1>>
        BY <1>1, <4>1 DEF OneResponse, k
      <4>4. First + i - 1 = i BY <4>1
      <4> QED BY <4>2, <4>3, <4>4
    <3> QED BY <3>1, <3>2
  <2>8. OneResponse'
    <3>1. ASSUME NEW i \in 1 .. Waiting'
          PROVE  out'[Slot(out_read', i, OUT_LINES)] = <<resp'.n, First' + i - 1>>
      <4>1. First' + i - 1 = i BY <2>6
      <4> QED BY <1>2, <1>4, <2>5, <2>7, <4>1
    <3>2. Waiting' = Min2(resp'.next - 1, OUT_LINES - 1)
      <4>1. PICK x \in Nat : x = resp.next BY <1>4
      <4>2. resp'.next = x + 1 /\ k = x - 1 /\ k < OUT_LINES - 1 BY <1>4, <2>2, <4>1
      <4>3. PICK y \in Nat : y = k BY <1>5
      <4>4. resp'.next - 1 = k + 1 /\ k + 1 <= OUT_LINES - 1 BY <1>3, <4>2, <4>3
      <4>5. PICK z \in Nat : z = y + 1 BY <4>3
      <4>6. Min2(z, OUT_LINES - 1) = z BY <1>3, <4>3, <4>4, <4>5 DEF Min2
      <4> QED BY <2>5, <4>3, <4>4, <4>5, <4>6
    <3> QED BY <1>2, <1>5, <2>6, <3>1, <3>2 DEF OneResponse
  <2>9. OutputTypes'
    <3>1. <<resp.n, resp.next>> \in Nat \X Nat BY <1>3, <1>4
    <3>2. out' \in [0 .. OUT_LINES - 1 -> Nat \X Nat] BY <1>3, <2>1, <3>1
    <3>3. resp'.next <= resp'.lines + 1 BY <1>2, <1>4
    <3> QED BY <1>1, <1>2, <1>4, <2>1, <2>4, <3>2, <3>3 DEF OutputTypes
  <2>10. ResponsesFit' BY <1>1, <2>1 DEF ResponsesFit
  <2> QED BY <1>6, <2>8, <2>9, <2>10 DEF OutputInv
<1>8. CASE ~RoomForLine
  <2>1. refused' = refused \cup {resp.next} /\ UNCHANGED <<out, out_write>>
    BY <1>8 DEF WriteLine
  <2>2. k = OUT_LINES - 1 /\ resp.next >= OUT_LINES
    BY <1>3, <1>4, <1>5, <1>8 DEF Min2
  <2>3. ResponsesFit' BY <1>1, <2>1, <2>2 DEF ResponsesFit
  <2>4. Waiting' = k /\ First' = First BY <1>2, <2>1 DEF Waiting, First
  <2>5. Waiting' = Min2(resp'.next - 1, OUT_LINES - 1)
    BY <1>3, <1>4, <2>2, <2>4 DEF Min2
  <2>6. OneResponse'
    BY <1>1, <1>2, <1>4, <2>1, <2>4, <2>5 DEF OneResponse
  <2>7. OutputTypes'
    <3>1. refused' \subseteq Nat BY <1>3, <1>4, <2>1
    <3>2. resp'.next <= resp'.lines + 1 BY <1>2, <1>4
    <3> QED BY <1>1, <1>2, <1>4, <2>1, <3>1, <3>2 DEF OutputTypes
  <2> QED BY <1>6, <2>3, <2>6, <2>7 DEF OutputInv
<1> QED BY <1>7, <1>8
(* A command finds the ring empty, as the drain of its turn has left it.     *)
LEMMA ExecuteStep == ASSUME OutputInv, pc = "dispatch", Execute PROVE OutputInv'
<1>1. OutputTypes /\ OneResponse /\ ResponsesFit BY DEF OutputInv
<1>2. PICK n \in Nat : resp' = [n |-> 1 - resp.n, lines |-> n, next |-> 1] BY DEF Execute
<1>3. /\ pc' = "respond" /\ sent' = Nothing
      /\ UNCHANGED <<txused, out, out_write, out_read, printed, refused>>
  BY DEF Execute, ring_o
<1>4. /\ resp' \in [n : {0, 1}, lines : Nat, next : Nat \ {0}]
      /\ resp'.next = 1 /\ resp'.lines = n
  <2>1. resp.n \in {0, 1} BY <1>1 DEF OutputTypes
  <2>2. 1 - resp.n \in {0, 1} BY <2>1
  <2> QED BY <1>2, <2>2
<1>5. Waiting' = 0 BY <1>1, <1>3 DEF OneResponse, Waiting
<1>6. OutputTypes'
  <2>1. resp'.next <= resp'.lines + 1 BY <1>4
  <2> QED BY <1>1, <1>3, <1>4, <2>1 DEF OutputTypes
<1>7. OneResponse'
  <2>1. Waiting' = Min2(resp'.next - 1, OUT_LINES - 1)
    BY <1>4, <1>5, Sizes DEF Min2
  <2> QED BY <1>3, <1>5, <2>1 DEF OneResponse
<1>8. SentSoFar' /\ ResponsesFit' BY <1>1, <1>3 DEF SentSoFar, ResponsesFit
<1> QED BY <1>6, <1>7, <1>8 DEF OutputInv

(* Empty rings and no response, as after a restart.                          *)
LEMMA EmptyOutput ==
    ASSUME out = NoOutput, out_write = 0, out_read = 0, resp = Silence(0),
           sent = Nothing, txused = 0, refused = {}, printed = FALSE, pc # "respond"
    PROVE  OutputInv
<1>1. Waiting = 0 BY DEF Waiting, Count
<1>2. /\ Silence(0) \in [n : {0, 1}, lines : Nat, next : Nat \ {0}]
      /\ resp.next = 1 /\ resp.lines = 0
  BY DEF Silence
<1>3. /\ NoOutput \in [0 .. OUT_LINES - 1 -> Nat \X Nat]
      /\ 0 \in 0 .. OUT_LINES - 1 /\ 0 \in 0 .. TxSize
  BY Sizes DEF NoOutput, NoLine
<1>4. OutputTypes
  <2>1. /\ resp \in [n : {0, 1}, lines : Nat, next : Nat \ {0}]
        /\ resp.next <= resp.lines + 1
    BY <1>2
  <2>2. out \in [0 .. OUT_LINES - 1 -> Nat \X Nat] BY <1>3
  <2>3. printed \in BOOLEAN /\ refused \subseteq Nat OBVIOUS
  <2> QED BY <1>3, <2>1, <2>2, <2>3 DEF OutputTypes
<1>5. OneResponse BY <1>1 DEF OneResponse
<1>6. SentSoFar /\ ResponsesFit BY <1>1 DEF SentSoFar, ResponsesFit
<1> QED BY <1>4, <1>5, <1>6 DEF OutputInv

(* The steps that leave the ring and the response alone.                     *)
LEMMA QuietStep ==
    ASSUME OutputInv, UNCHANGED <<ring_o, resp, printed, refused, sent>>,
           \/ UNCHANGED <<pc, connected, txused>>
           \/ pc = "task" /\ pc' \in {"task", "drain"} /\ txused' \in 0 .. TxSize
           \/ Waiting = 0 /\ pc' # "respond" /\ txused' = txused
    PROVE  OutputInv'
<1>1. OutputTypes /\ OneResponse /\ SentSoFar /\ ResponsesFit BY DEF OutputInv
<1>2. Waiting' = Waiting /\ First' = First BY DEF ring_o, Waiting, First
<1>3. OutputTypes' BY <1>1 DEF OutputTypes, ring_o
<1>4. ResponsesFit' BY <1>1 DEF ResponsesFit
<1>5. CASE UNCHANGED <<pc, connected, txused>>
  <2>1. OneResponse' BY <1>1, <1>2, <1>5 DEF OneResponse, ring_o
  <2>2. SentSoFar' BY <1>1, <1>2, <1>5 DEF SentSoFar
  <2> QED BY <1>3, <1>4, <2>1, <2>2 DEF OutputInv
<1>6. CASE pc = "task" /\ pc' \in {"task", "drain"}
  <2>1. OneResponse' BY <1>1, <1>2, <1>6 DEF OneResponse, ring_o
  <2>2. SentSoFar' BY <1>1, <1>2, <1>6 DEF SentSoFar, OneResponse
  <2> QED BY <1>3, <1>4, <2>1, <2>2 DEF OutputInv
<1>7. CASE Waiting = 0 /\ pc' # "respond"
  <2>1. OneResponse' BY <1>1, <1>2, <1>7 DEF OneResponse
  <2>2. SentSoFar' BY <1>2, <1>7 DEF SentSoFar
  <2> QED BY <1>3, <1>4, <2>1, <2>2 DEF OutputInv
<1> QED BY <1>5, <1>6, <1>7

(* After its last line a response waits in the ring from its beginning.      *)
LEMMA DoneStep == ASSUME OutputInv, Done PROVE OutputInv'
<1>1. OutputTypes /\ OneResponse BY DEF OutputInv
<1>2. /\ pc = "respond" /\ pc' = "task" /\ resp' = Silence(resp.n) /\ refused' = {}
      /\ UNCHANGED <<txused, out, out_write, out_read, printed, sent>>
  BY DEF Done, ring_o
<1>3. /\ Silence(resp.n) \in [n : {0, 1}, lines : Nat, next : Nat \ {0}]
      /\ resp'.n = resp.n /\ resp'.next = 1 /\ resp'.lines = 0
  BY <1>1, <1>2 DEF Silence, OutputTypes
<1>4. Waiting' = Waiting /\ First' = First BY <1>2 DEF Waiting, First
<1>5. OutputTypes' BY <1>1, <1>2, <1>3 DEF OutputTypes
<1>6. OneResponse' BY <1>1, <1>2, <1>3, <1>4 DEF OneResponse
<1>7. SentSoFar' /\ ResponsesFit' BY <1>2 DEF SentSoFar, ResponsesFit
<1> QED BY <1>5, <1>6, <1>7 DEF OutputInv

(* Every step of the host and of the turn keeps the output in order.         *)
LEMMA OutputStep == OutputInv /\ [Next]_vars => OutputInv'
<1> SUFFICES ASSUME OutputInv, [Next]_vars PROVE OutputInv' OBVIOUS
<1>1. OutputTypes /\ OneResponse BY DEF OutputInv
<1>2. CASE Open \/ HangUp \/ Type \/ Fetch
  <2>1. /\ UNCHANGED <<ring_o, resp, printed, refused, sent>>
        /\ pc = "task" /\ pc' = "task"
    BY <1>2 DEF Open, HangUp, Type, Fetch, hist
  <2>2. txused' \in 0 .. TxSize
    <3>1. CASE Open \/ HangUp \/ Type
      BY <1>1, <3>1 DEF Open, HangUp, Type, OutputTypes
    <3>2. CASE Fetch
      <4>1. txused' \in 0 .. txused - 1 /\ txused \in 0 .. TxSize /\ TxSize \in Nat
        BY <1>1, <3>2, Sizes DEF Fetch, OutputTypes
      <4> QED BY <4>1
    <3> QED BY <1>2, <3>1, <3>2
  <2> QED BY <2>1, <2>2, QuietStep
<1>3. CASE Task
  <2>1. /\ UNCHANGED <<ring_o, resp, printed, refused, sent>>
        /\ pc = "task" /\ pc' = "drain"
    BY <1>3 DEF Task, hist
  <2>2. txused' \in 0 .. TxSize
    <3>1. txused \in 0 .. TxSize /\ TxSize \in Nat BY <1>1, Sizes DEF OutputTypes
    <3>2. txused' = txused \/ txused' = Min2(txused + 1, TxSize) BY <1>3 DEF Task
    <3> QED BY <3>1, <3>2 DEF Min2
  <2> QED BY <2>1, <2>2, QuietStep
<1>4. CASE DrainEnd \/ ReadEnd \/ NoCommand \/ PowerCycle
  <2>1. /\ UNCHANGED <<ring_o, resp, printed, refused, sent>>
        /\ pc' # "respond" /\ txused' = txused
    BY <1>4 DEF DrainEnd, ReadEnd, NoCommand, PowerCycle, hist
  <2>2. Waiting = 0
    <3>1. CASE DrainEnd BY <1>1, <3>1, WaitingType DEF DrainEnd, ToDrain
    <3>2. CASE ReadEnd \/ NoCommand \/ PowerCycle
      BY <1>1, <3>2 DEF ReadEnd, NoCommand, PowerCycle, OneResponse
    <3> QED BY <1>4, <3>1, <3>2
  <2> QED BY <2>1, <2>2, QuietStep
<1>5. CASE ReadChar \/ UNCHANGED vars
  <2>1. UNCHANGED <<ring_o, resp, printed, refused, sent, pc, connected, txused>>
    BY <1>5 DEF ReadChar, vars, host, hist
  <2> QED BY <2>1, QuietStep
<1>6. CASE Dispatch
  <2>1. CASE Update
    <3>1. /\ out' = NoOutput /\ out_write' = 0 /\ out_read' = 0
          /\ resp' = Silence(0) /\ sent' = Nothing /\ txused' = 0 /\ refused' = {}
          /\ printed' = FALSE /\ pc' # "respond"
      BY <2>1 DEF Update
    <3>2. Waiting' = 0 BY <3>1 DEF Waiting, Count
    <3>3. /\ resp' \in [n : {0, 1}, lines : Nat, next : Nat \ {0}]
          /\ resp'.next = 1 /\ resp'.lines = 0
      BY <3>1 DEF Silence
    <3>4. /\ NoOutput \in [0 .. OUT_LINES - 1 -> Nat \X Nat]
          /\ 0 \in 0 .. OUT_LINES - 1 /\ 0 \in 0 .. TxSize
      BY Sizes DEF NoOutput, NoLine
    <3>5. OutputTypes'
      <4>1. resp'.next <= resp'.lines + 1 BY <3>3
      <4>2. out' \in [0 .. OUT_LINES - 1 -> Nat \X Nat] BY <3>1, <3>4
      <4>3. printed' \in BOOLEAN /\ refused' \subseteq Nat BY <3>1
      <4> QED BY <3>1, <3>3, <3>4, <4>1, <4>2, <4>3 DEF OutputTypes
    <3>6. OneResponse' BY <3>1, <3>2 DEF OneResponse
    <3>7. SentSoFar' /\ ResponsesFit' BY <3>1, <3>2 DEF SentSoFar, ResponsesFit
    <3> QED BY <3>5, <3>6, <3>7 DEF OutputInv
  <2>2. CASE Execute BY <1>6, <2>2, DispatchCases, ExecuteStep
  <2> QED BY <1>6, <2>1, <2>2, DispatchCases
<1>7. CASE DrainLine BY <1>7, DrainStep
<1>8. CASE WriteLine BY <1>8, WriteStep
<1>9. CASE Done BY <1>9, DoneStep
<1> QED BY <1>2, <1>3, <1>4, <1>5, <1>6, <1>7, <1>8, <1>9 DEF Next, Host, Core0
(* The places of a turn.                                                     *)
LEMMA TurnStep == TurnTypes /\ [Next]_vars => TurnTypes'
<1> SUFFICES ASSUME TurnTypes, [Next]_vars PROVE TurnTypes' OBVIOUS
<1> USE DEF TurnTypes
<1>1. CASE Host
  BY <1>1 DEF Host, Open, HangUp, Type, Fetch, host
<1>2. CASE Dispatch
  BY <1>2, DispatchCases DEF Update, Execute, host
<1>3. CASE Task \/ DrainLine \/ DrainEnd \/ ReadChar \/ ReadEnd \/ NoCommand
           \/ WriteLine \/ Done \/ PowerCycle
  BY <1>3 DEF Task, DrainLine, DrainEnd, ReadChar, ReadEnd, NoCommand, WriteLine, Done,
              PowerCycle, host
<1>4. CASE UNCHANGED vars
  BY <1>4 DEF vars, host
<1> QED BY <1>1, <1>2, <1>3, <1>4 DEF Next, Core0

(* After power-up the rings are empty.                                       *)
LEMMA InitiallyEmpty == Init => IInv
<1> SUFFICES ASSUME Init PROVE IInv OBVIOUS
<1>1. OutputInv
  <2>1. /\ out = NoOutput /\ out_write = 0 /\ out_read = 0 /\ resp = Silence(0)
        /\ sent = Nothing /\ txused = 0 /\ refused = {} /\ printed = FALSE /\ pc # "respond"
    BY DEF Init
  <2> QED BY <2>1, EmptyOutput
<1>2. InputInv
  <2>1. /\ rx = << >> /\ accum = << >> /\ cmd = NoCommands /\ cmd_write = 0
        /\ cmd_read = 0 /\ next = "session" /\ pushed = FALSE
    BY DEF Init
  <2>2. /\ << >> \in Seq(Received) /\ << >> \in Seq(Typed) /\ Len(<< >>) <= LineLen
        /\ 0 \in 0 .. CMD_LINES - 1
        /\ NoCommands \in [0 .. CMD_LINES - 1 -> Seq(Typed)]
    BY Sizes DEF NoCommands
  <2>3. InputTypes BY <2>1, <2>2 DEF InputTypes
  <2>4. Follows BY <2>1 DEF Follows
  <2>5. AllUnmixed BY <2>1 DEF AllUnmixed, Unmixed, NoCommands
  <2> QED BY <2>3, <2>4, <2>5 DEF InputInv
<1>3. TurnTypes BY DEF Init, TurnTypes
<1> QED BY <1>1, <1>2, <1>3 DEF IInv

(* Every step keeps the rings in order.                                      *)
LEMMA StaysInOrder == IInv /\ [Next]_vars => IInv'
BY InputStep, OutputStep, TurnStep DEF IInv

-----------------------------------------------------------------------------
(* The theorems.                                                             *)

(* No index of a ring, no line and no buffer ever grows out of its bounds.   *)
THEOREM TypeCorrect == Spec => []TypeOK
<1>1. IInv => TypeOK
  <2> SUFFICES ASSUME IInv PROVE TypeOK OBVIOUS
  <2>1. InputTypes /\ OutputTypes /\ TurnTypes BY DEF IInv, InputInv, OutputInv
  <2>2. resp.next \in 1 .. resp.lines + 1
    <3>1. resp.next \in Nat \ {0} /\ resp.lines \in Nat /\ resp.next <= resp.lines + 1
      BY <2>1 DEF OutputTypes
    <3> QED BY <3>1
  <2> QED BY <2>1, <2>2 DEF TypeOK, InputTypes, OutputTypes, TurnTypes
<1> QED BY <1>1, InitiallyEmpty, StaysInOrder, PTL DEF Spec

(* usb_serial_write_line refuses no line of a response that an empty ring    *)
(* would have held, since the drain before the dispatch empties it, with or  *)
(* without a host.                                                          *)
THEOREM DrainMakesRoom == Spec => []ResponsesFit
<1>1. IInv => ResponsesFit BY DEF IInv, OutputInv
<1> QED BY <1>1, InitiallyEmpty, StaysInOrder, PTL DEF Spec

(* A command never joins the words of two lines.                             *)
THEOREM LinesStayApart == Spec => []CommandsAreLines
<1>1. IInv => CommandsAreLines
  <2> SUFFICES ASSUME IInv PROVE CommandsAreLines OBVIOUS
  <2>1. InputTypes /\ AllUnmixed BY DEF IInv, InputInv
  <2>2. /\ cmd_write \in 0 .. CMD_LINES - 1 /\ cmd_read \in 0 .. CMD_LINES - 1
        /\ CMD_LINES \in Nat /\ CMD_LINES > 0
        /\ cmd \in [0 .. CMD_LINES - 1 -> Seq(Typed)]
    BY <2>1, Sizes DEF InputTypes
  <2>3. CmdQueue = Ring(cmd, cmd_write, cmd_read, CMD_LINES)
    BY <2>2, CmdQueueIsRing
  <2>4. PICK k : k = Count(cmd_write, cmd_read, CMD_LINES) OBVIOUS
  <2>5. /\ k \in Nat
        /\ \A i \in 1 .. k : Slot(cmd_read, i, CMD_LINES) \in 0 .. CMD_LINES - 1
    BY <2>2, <2>4 DEF Count, Slot
  <2>6. CmdQueue = [i \in 1 .. k |-> cmd[Slot(cmd_read, i, CMD_LINES)]]
    BY <2>3, <2>4 DEF Ring
  <2>7. CmdQueue \in [1 .. k -> Seq(Typed)]
    BY <2>2, <2>5, <2>6
  <2>8. Len(CmdQueue) = k BY <2>5, <2>7
  <2> QED BY <2>1, <2>5, <2>6, <2>8 DEF CommandsAreLines, AllUnmixed
<1> QED BY <1>1, InitiallyEmpty, StaysInOrder, PTL DEF Spec

(* The host sees a prefix of each response, with no hole in it: what CDC      *)
(* takes next follows what it took last, or begins a response.              *)
THEOREM PrefixesOnly == Spec => HostSeesPrefixes
<1> DEFINE Follow == \/ sent' = Nothing
                     \/ sent'.n = sent.n /\ sent'.from = sent.upto
                     \/ sent'.n # sent.n /\ sent'.from = 0
<1>1. ASSUME IInv, [Next]_vars, sent' # sent PROVE Follow
  <2>1. OutputTypes /\ SentSoFar /\ OutputInv BY <1>1 DEF IInv, OutputInv
  <2>2. CASE Dispatch BY <2>2, DispatchCases DEF Update, Execute
  <2>3. CASE DrainLine
    <3>1. /\ Waiting > 0 /\ First \in Nat \ {0} /\ resp.n \in {0, 1} /\ pc = "drain"
      BY <2>1, <2>3, DrainFacts
    <3>2. PICK took \in Nat :
            /\ connected /\ txused < TxSize
            /\ sent' = [n |-> resp.n, from |-> Units(First - 1),
                        upto |-> Units(First - 1) + took]
      BY <1>1, <2>1, <2>3, DrainFacts
    <3>3. sent'.n = resp.n /\ sent'.from = Units(First - 1) BY <3>2
    <3>4. CASE sent = Nothing
      <4>1. First = 1 BY <2>1, <3>1, <3>2, <3>4 DEF SentSoFar
      <4>2. Units(First - 1) = 0
        <5>1. First - 1 = 0 BY <4>1
        <5> QED BY <5>1, UnitsAdd
      <4>3. sent.n = -1 BY <3>4 DEF Nothing
      <4> QED BY <3>1, <3>3, <4>2, <4>3
    <3>5. CASE sent # Nothing
      BY <2>1, <3>1, <3>2, <3>3, <3>5 DEF SentSoFar
    <3> QED BY <3>4, <3>5
  <2>4. CASE ~Dispatch /\ ~DrainLine
    <3>1. sent' = sent
      BY <1>1, <2>4 DEF Next, Host, Core0, Open, HangUp, Type, Fetch, Task, DrainEnd,
           ReadChar, ReadEnd, NoCommand, WriteLine, Done, PowerCycle, vars, hist
    <3> QED BY <1>1, <3>1
  <2> QED BY <2>2, <2>3, <2>4
<1>2. IInv /\ [Next]_vars => [sent' # sent => Follow]_vars BY <1>1
<1> QED BY <1>2, InitiallyEmpty, StaysInOrder, PTL DEF Spec, HostSeesPrefixes

-----------------------------------------------------------------------------
(* The rings are lossy queues.                                               *)

(* The rings, in the terms of the lemmas about rings.                        *)
LEMMA RingsAreRings ==
    /\ InputTypes => IsRing(cmd, cmd_write, cmd_read, CMD_LINES, Seq(Typed))
    /\ OutputTypes => IsRing(out, out_write, out_read, OUT_LINES, Nat \X Nat)
BY Sizes DEF InputTypes, OutputTypes, IsRing

(* The queues of two successive states.                                      *)
LEMMA QueuesAreRings ==
    ASSUME IInv, IInv'
    PROVE  /\ CmdQueue = Ring(cmd, cmd_write, cmd_read, CMD_LINES)
           /\ CmdQueue' = Ring(cmd', cmd_write', cmd_read', CMD_LINES)
           /\ OutQueue = Ring(out, out_write, out_read, OUT_LINES)
           /\ OutQueue' = Ring(out', out_write', out_read', OUT_LINES)
<1>1. InputTypes /\ InputTypes' /\ OutputTypes /\ OutputTypes'
  BY DEF IInv, InputInv, OutputInv
<1>2. CmdQueue' = Ring(cmd', cmd_write', cmd_read', CMD_LINES)
  <2>1. cmd_write' \in 0 .. CMD_LINES - 1 /\ cmd_read' \in 0 .. CMD_LINES - 1
    BY <1>1 DEF InputTypes
  <2>2. /\ (cmd_write' - cmd_read') % CMD_LINES = Count(cmd_write', cmd_read', CMD_LINES)
        /\ \A i \in 1 .. CMD_LINES :
              (cmd_read' + i - 1) % CMD_LINES = Slot(cmd_read', i, CMD_LINES)
    BY <2>1, Sizes, RingIndices
  <2>3. Count(cmd_write', cmd_read', CMD_LINES) \in 0 .. CMD_LINES - 1
    <3>1. PICK w, r : w = cmd_write' /\ r = cmd_read' OBVIOUS
    <3>2. w \in 0 .. CMD_LINES - 1 /\ r \in 0 .. CMD_LINES - 1 BY <2>1, <3>1
    <3>3. Count(w, r, CMD_LINES) \in 0 .. CMD_LINES - 1 BY <3>2, Sizes DEF Count
    <3> QED BY <3>1, <3>3
  <2>4. \A i \in 1 .. Count(cmd_write', cmd_read', CMD_LINES) : i \in 1 .. CMD_LINES
    BY <2>3, Sizes
  <2> QED BY <2>2, <2>4 DEF CmdQueue, Ring
<1>3. OutQueue' = Ring(out', out_write', out_read', OUT_LINES)
  <2>1. out_write' \in 0 .. OUT_LINES - 1 /\ out_read' \in 0 .. OUT_LINES - 1
    BY <1>1 DEF OutputTypes
  <2>2. /\ (out_write' - out_read') % OUT_LINES = Count(out_write', out_read', OUT_LINES)
        /\ \A i \in 1 .. OUT_LINES :
              (out_read' + i - 1) % OUT_LINES = Slot(out_read', i, OUT_LINES)
    BY <2>1, Sizes, RingIndices
  <2>3. Count(out_write', out_read', OUT_LINES) \in 0 .. OUT_LINES - 1
    <3>1. PICK w, r : w = out_write' /\ r = out_read' OBVIOUS
    <3>2. w \in 0 .. OUT_LINES - 1 /\ r \in 0 .. OUT_LINES - 1 BY <2>1, <3>1
    <3>3. Count(w, r, OUT_LINES) \in 0 .. OUT_LINES - 1 BY <3>2, Sizes DEF Count
    <3> QED BY <3>1, <3>3
  <2>4. \A i \in 1 .. Count(out_write', out_read', OUT_LINES) : i \in 1 .. OUT_LINES
    BY <2>3, Sizes
  <2> QED BY <2>2, <2>4 DEF OutQueue, Ring
<1>4. CmdQueue = Ring(cmd, cmd_write, cmd_read, CMD_LINES)
  BY <1>1, CmdQueueIsRing DEF InputTypes
<1>5. OutQueue = Ring(out, out_write, out_read, OUT_LINES)
  BY <1>1, OutQueueIsRing DEF OutputTypes
<1> QED BY <1>2, <1>3, <1>4, <1>5

(* A full line ring is one with a single free slot, and an empty one holds    *)
(* nothing.                                                                 *)
LEMMA RingIsFull ==
    \A slots, w, r, n, S : IsRing(slots, w, r, n, S) =>
        (Len(Ring(slots, w, r, n)) < n - 1 <=> After(w, n) # r)
<1> SUFFICES ASSUME NEW slots, NEW w, NEW r, NEW n, NEW S, IsRing(slots, w, r, n, S)
             PROVE  Len(Ring(slots, w, r, n)) < n - 1 <=> After(w, n) # r
  OBVIOUS
<1>1. Len(Ring(slots, w, r, n)) = Count(w, r, n) BY RingIsQueue
<1>2. n \in Nat /\ n > 0 /\ w \in 0 .. n - 1 /\ r \in 0 .. n - 1 BY DEF IsRing
<1> QED BY <1>1, <1>2 DEF Count, After

(* What leaves a ring alone leaves its queue alone.                          *)
LEMMA QueuesStay ==
    /\ UNCHANGED ring_c => CmdQueue' = CmdQueue
    /\ UNCHANGED ring_o => OutQueue' = OutQueue
BY DEF ring_c, ring_o, CmdQueue, OutQueue

(* A line is offered to the command ring.                                    *)
LEMMA PushIsOffer ==
    ASSUME IInv, IInv', PushCmd, cmd_read' = cmd_read
    PROVE  Commands!Offer
<1>1. /\ CmdQueue = Ring(cmd, cmd_write, cmd_read, CMD_LINES)
      /\ CmdQueue' = Ring(cmd', cmd_write', cmd_read', CMD_LINES)
  BY QueuesAreRings
<1>2. InputTypes /\ IsRing(cmd, cmd_write, cmd_read, CMD_LINES, Seq(Typed))
  BY RingsAreRings DEF IInv, InputInv
<1>3. Len(CmdQueue) < CMD_LINES - 1 <=> RoomForCmd
  <2>1. Len(Ring(cmd, cmd_write, cmd_read, CMD_LINES)) < CMD_LINES - 1
          <=> After(cmd_write, CMD_LINES) # cmd_read
    BY <1>2, RingIsFull, Zenon
  <2>2. NextCmd(cmd_write) = After(cmd_write, CMD_LINES)
    BY <1>2, CodeIndices DEF InputTypes
  <2> QED BY <1>1, <2>1, <2>2 DEF RoomForCmd
<1>4. CASE RoomForCmd
  <2>1. /\ cmd' = [cmd EXCEPT ![cmd_write] = accum]
        /\ cmd_write' = After(cmd_write, CMD_LINES) /\ cmd_write' # cmd_read
        /\ accum \in Seq(Typed)
    BY <1>2, <1>4, CodeIndices DEF PushCmd, RoomForCmd, InputTypes
  <2>2. Put(cmd', cmd, cmd_write, cmd_write', accum, CMD_LINES)
    BY <2>1 DEF Put
  <2>3. Extends(Ring(cmd', cmd_write', cmd_read, CMD_LINES),
                Ring(cmd, cmd_write, cmd_read, CMD_LINES))
    BY <1>2, <2>1, <2>2, RingPush, Zenon
  <2>4. Commands!Accept BY <1>1, <2>3 DEF Commands!Accept, Extends
  <2>5. pushed' = ~pushed BY DEF PushCmd
  <2> QED BY <1>3, <1>4, <2>4, <2>5 DEF Commands!Offer
<1>5. CASE ~RoomForCmd
  <2>1. CmdQueue' = CmdQueue BY <1>5, QueuesStay DEF PushCmd, ring_c
  <2>2. pushed' = ~pushed BY DEF PushCmd
  <2> QED BY <1>3, <1>5, <2>1, <2>2 DEF Commands!Offer
<1> QED BY <1>4, <1>5

(* The first command is executed.                                            *)
LEMMA ExecuteIsTake ==
    ASSUME IInv, IInv', Execute, cmd_read # cmd_write
    PROVE  Commands!Take
<1>1. /\ CmdQueue = Ring(cmd, cmd_write, cmd_read, CMD_LINES)
      /\ CmdQueue' = Ring(cmd', cmd_write', cmd_read', CMD_LINES)
  BY QueuesAreRings
<1>2. InputTypes /\ IsRing(cmd, cmd_write, cmd_read, CMD_LINES, Seq(Typed))
  BY RingsAreRings DEF IInv, InputInv
<1>3. CmdQueue # << >>
  <2>1. Ring(cmd, cmd_write, cmd_read, CMD_LINES) = << >> <=> cmd_write = cmd_read
    BY <1>2, RingIsQueue
  <2> QED BY <1>1, <2>1
<1>4. /\ cmd' = [cmd EXCEPT ![cmd_read] = << >>] /\ << >> \in Seq(Typed)
      /\ cmd_read' = After(cmd_read, CMD_LINES) /\ cmd_write' = cmd_write
  BY <1>2, CodeIndices DEF Execute, InputTypes
<1>5. IsRest(Ring(cmd', cmd_write, cmd_read', CMD_LINES),
             Ring(cmd, cmd_write, cmd_read, CMD_LINES))
  <2>1. Put(cmd', cmd, cmd_read, cmd_read', << >>, CMD_LINES) BY <1>4 DEF Put
  <2>2. cmd_write # cmd_read OBVIOUS
  <2> QED BY <1>2, <1>4, <2>1, <2>2, RingPop, Zenon
<1>6. pushed' = pushed BY DEF Execute
<1> QED BY <1>1, <1>3, <1>4, <1>5, <1>6 DEF Commands!Take, IsRest

(* A line of a response is offered to the output ring.                       *)
LEMMA WriteIsOffer ==
    ASSUME IInv, IInv', WriteLine
    PROVE  Output!Offer
<1>1. /\ OutQueue = Ring(out, out_write, out_read, OUT_LINES)
      /\ OutQueue' = Ring(out', out_write', out_read', OUT_LINES)
  BY QueuesAreRings
<1>2. OutputTypes /\ IsRing(out, out_write, out_read, OUT_LINES, Nat \X Nat)
  BY RingsAreRings DEF IInv, OutputInv
<1>3. Len(OutQueue) < OUT_LINES - 1 <=> RoomForLine
  <2>1. Len(Ring(out, out_write, out_read, OUT_LINES)) < OUT_LINES - 1
          <=> After(out_write, OUT_LINES) # out_read
    BY <1>2, RingIsFull, Zenon
  <2>2. NextOut(out_write) = After(out_write, OUT_LINES)
    BY <1>2, CodeIndices DEF OutputTypes
  <2> QED BY <1>1, <2>1, <2>2 DEF RoomForLine
<1>4. printed' = ~printed /\ out_read' = out_read BY DEF WriteLine
<1>5. CASE RoomForLine
  <2>1. PICK v : v = <<resp.n, resp.next>> OBVIOUS
  <2>2. v \in Nat \X Nat
    <3>1. resp.n \in Nat /\ resp.next \in Nat BY <1>2 DEF OutputTypes
    <3> QED BY <2>1, <3>1
  <2>3. /\ out' = [out EXCEPT ![out_write] = v]
        /\ out_write' = After(out_write, OUT_LINES) /\ out_write' # out_read
    BY <1>2, <1>5, <2>1, CodeIndices DEF WriteLine, RoomForLine, OutputTypes
  <2>4. Put(out', out, out_write, out_write', v, OUT_LINES) BY <2>3 DEF Put
  <2>5. Extends(Ring(out', out_write', out_read, OUT_LINES),
                Ring(out, out_write, out_read, OUT_LINES))
    BY <1>2, <2>2, <2>3, <2>4, RingPush, Zenon
  <2>6. Output!Accept BY <1>1, <1>4, <2>5 DEF Output!Accept, Extends
  <2> QED BY <1>3, <1>4, <1>5, <2>6 DEF Output!Offer
<1>6. CASE ~RoomForLine
  <2>1. OutQueue' = OutQueue BY <1>4, <1>6, QueuesStay DEF WriteLine, ring_o
  <2> QED BY <1>3, <1>4, <1>6, <2>1 DEF Output!Offer
<1> QED BY <1>5, <1>6

(* The first line is drained.                                                *)
LEMMA DrainIsTake ==
    ASSUME IInv, IInv', DrainLine
    PROVE  Output!Take
<1>1. /\ OutQueue = Ring(out, out_write, out_read, OUT_LINES)
      /\ OutQueue' = Ring(out', out_write', out_read', OUT_LINES)
  BY QueuesAreRings
<1>2. OutputTypes /\ IsRing(out, out_write, out_read, OUT_LINES, Nat \X Nat)
  BY RingsAreRings DEF IInv, OutputInv
<1>3. OutQueue # << >>
  <2>1. Ring(out, out_write, out_read, OUT_LINES) = << >> <=> out_write = out_read
    BY <1>2, RingIsQueue
  <2>2. out_read # out_write BY DEF DrainLine, ToDrain
  <2> QED BY <1>1, <2>1, <2>2
<1>4. /\ out' = [out EXCEPT ![out_read] = NoLine] /\ NoLine \in Nat \X Nat
      /\ out_read' = After(out_read, OUT_LINES) /\ out_write' = out_write
      /\ out_write # out_read
  BY <1>2, CodeIndices DEF DrainLine, ToDrain, OutputTypes, NoLine
<1>5. IsRest(Ring(out', out_write, out_read', OUT_LINES),
             Ring(out, out_write, out_read, OUT_LINES))
  <2>1. Put(out', out, out_read, out_read', NoLine, OUT_LINES) BY <1>4 DEF Put
  <2> QED BY <1>2, <1>4, <2>1, RingPop, Zenon
<1>6. printed' = printed BY DEF DrainLine
<1> QED BY <1>1, <1>3, <1>4, <1>5, <1>6 DEF Output!Take, IsRest

(* An empty ring is an empty queue.                                          *)
LEMMA EmptyQueues ==
    ASSUME IInv
    PROVE  /\ cmd_write = cmd_read => CmdQueue = << >>
           /\ out_write = out_read => OutQueue = << >>
<1>1. /\ IsRing(cmd, cmd_write, cmd_read, CMD_LINES, Seq(Typed))
      /\ IsRing(out, out_write, out_read, OUT_LINES, Nat \X Nat)
      /\ InputTypes /\ OutputTypes
  BY RingsAreRings DEF IInv, InputInv, OutputInv
<1>2. CmdQueue = Ring(cmd, cmd_write, cmd_read, CMD_LINES)
  BY <1>1, CmdQueueIsRing DEF InputTypes
<1>3. OutQueue = Ring(out, out_write, out_read, OUT_LINES)
  BY <1>1, OutQueueIsRing DEF OutputTypes
<1>4. Ring(cmd, cmd_write, cmd_read, CMD_LINES) = << >> <=> cmd_write = cmd_read
  BY <1>1, RingIsQueue
<1>5. Ring(out, out_write, out_read, OUT_LINES) = << >> <=> out_write = out_read
  BY <1>1, RingIsQueue
<1> QED BY <1>2, <1>3, <1>4, <1>5

(* The boot loader empties both rings.                                       *)
LEMMA UpdateForgets ==
    ASSUME IInv, IInv', Update
    PROVE  Commands!Forget /\ Output!Forget
<1>1. /\ CmdQueue' = Ring(cmd', cmd_write', cmd_read', CMD_LINES)
      /\ OutQueue' = Ring(out', out_write', out_read', OUT_LINES)
  BY QueuesAreRings
<1>2. InputTypes' /\ OutputTypes' BY DEF IInv, InputInv, OutputInv
<1>3. /\ IsRing(cmd', cmd_write', cmd_read', CMD_LINES, Seq(Typed))
      /\ IsRing(out', out_write', out_read', OUT_LINES, Nat \X Nat)
  BY <1>2, Sizes DEF InputTypes, OutputTypes, IsRing
<1>4. Ring(cmd', cmd_write', cmd_read', CMD_LINES) = << >> <=> cmd_write' = cmd_read'
  BY <1>3, RingIsQueue
<1>5. Ring(out', out_write', out_read', OUT_LINES) = << >> <=> out_write' = out_read'
  BY <1>3, RingIsQueue
<1>6. /\ cmd_write' = cmd_read' /\ out_write' = out_read'
      /\ pushed' = FALSE /\ printed' = FALSE
  BY DEF Update
<1> QED BY <1>1, <1>4, <1>5, <1>6 DEF Commands!Forget, Output!Forget

(* The command ring hands out the lines in the order in which they were       *)
(* completed, and refuses one only when CMD_LINES - 1 wait.                 *)
THEOREM CommandsKeepOrder == Spec => Commands!QueueSafety
<1>1. Init => Commands!QueueInit
  <2> SUFFICES ASSUME Init PROVE Commands!QueueInit OBVIOUS
  <2>1. cmd_write = cmd_read /\ pushed = FALSE BY DEF Init
  <2> QED BY <2>1, InitiallyEmpty, EmptyQueues DEF Commands!QueueInit
<1>2. IInv /\ IInv' /\ [Next]_vars => [Commands!QueueNext]_(Commands!qvars)
  <2> SUFFICES ASSUME IInv, IInv', [Next]_vars
               PROVE  Commands!QueueNext \/ UNCHANGED <<ring_c, pushed>>
    BY QueuesStay DEF Commands!qvars
  <2>1. CASE ReadChar
    <3>1. cmd_read' = cmd_read BY <2>1 DEF ReadChar
    <3>2. PushCmd \/ UNCHANGED <<cmd, cmd_write, pushed>> BY <2>1 DEF ReadChar
    <3> QED BY <3>1, <3>2, PushIsOffer DEF Commands!QueueNext, ring_c
  <2>2. CASE Dispatch
    BY <2>2, DispatchCases, ExecuteIsTake, UpdateForgets DEF Commands!QueueNext
  <2>3. CASE ~ReadChar /\ ~Dispatch
    BY <2>3 DEF Next, Host, Core0, Open, HangUp, Type, Fetch, Task, DrainLine,
         DrainEnd, ReadEnd, NoCommand, WriteLine, Done, PowerCycle, vars, hist
  <2> QED BY <2>1, <2>2, <2>3
<1> QED BY <1>1, <1>2, InitiallyEmpty, StaysInOrder, PTL
      DEF Spec, Commands!QueueSafety

(* So does the output ring with the lines of responses.                      *)
THEOREM OutputKeepsOrder == Spec => Output!QueueSafety
<1>1. Init => Output!QueueInit
  <2> SUFFICES ASSUME Init PROVE Output!QueueInit OBVIOUS
  <2>1. out_write = out_read /\ printed = FALSE BY DEF Init
  <2> QED BY <2>1, InitiallyEmpty, EmptyQueues DEF Output!QueueInit
<1>2. IInv /\ IInv' /\ [Next]_vars => [Output!QueueNext]_(Output!qvars)
  <2> SUFFICES ASSUME IInv, IInv', [Next]_vars
               PROVE  Output!QueueNext \/ UNCHANGED <<ring_o, printed>>
    BY QueuesStay DEF Output!qvars
  <2>1. CASE WriteLine BY <2>1, WriteIsOffer DEF Output!QueueNext
  <2>2. CASE DrainLine BY <2>2, DrainIsTake DEF Output!QueueNext
  <2>3. CASE Dispatch
    <3>1. CASE Execute BY <3>1 DEF Execute, ring_o
    <3>2. CASE Update BY <3>2, UpdateForgets DEF Output!QueueNext
    <3> QED BY <2>3, <3>1, <3>2, DispatchCases
  <2>4. CASE ~WriteLine /\ ~DrainLine /\ ~Dispatch
    BY <2>4 DEF Next, Host, Core0, Open, HangUp, Type, Fetch, Task, DrainEnd,
         ReadChar, ReadEnd, NoCommand, Done, PowerCycle, vars, hist
  <2> QED BY <2>1, <2>2, <2>3, <2>4
<1> QED BY <1>1, <1>2, InitiallyEmpty, StaysInOrder, PTL
      DEF Spec, Output!QueueSafety

=============================================================================
