------------------------- MODULE CaptureRingProofs -------------------------
(***************************************************************************)
(* Proofs about CaptureRing for every ring length and every bound.          *)
(*                                                                          *)
(* Accounts needs no assumption on the cadence of Core 1: the running total *)
(* is congruent to the number of words written, so it never passes it, and  *)
(* the guard has nothing to compare.  Delivery adds the cadence: at most    *)
(* MaxLag < RingLen words wait to be read, so each of them is still in its  *)
(* slot and the total is not just congruent to the words written but equal. *)
(***************************************************************************)
EXTENDS CaptureRing, SequenceTheorems, TLAPS

Accounts ==
    /\ waddr = SlotOf(written)
    /\ waddr_prev = SlotOf(waddr_total)
    /\ waddr_total <= written
    /\ pc = "loop" => rd_cursor = waddr_total
    /\ pc = "drain" => rd <= total /\ total = waddr_total
    /\ arming = 0 => ~active /\ pc = "loop"
    /\ disc = 0

BaseInv == TypeOK /\ Accounts

(* Core 1 is, or may still be, reading words of this arming.                *)
Unread == active \/ pc = "drain"

Delivery ==
    /\ Len(fed) = Oldest
    /\ pc = "drain" /\ ~active => ~armed
    /\ Unread => written - Oldest <= MaxLag
    /\ Unread => \A k \in Oldest .. written - 1 : ring[SlotOf(k)] = Word(k)

IInv == BaseInv /\ Delivery /\ FedInOrder

(***************************************************************************)
(* The remainder modulo a positive number, for rings indexed by a running   *)
(* count.  Times and Rem name the product and the remainder, so that a proof *)
(* uses the few facts it needs about them and stays linear.                 *)
(***************************************************************************)

Times(n, q) == n * q
Rem(x, n)   == x % n

(* The product of integers is an integer.                                   *)
LEMMA ProductType ==
    ASSUME NEW n \in Nat, NEW p \in Int PROVE Times(n, p) \in Int
BY DEF Times

(* Products with the same factor add and subtract; a positive multiple of   *)
(* n is at least n.                                                         *)
LEMMA Products ==
    ASSUME NEW n \in Nat, n > 0, NEW p \in Int, NEW q \in Int
    PROVE  /\ Times(n, p) + Times(n, q) = Times(n, p + q)
           /\ Times(n, p) - Times(n, q) = Times(n, p - q)
           /\ p >= 1 => Times(n, p) >= n
           /\ p <= -1 => Times(n, p) <= -n
           /\ p = 0 => Times(n, p) = 0
<1>1. n * p + n * q = n * (p + q) OBVIOUS
<1>2. n * p - n * q = n * (p - q) OBVIOUS
<1>3. p >= 1 => n * p >= n OBVIOUS
<1>4. p <= -1 => n * p <= -n OBVIOUS
<1> QED BY <1>1, <1>2, <1>3, <1>4 DEF Times

(* A number is a multiple of n plus its remainder.                          *)
LEMMA Division ==
    ASSUME NEW n \in Nat, n > 0, NEW x \in Int
    PROVE  /\ Rem(x, n) \in 0 .. n - 1
           /\ \E q \in Int : x = Times(n, q) + Rem(x, n)
<1>1. x = n * (x \div n) + (x % n)
  OBVIOUS
<1>2. x \div n \in Int /\ x % n \in 0 .. n - 1
  OBVIOUS
<1> QED BY <1>1, <1>2 DEF Times, Rem

(* What is left when a multiple is taken away is the remainder, if small.   *)
LEMMA Remainder ==
    ASSUME NEW n \in Nat, n > 0, NEW q \in Int, NEW x \in Int,
           x - Times(n, q) \in 0 .. n - 1
    PROVE  Rem(x, n) = x - Times(n, q)
<1>1. PICK p \in Int : x = Times(n, p) + Rem(x, n) BY Division
<1>2. Rem(x, n) \in 0 .. n - 1 BY Division
<1>3. PICK k \in Int : k = p - q OBVIOUS
<1>4. /\ Times(n, p) - Times(n, q) = Times(n, k)
      /\ Times(n, p) \in Int /\ Times(n, q) \in Int /\ Times(n, k) \in Int
  <2>1. Times(n, p) - Times(n, q) = Times(n, p - q) BY Products
  <2>2. Times(n, p) \in Int /\ Times(n, q) \in Int /\ Times(n, k) \in Int
    BY ProductType
  <2> QED BY <1>3, <2>1, <2>2
<1>5. k \in Int /\ (k >= 1 \/ k <= -1 \/ k = 0) BY <1>3
<1>6. /\ k >= 1 => Times(n, k) >= n
      /\ k <= -1 => Times(n, k) <= -n
      /\ k = 0 => Times(n, k) = 0
  BY <1>3, Products
<1> QED BY <1>1, <1>2, <1>4, <1>5, <1>6

(* A number below n is its own remainder.                                   *)
LEMMA SmallRemainder ==
    ASSUME NEW n \in Nat, n > 0, NEW x \in 0 .. n - 1
    PROVE  Rem(x, n) = x
<1>1. PICK q \in Int : q = 0 OBVIOUS
<1>2. Times(n, q) = 0 BY <1>1, Products
<1>3. x - Times(n, q) = x /\ x \in Int BY <1>2
<1> QED BY <1>3, Remainder

(* Numbers that differ by a multiple have the same remainder.               *)
LEMMA SameRemainder ==
    ASSUME NEW n \in Nat, n > 0, NEW w \in Int, NEW z \in Int,
           NEW q \in Int, z - w = Times(n, q)
    PROVE  Rem(w, n) = Rem(z, n)
<1>1. PICK p \in Int : w = Times(n, p) + Rem(w, n) BY Division
<1>2. Rem(w, n) \in 0 .. n - 1 BY Division
<1>3. PICK k \in Int : k = q + p OBVIOUS
<1>4. /\ Times(n, q) + Times(n, p) = Times(n, k)
      /\ Times(n, p) \in Int /\ Times(n, q) \in Int /\ Times(n, k) \in Int
  BY <1>3, Products, ProductType
<1>5. z - Times(n, k) = Rem(w, n)
  BY <1>1, <1>2, <1>4
<1>6. Rem(z, n) = z - Times(n, k) BY <1>2, <1>5, Remainder
<1> QED BY <1>5, <1>6

(* Adding to a reduced number is the same as adding to the number.          *)
LEMMA AddRemainder ==
    ASSUME NEW n \in Nat, n > 0, NEW x \in Int, NEW y \in Int
    PROVE  Rem(Rem(x, n) + y, n) = Rem(x + y, n)
<1>1. PICK q \in Int : x = Times(n, q) + Rem(x, n) BY Division
<1>2. Rem(x, n) \in Int /\ Times(n, q) \in Int BY Division, ProductType
<1>3. (x + y) - (Rem(x, n) + y) = Times(n, q) BY <1>1, <1>2
<1>4. x + y \in Int /\ Rem(x, n) + y \in Int BY <1>2
<1> QED BY <1>3, <1>4, SameRemainder

(* The distance between two ring positions is the difference of the counts  *)
(* modulo the ring: bd_dma_total's masked subtraction.                      *)
LEMMA SubtractRemainders ==
    ASSUME NEW n \in Nat, n > 0, NEW x \in Int, NEW y \in Int
    PROVE  Rem(Rem(x, n) - Rem(y, n), n) = Rem(x - y, n)
<1>1. PICK p \in Int : x = Times(n, p) + Rem(x, n) BY Division
<1>2. PICK q \in Int : y = Times(n, q) + Rem(y, n) BY Division
<1>3. /\ Rem(x, n) \in Int /\ Rem(y, n) \in Int
      /\ Times(n, p) \in Int /\ Times(n, q) \in Int
  <2>1. Rem(x, n) \in Int /\ Rem(y, n) \in Int BY Division
  <2>2. Times(n, p) \in Int /\ Times(n, q) \in Int BY ProductType
  <2> QED BY <2>1, <2>2
<1>4. PICK k \in Int : k = p - q OBVIOUS
<1>5. Times(n, p) - Times(n, q) = Times(n, k) BY <1>4, Products
<1>6. (x - y) - (Rem(x, n) - Rem(y, n)) = Times(n, k) BY <1>1, <1>2, <1>3, <1>5
<1>7. x - y \in Int /\ Rem(x, n) - Rem(y, n) \in Int BY <1>3
<1> QED BY <1>6, <1>7, SameRemainder

(* The remainder of a natural number is at most the number.                 *)
LEMMA RemainderAtMost ==
    ASSUME NEW n \in Nat, n > 0, NEW x \in Nat
    PROVE  Rem(x, n) <= x
<1>1. CASE x < n
  <2>1. x \in 0 .. n - 1 BY <1>1
  <2> QED BY <2>1, SmallRemainder
<1>2. CASE x >= n
  <2>1. Rem(x, n) \in 0 .. n - 1 BY Division
  <2> QED BY <2>1, <1>2
<1> QED BY <1>1, <1>2

(* Two counts less than a ring apart are in different slots.                *)
LEMMA DistinctSlots ==
    ASSUME NEW n \in Nat, n > 0, NEW x \in Int, NEW y \in Int,
           x < y, y < x + n
    PROVE  Rem(x, n) # Rem(y, n)
<1> SUFFICES ASSUME Rem(x, n) = Rem(y, n) PROVE FALSE OBVIOUS
<1>1. PICK q \in Int : x = Times(n, q) + Rem(x, n) BY Division
<1>2. PICK p \in Int : y = Times(n, p) + Rem(y, n) BY Division
<1>3. Rem(x, n) \in Int /\ Times(n, p) \in Int /\ Times(n, q) \in Int
  <2>1. Rem(x, n) \in Int BY Division
  <2>2. Times(n, p) \in Int /\ Times(n, q) \in Int BY ProductType
  <2> QED BY <2>1, <2>2
<1>4. PICK k \in Int : k = p - q OBVIOUS
<1>5. y - x = Times(n, k)
  <2>1. Times(n, p) - Times(n, q) = Times(n, k) BY <1>4, Products
  <2> QED BY <1>1, <1>2, <1>3, <2>1
<1>6. k >= 1 \/ k <= -1 \/ k = 0 OBVIOUS
<1>7. /\ k >= 1 => Times(n, k) >= n
      /\ k <= -1 => Times(n, k) <= -n
      /\ k = 0 => Times(n, k) = 0
  BY Products
<1> QED BY <1>5, <1>6, <1>7

-----------------------------------------------------------------------------
(* What the assumptions of CaptureRing say of its parameters.               *)
LEMMA Parameters ==
    /\ RingLen \in Nat /\ RingLen > 0
    /\ MaxEntries \in Nat /\ MaxArmings \in Nat /\ MaxLag \in Nat
    /\ CounterMod \in Nat /\ CounterMod > MaxEntries + RingLen
BY RingLenAssumption, MaxEntriesAssumption, MaxArmingsAssumption,
   MaxLagAssumption, CounterAssumption

USE Parameters

(***************************************************************************)
(* Arithmetic of bd_dma_total.                                              *)
(***************************************************************************)

(* What the proofs need to know about the mask and about uint32_t counters. *)
LEMMA Masks ==
    ASSUME NEW x \in Int, NEW y \in Int
    PROVE  /\ SlotOf(x) \in Slots
           /\ SlotOf(x) \in Int
           /\ SlotOf(SlotOf(x) + y) = SlotOf(x + y)
           /\ SlotOf(SlotOf(x) - SlotOf(y)) = SlotOf(x - y)
           /\ x \in Slots => SlotOf(x) = x
           /\ x \in Nat => SlotOf(x) <= x
           /\ x < y /\ y < x + RingLen => SlotOf(x) # SlotOf(y)
<1>1. \A z \in Int : SlotOf(z) = Rem(z, RingLen)
  BY DEF SlotOf, Rem
<1>2. SlotOf(x) \in Slots /\ SlotOf(y) \in Slots
  BY <1>1, Division DEF Slots
<1>3. SlotOf(x) \in Int /\ SlotOf(y) \in Int
  BY <1>2 DEF Slots
<1>4. SlotOf(SlotOf(x) + y) = SlotOf(x + y)
  <2>1. Rem(Rem(x, RingLen) + y, RingLen) = Rem(x + y, RingLen)
    BY AddRemainder
  <2>2. Rem(x, RingLen) = SlotOf(x) /\ SlotOf(x) + y \in Int /\ x + y \in Int
    BY <1>1, <1>3
  <2> QED BY <1>1, <2>1, <2>2
<1>5. SlotOf(SlotOf(x) - SlotOf(y)) = SlotOf(x - y)
  <2>1. Rem(Rem(x, RingLen) - Rem(y, RingLen), RingLen) = Rem(x - y, RingLen)
    BY SubtractRemainders
  <2>2. /\ Rem(x, RingLen) = SlotOf(x) /\ Rem(y, RingLen) = SlotOf(y)
        /\ SlotOf(x) - SlotOf(y) \in Int /\ x - y \in Int
    BY <1>1, <1>3
  <2> QED BY <1>1, <2>1, <2>2
<1>6. x \in Slots => SlotOf(x) = x
  BY <1>1, SmallRemainder DEF Slots
<1>7. x \in Nat => SlotOf(x) <= x
  BY <1>1, RemainderAtMost
<1>8. x < y /\ y < x + RingLen => SlotOf(x) # SlotOf(y)
  BY <1>1, DistinctSlots
<1> QED BY <1>2, <1>3, <1>4, <1>5, <1>6, <1>7, <1>8

(* A count that has not reached CounterMod is its own uint32_t.             *)
LEMMA NoWrap == ASSUME NEW x \in 0 .. CounterMod - 1 PROVE Wrap32(x) = x
<1>1. CounterMod > 0 OBVIOUS
<1> QED BY <1>1, SmallRemainder DEF Wrap32, Rem

(* bd_dma_total advances by the unread words modulo the ring: it never      *)
(* passes the words written, and reaches them if less than a ring is unread. *)
LEMMA DmaTotalValue ==
    ASSUME BaseInv
    PROVE  /\ DmaTotal \in waddr_total .. written
           /\ DmaTotal - waddr_total \in 0 .. RingLen - 1
           /\ SlotOf(DmaTotal) = waddr
           /\ written - waddr_total < RingLen => DmaTotal = written
<1>1. /\ waddr_total \in Nat /\ written \in 0 .. MaxEntries
      /\ waddr_total <= written
  BY DEF BaseInv, Accounts, TypeOK
<1>2. PICK lag \in Nat : lag = written - waddr_total
  BY <1>1
<1>3. Delta = SlotOf(lag)
  BY <1>1, <1>2, Masks DEF BaseInv, Accounts, Delta
<1>4. Delta \in 0 .. RingLen - 1 /\ Delta <= lag
  BY <1>3, Masks DEF Slots
<1>5. DmaTotal = waddr_total + Delta
  <2>1. waddr_total + Delta \in 0 .. CounterMod - 1
    BY <1>1, <1>2, <1>4
  <2> QED BY <2>1, NoWrap DEF DmaTotal
<1>6. SlotOf(waddr_total + Delta) = waddr
  <2>1. SlotOf(SlotOf(lag) + waddr_total) = SlotOf(lag + waddr_total)
    BY <1>1, Masks
  <2>2. lag + waddr_total = written /\ SlotOf(lag) + waddr_total = waddr_total + Delta
    BY <1>1, <1>2, <1>3, <1>4
  <2> QED BY <2>1, <2>2 DEF BaseInv, Accounts
<1>7. lag < RingLen => Delta = lag
  BY <1>3, Masks DEF Slots
<1> QED BY <1>1, <1>2, <1>4, <1>5, <1>6, <1>7

(* The comparison of the overrun guard is never true.                       *)
LEMMA NothingToSkip ==
    ASSUME BaseInv, pc = "loop"
    PROVE  ~Overrun(Wrap32(DmaTotal - rd_cursor))
<1>1. DmaTotal - waddr_total \in 0 .. RingLen - 1 /\ rd_cursor = waddr_total
  BY DmaTotalValue DEF BaseInv, Accounts
<1>2. Wrap32(DmaTotal - rd_cursor) = DmaTotal - rd_cursor
  BY <1>1, NoWrap
<1> QED BY <1>1, <1>2 DEF Overrun

(***************************************************************************)
(* The accounts, whatever the cadence.                                      *)
(***************************************************************************)
LEMMA BaseInit == Init => BaseInv
<1> SUFFICES ASSUME Init PROVE BaseInv OBVIOUS
<1>1. SlotOf(0) = 0
  BY Masks DEF Slots
<1>2. ring \in [Slots -> Nat \X Nat]
  BY DEF Init, NoWord
<1>3. << >> \in Seq(Nat \X Nat) OBVIOUS
<1>4. TypeOK
  <2>1. 0 \in Slots /\ 0 \in 0 .. CounterMod - 1
    BY DEF Slots
  <2>2. 0 \in 0 .. MaxArmings /\ 0 \in 0 .. MaxEntries
    OBVIOUS
  <2> QED BY <1>2, <1>3, <2>1, <2>2 DEF Init, TypeOK
<1>5. Accounts
  BY <1>1 DEF Init, Accounts
<1> QED BY <1>4, <1>5 DEF BaseInv

(* Arming, from whichever Core 0 operation, clears the accounts.            *)
LEMMA ArmAndClearKeepsBase ==
    ASSUME BaseInv, ArmAndClear, active' \in BOOLEAN, pc = "loop"
    PROVE  BaseInv'
<1>1. SlotOf(0) = 0
  BY Masks DEF Slots
<1>2. << >> \in Seq(Nat \X Nat) OBVIOUS
<1>3. arming \in 0 .. MaxArmings /\ arming < MaxArmings
  BY DEF BaseInv, TypeOK, ArmAndClear
<1>4. TypeOK'
  BY <1>2, <1>3 DEF BaseInv, TypeOK, ArmAndClear, drainer, Slots
<1>5. Accounts'
  BY <1>1, <1>3 DEF BaseInv, Accounts, ArmAndClear, drainer
<1> QED BY <1>4, <1>5 DEF BaseInv

(* Every step keeps the types and the accounts of the write address.        *)
LEMMA BaseStep == BaseInv /\ [Next]_vars => BaseInv'
<1> SUFFICES ASSUME BaseInv, [Next]_vars PROVE BaseInv' OBVIOUS
<1> USE DEF BaseInv
<1>1. CASE BusCycle
  <2>1. NextSlot = SlotOf(written + 1) /\ NextSlot \in Slots
    <3>1. waddr = SlotOf(written) /\ written \in Int
      BY DEF TypeOK, Accounts
    <3>2. SlotOf(SlotOf(written) + 1) = SlotOf(written + 1) /\ SlotOf(written + 1) \in Slots
      <4>1. written + 1 \in Int /\ 1 \in Int BY <3>1
      <4>2. SlotOf(SlotOf(written) + 1) = SlotOf(written + 1) BY <3>1, <4>1, Masks
      <4>3. SlotOf(written + 1) \in Slots BY <4>1, Masks
      <4> QED BY <4>2, <4>3
    <3> QED BY <3>1, <3>2 DEF NextSlot
  <2>2. ring' \in [Slots -> Nat \X Nat]
    <3>1. Word(written) \in Nat \X Nat
      BY DEF Word, TypeOK
    <3> QED BY <1>1, <3>1 DEF BusCycle, TypeOK
  <2>3. TypeOK'
    BY <1>1, <2>1, <2>2 DEF BusCycle, TypeOK, cursors, drainer
  <2>4. Accounts'
    BY <1>1, <2>1 DEF BusCycle, TypeOK, Accounts, cursors, drainer
  <2> QED BY <2>3, <2>4
<1>2. CASE BootCaptureInit
  BY <1>2, ArmAndClearKeepsBase DEF BootCaptureInit, Accounts, TypeOK
<1>3. CASE PassBegin
  BY <1>3, ArmAndClearKeepsBase DEF PassBegin
<1>4. CASE EndWindow
  BY <1>4 DEF EndWindow, TypeOK, Accounts, cursors, drainer
<1>5. CASE BeginDrain
  <2>1. /\ DmaTotal \in waddr_total .. written
        /\ SlotOf(DmaTotal) = waddr
    BY DmaTotalValue
  <2>2. DmaTotal \in 0 .. CounterMod - 1
    BY <2>1 DEF TypeOK
  <2>3. rd' = rd_cursor /\ disc' = disc
    BY <1>5, NothingToSkip DEF BeginDrain
  <2>4. TypeOK'
    BY <1>5, <2>2, <2>3 DEF BeginDrain, TypeOK, hwvars
  <2>5. Accounts'
    BY <1>5, <2>1, <2>2, <2>3 DEF BeginDrain, TypeOK, Accounts, hwvars
  <2> QED BY <2>4, <2>5
<1>6. CASE FeedOne
  <2>1. rd + 1 \in 0 .. CounterMod - 1 /\ rd < total
    BY <1>6 DEF FeedOne, TypeOK, Accounts
  <2>2. rd' = rd + 1
    BY <1>6, <2>1, NoWrap DEF FeedOne
  <2>3. ring[SlotOf(rd)] \in Nat \X Nat
    BY Masks DEF TypeOK
  <2>4. fed' \in Seq(Nat \X Nat)
    BY <1>6, <2>3 DEF FeedOne, TypeOK
  <2>5. TypeOK'
    BY <1>6, <2>1, <2>2, <2>4 DEF FeedOne, TypeOK, hwvars, cursors
  <2>6. Accounts'
    BY <1>6, <2>1, <2>2 DEF FeedOne, TypeOK, Accounts, hwvars, cursors
  <2> QED BY <2>5, <2>6
<1>7. CASE FinishDrain
  BY <1>7 DEF FinishDrain, TypeOK, Accounts, hwvars
<1>8. CASE UNCHANGED vars
  BY <1>8 DEF TypeOK, Accounts, vars, hwvars, cursors, drainer
<1> QED
  BY <1>1, <1>2, <1>3, <1>4, <1>5, <1>6, <1>7, <1>8 DEF Next, Core1

(* The variables of the ring keep their types.                              *)
THEOREM TypeCorrect == Spec => []TypeOK
<1>1. BaseInv => TypeOK BY DEF BaseInv
<1> QED BY <1>1, BaseInit, BaseStep, PTL DEF Spec

(* The overrun guard of drain_ring never fires, with any cadence: it counts *)
(* no loss, and no loss is a reason to trust that none happened.            *)
THEOREM GuardIsDead == Spec => []GuardNeverFires
<1>1. BaseInv => GuardNeverFires BY DEF BaseInv, Accounts, GuardNeverFires
<1> QED BY <1>1, BaseInit, BaseStep, PTL DEF Spec

(***************************************************************************)
(* Delivery, when Core 1 keeps its cadence.                                 *)
(***************************************************************************)
LEMMA DeliveryInit == Init => IInv
<1> SUFFICES ASSUME Init PROVE IInv OBVIOUS
<1>1. Len(fed) = 0 /\ ~active /\ pc = "loop" /\ rd_cursor = 0
  BY DEF Init
<1>2. Delivery
  BY <1>1 DEF Delivery, Oldest, Unread
<1>3. FedInOrder
  BY <1>1 DEF FedInOrder
<1> QED BY <1>2, <1>3, BaseInit DEF IInv

(* A word that is fed is the next word of this arming: it is still in its   *)
(* slot.                                                                    *)
LEMMA FeedsTheNextWord ==
    ASSUME IInv, FeedOne
    PROVE  /\ Len(fed) = rd /\ rd < total /\ total <= written
           /\ fed' = Append(fed, Word(Len(fed)))
           /\ rd' = rd + 1
<1>1. rd \in Nat /\ total \in 0 .. CounterMod - 1 /\ written \in Nat
  BY DEF IInv, BaseInv, TypeOK
<1>2. pc = "drain" /\ rd < total /\ total <= written /\ Len(fed) = rd
  BY <1>1 DEF FeedOne, IInv, BaseInv, Accounts, Delivery, Oldest
<1>3. ring[SlotOf(rd)] = Word(rd)
  BY <1>1, <1>2 DEF IInv, Delivery, Oldest, Unread
<1>4. rd' = rd + 1
  <2>1. rd + 1 \in 0 .. CounterMod - 1 BY <1>1, <1>2
  <2> QED BY <2>1, NoWrap DEF FeedOne
<1> QED BY <1>2, <1>3, <1>4 DEF FeedOne

(* A word is stored where no unread word is.                                *)
LEMMA StoreSparesUnread ==
    ASSUME MaxLag < RingLen, IInv, BusCycle, Unread
    PROVE  /\ written' - Oldest' <= MaxLag
           /\ \A k \in Oldest' .. written' - 1 : (ring[SlotOf(k)])' = Word(k)'
<1>1. /\ written \in Nat /\ Oldest \in Nat /\ waddr = SlotOf(written)
      /\ waddr \in Slots /\ ring \in [Slots -> Nat \X Nat]
  BY DEF IInv, BaseInv, TypeOK, Accounts, Oldest
<1>2. active
  BY DEF IInv, Delivery, Unread, BusCycle
<1>3. written - Oldest < MaxLag /\ written' = written + 1 /\ arming' = arming
  BY <1>2 DEF BusCycle
<1>4. Oldest' = Oldest
  BY DEF BusCycle, Oldest, cursors, drainer
<1>5. ring' = [ring EXCEPT ![waddr] = Word(written)]
  BY DEF BusCycle
<1>6. ASSUME NEW k \in Oldest' .. written' - 1
      PROVE  ring'[SlotOf(k)] = Word(k)
  <2>1. k \in Int /\ k >= Oldest /\ k <= written
    BY <1>1, <1>3, <1>4
  <2>2. SlotOf(k) \in Slots
    BY <2>1, Masks
  <2>3. CASE k = written
    BY <2>3, <1>1, <1>5
  <2>4. CASE k < written
    <3>1. written < k + RingLen
      BY <2>1, <2>4, <1>1, <1>3
    <3>2. SlotOf(k) # waddr
      BY <2>1, <2>4, <3>1, <1>1, Masks
    <3>3. ring[SlotOf(k)] = Word(k)
      <4>1. k \in Oldest .. written - 1 BY <2>1, <2>4, <1>1
      <4> QED BY <4>1 DEF IInv, Delivery
    <3> QED BY <3>2, <3>3, <2>2, <1>1, <1>5
  <2> QED BY <2>1, <2>3, <2>4, <1>1
<1>7. \A k : Word(k)' = Word(k)
  BY <1>3 DEF Word
<1>8. SlotOf(0)' = SlotOf(0)
  BY DEF SlotOf
<1> QED BY <1>1, <1>3, <1>4, <1>6, <1>7 DEF SlotOf

(* While Core 1 is less than a ring behind, every step keeps the unread     *)
(* words in the ring and what was fed in order.                             *)
LEMMA DeliveryStep == MaxLag < RingLen /\ IInv /\ [Next]_vars => IInv'
<1> SUFFICES ASSUME MaxLag < RingLen, IInv, [Next]_vars
             PROVE  Delivery' /\ FedInOrder'
  BY BaseStep DEF IInv
<1>1. /\ written \in Nat /\ total \in Nat /\ rd \in Nat /\ rd_cursor \in Nat
      /\ fed \in Seq(Nat \X Nat) /\ waddr_total \in Nat
  BY DEF IInv, BaseInv, TypeOK
<1>2. CASE BusCycle
  <2>1. Len(fed)' = Oldest' /\ (pc = "drain" /\ ~active => ~armed)' /\ FedInOrder'
    BY <1>2 DEF BusCycle, IInv, Delivery, FedInOrder, Oldest, Word, cursors, drainer
  <2>2. Unread' = Unread
    BY <1>2 DEF BusCycle, Unread, drainer
  <2> QED BY <1>2, <2>1, <2>2, StoreSparesUnread DEF Delivery
<1>3. CASE ArmAndClear /\ pc = "loop"
  <2>1. /\ fed' = << >> /\ pc' = "loop" /\ rd_cursor' = 0 /\ written' = 0
    BY <1>3 DEF ArmAndClear, drainer
  <2>2. Len(fed') = 0 /\ Oldest' = 0
    BY <2>1 DEF Oldest
  <2>3. Delivery'
    BY <2>1, <2>2 DEF Delivery
  <2>4. FedInOrder'
    BY <2>2 DEF FedInOrder
  <2> QED BY <2>3, <2>4
<1>4. CASE BootCaptureInit
  BY <1>3, <1>4 DEF BootCaptureInit, IInv, BaseInv, Accounts
<1>5. CASE PassBegin
  BY <1>3, <1>5 DEF PassBegin
<1>6. CASE EndWindow
  BY <1>6 DEF EndWindow, IInv, Delivery, FedInOrder, Oldest, Unread, Word,
              cursors, drainer
<1>7. CASE BeginDrain
  <2>1. rd' = rd_cursor /\ pc' = "drain" /\ pc = "loop" /\ active
    BY <1>7, NothingToSkip DEF BeginDrain, IInv
  <2>2. Oldest' = Oldest
    BY <2>1 DEF Oldest
  <2> QED
    BY <1>7, <2>1, <2>2 DEF BeginDrain, IInv, Delivery, FedInOrder, Unread, Word, hwvars
<1>8. CASE FeedOne
  <2>1. /\ Len(fed) = rd /\ rd < total /\ total <= written
        /\ fed' = Append(fed, Word(Len(fed))) /\ rd' = rd + 1
    BY <1>8, FeedsTheNextWord
  <2>2. pc = "drain" /\ pc' = "drain" /\ UNCHANGED <<hwvars, active>>
    BY <1>8 DEF FeedOne
  <2>3. Len(fed') = Len(fed) + 1
    BY <1>1, <2>1
  <2>4. Oldest' = Oldest + 1 /\ Oldest = rd
    BY <2>1, <2>2 DEF Oldest
  <2>5. Delivery'
    BY <1>1, <2>1, <2>2, <2>3, <2>4 DEF IInv, Delivery, Unread, Word, hwvars
  <2>6. FedInOrder'
    <3>1. arming' = arming
      BY <2>2 DEF hwvars
    <3>2. ASSUME NEW i \in 1 .. Len(fed')
          PROVE  fed'[i] = <<arming, i - 1>>
      <4>1. CASE i = Len(fed) + 1
        BY <1>1, <2>1, <4>1 DEF Word
      <4>2. CASE i \in 1 .. Len(fed)
        <5>1. fed[i] = <<arming, i - 1>>
          BY <4>2 DEF IInv, FedInOrder, Word
        <5> QED BY <1>1, <2>1, <4>2, <5>1
      <4> QED BY <1>1, <2>1, <2>3, <4>1, <4>2
    <3> QED BY <3>1, <3>2 DEF FedInOrder, Word
  <2> QED BY <2>5, <2>6
<1>9. CASE FinishDrain
  <2>1. rd_cursor' = rd /\ pc = "drain" /\ pc' = "loop" /\ Oldest' = Oldest
    BY <1>9 DEF FinishDrain, Oldest
  <2>2. UNCHANGED <<hwvars, active, fed>>
    BY <1>9 DEF FinishDrain
  <2> QED
    BY <2>1, <2>2 DEF IInv, Delivery, FedInOrder, Unread, Word, hwvars
<1>10. CASE UNCHANGED vars
  BY <1>10 DEF IInv, Delivery, FedInOrder, Oldest, Unread, Word, vars,
               hwvars, cursors, drainer
<1> QED
  BY <1>2, <1>4, <1>5, <1>6, <1>7, <1>8, <1>9, <1>10 DEF Next, Core1

(* While at most MaxLag < RingLen words wait to be read, the detector sees  *)
(* every captured word, once and in the order of the bus.                   *)
THEOREM DeliveryCorrect == ASSUME MaxLag < RingLen PROVE Spec => []FedInOrder
<1>1. IInv /\ [Next]_vars => IInv'
  BY DeliveryStep
<1>2. IInv => FedInOrder BY DEF IInv
<1> QED BY <1>1, <1>2, DeliveryInit, PTL DEF Spec

(* Then the ring is the stream of BusStream, step by step.                  *)
THEOREM RingIsAStream == ASSUME MaxLag < RingLen PROVE Spec => Stream!StreamSafety
<1>1. Init => Stream!StreamInit
  BY DEF Init, Stream!StreamInit
<1>2. IInv /\ [Next]_vars => [Stream!StreamNext]_(Stream!streamVars)
  <2> SUFFICES ASSUME IInv, [Next]_vars
               PROVE  Stream!StreamNext \/ UNCHANGED <<arming, active, written, fed>>
    BY DEF Stream!streamVars
  <2>1. CASE BusCycle
    BY <2>1 DEF BusCycle, Stream!StreamNext, Stream!Publish
  <2>2. CASE BootCaptureInit
    BY <2>2 DEF BootCaptureInit, ArmAndClear, Stream!StreamNext, Stream!Rearm,
                IInv, BaseInv, TypeOK
  <2>3. CASE PassBegin
    BY <2>3 DEF PassBegin, ArmAndClear, Stream!StreamNext, Stream!Rearm
  <2>4. CASE EndWindow
    BY <2>4 DEF EndWindow, Stream!StreamNext, Stream!Close
  <2>5. CASE BeginDrain
    BY <2>5 DEF BeginDrain, hwvars
  <2>6. CASE FeedOne
    <3>1. Len(fed) < written /\ fed' = Append(fed, Word(Len(fed)))
      <4>1. rd \in Nat /\ total \in Nat /\ written \in Nat
        BY DEF IInv, BaseInv, TypeOK
      <4> QED BY <2>6, <4>1, FeedsTheNextWord
    <3> QED BY <2>6, <3>1 DEF FeedOne, hwvars, Word, Stream!StreamNext, Stream!Deliver
  <2>7. CASE FinishDrain
    BY <2>7 DEF FinishDrain, hwvars
  <2>8. CASE UNCHANGED vars
    BY <2>8 DEF vars, hwvars
  <2> QED
    BY <2>1, <2>2, <2>3, <2>4, <2>5, <2>6, <2>7, <2>8 DEF Next, Core1
<1>3. IInv /\ [Next]_vars => IInv'
  BY DeliveryStep
<1> QED BY <1>1, <1>2, <1>3, DeliveryInit, PTL DEF Spec, Stream!StreamSafety
=============================================================================
