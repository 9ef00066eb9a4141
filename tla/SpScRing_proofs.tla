-------------------------- MODULE SpScRing_proofs --------------------------
(***************************************************************************)
(* For every ring size, every counter modulus the size divides, every set  *)
(* of messages and every number of posts: the ring delivers in order       *)
(* without loss, its unlocked slot accesses never race, and it implements  *)
(* the bounded FIFO MsgFifo.                                               *)
(***************************************************************************)
EXTENDS SpScRing, Integers, SequenceTheorems, TLAPS

-----------------------------------------------------------------------------
(* Remainders: a uint32_t counter that has been incremented n times holds n % W with    *)
(* W = 2^32, and a slot index is that value % the number of slots.                      *)

\* Euclidean division.
LEMMA DivMod ==
  ASSUME NEW n \in Nat, NEW m \in Nat \ {0}
  PROVE n % m \in 0 .. m-1 /\ n \div m \in Nat /\ n = m * (n \div m) + (n % m)
OBVIOUS

LEMMA ModRange ==
  ASSUME NEW n \in Nat, NEW m \in Nat \ {0}
  PROVE  n % m \in 0 .. m - 1
BY DivMod

\* The only multiple of m strictly between -m and m is 0.
LEMMA SmallMultiple ==
  ASSUME NEW q \in Int, NEW m \in Nat \ {0}, m * q < m, -m < m * q
  PROVE q = 0
<1>1. CASE q >= 1
  <2> m*q >= m BY <1>1
  <2> QED BY <1>1
<1>2. CASE q <= -1
  <2> m*q <= -m BY <1>2
  <2> QED BY <1>2
<1> QED BY <1>1, <1>2

\* The remainder is unique.
LEMMA ModUnique ==
  ASSUME NEW m \in Nat \ {0}, NEW n \in Nat, NEW q \in Int, NEW r \in 0..m-1, n = m*q + r
  PROVE n % m = r
<1>1. n % m \in 0..m-1 /\ n \div m \in Nat /\ n = m*(n \div m) + (n % m) BY DivMod
<1>3. m*((n \div m) - q) = m*(n \div m) - m*q BY <1>1
<1>2. m*((n \div m) - q) = r - (n % m) BY <1>1, <1>3
<1>4. (n \div m) - q = 0
  <2> DEFINE d == (n \div m) - q
  <2>1. d \in Int /\ m*d < m /\ -m < m*d BY <1>1, <1>2
  <2> HIDE DEF d
  <2>2. d = 0 BY <2>1, SmallMultiple
  <2> QED BY <2>2 DEF d
<1> QED BY <1>1, <1>4

\* Numbers that differ by a multiple of m have the same remainder.
LEMMA ModShift ==
  ASSUME NEW m \in Nat \ {0}, NEW a \in Nat, NEW b \in Nat, NEW q \in Int, a - b = m*q
  PROVE a % m = b % m
<1>1. b % m \in 0 .. m-1 /\ b \div m \in Nat /\ b = m*(b \div m) + (b % m) BY DivMod
<1>2. m*(q + (b \div m)) = m*q + m*(b \div m) BY <1>1
<1>3. a = m*(q + (b \div m)) + (b % m)
  <2>1. a = m*q + b BY <1>1
  <2> QED BY <1>1, <1>2, <2>1
<1>4. q + (b \div m) \in Int BY <1>1
<1> QED BY <1>1, <1>3, <1>4, ModUnique

\* Incrementing a wrapped counter is wrapping the incremented count.
LEMMA ModSucc ==
  ASSUME NEW m \in Nat \ {0}, NEW n \in Nat
  PROVE ((n % m) + 1) % m = (n + 1) % m
<1> DEFINE r == n % m
           q == n \div m
<1>1. r \in Nat /\ q \in Nat /\ n = m*q + r BY DivMod
<1> HIDE DEF r, q
<1>2. r + 1 \in Nat /\ n + 1 \in Nat /\ n + 1 = m*q + (r + 1) BY <1>1
<1>3. (n + 1) - (r + 1) = m*q /\ m*q \in Int /\ q \in Int BY <1>1, <1>2
<1>4. (n + 1) % m = (r + 1) % m BY <1>2, <1>3, ModShift
<1> QED BY <1>4 DEF r

\* The slot of a wrapped counter is the slot of the count, if the number of slots
\* divides the modulus.
LEMMA ModMod ==
  ASSUME NEW m \in Nat \ {0}, NEW w \in Nat \ {0}, NEW n \in Nat, w % m = 0
  PROVE (n % w) % m = n % m
<1> DEFINE p == w \div m
           q == n \div w
           r == n % w
<1>1. q \in Nat /\ r \in Nat /\ n = w*q + r BY DivMod
<1>2. p \in Nat /\ w = m*p BY DivMod
<1> HIDE DEF p, q, r
<1> DEFINE t == p*q
<1>3. t \in Nat /\ w*q = m*t
  <2>1. (m*p)*q = m*(p*q) BY <1>1, <1>2
  <2> QED BY <1>1, <1>2, <2>1
<1> HIDE DEF t
<1>4. r \in Nat /\ t \in Int /\ n - r = m*t BY <1>1, <1>3
<1>5. n % m = r % m BY <1>4, ModShift
<1> QED BY <1>5 DEF r

\* Two counts less than m apart are told apart by their remainders.
LEMMA ModInjective ==
  ASSUME NEW m \in Nat \ {0}, NEW a \in Nat, NEW b \in Nat, b - a < m, a - b < m, a % m = b % m
  PROVE a = b
<1>1. a % m \in 0 .. m-1 /\ a \div m \in Nat /\ a = m*(a \div m) + (a % m) BY DivMod
<1>2. b \div m \in Nat /\ b = m*(b \div m) + (b % m) BY DivMod
<1>3. m*((b \div m) - (a \div m)) = b - a BY <1>1, <1>2
<1> DEFINE d == (b \div m) - (a \div m)
<1>4. d \in Int /\ m*d < m /\ -m < m*d BY <1>1, <1>2, <1>3
<1> HIDE DEF d
<1>5. d = 0 BY <1>4, SmallMultiple
<1> QED BY <1>3, <1>5 DEF d

\* The unsigned difference of two wrapped counters is the difference of the counts,
\* wrapped if it is negative.
LEMMA ModDifference ==
  ASSUME NEW m \in Nat \ {0}, NEW n \in Nat, NEW k \in Nat, k - n \in -m .. m - 1
  PROVE  /\ k >= n => ((k % m) + (m - (n % m))) % m = k - n
         /\ k < n => ((k % m) + (m - (n % m))) % m = m + (k - n)
<1> DEFINE x  == n % m
           qx == n \div m
           y  == k % m
           qy == k \div m
           s  == y + (m - x)
<1>1. x \in 0 .. m-1 /\ qx \in Nat /\ n = m*qx + x BY DivMod
<1>2. y \in 0 .. m-1 /\ qy \in Nat /\ k = m*qy + y BY DivMod
<1> HIDE DEF x, qx, y, qy
<1>3. s \in Nat BY <1>1, <1>2
<1>4. m*(1 + qx - qy) = m + m*qx - m*qy /\ m*(qx - qy) = m*qx - m*qy BY <1>1, <1>2
<1>5. ASSUME k >= n PROVE s % m = k - n
  <2> DEFINE q == 1 + qx - qy
             r == k - n
  <2>1. q \in Int /\ r \in 0 .. m - 1 /\ s = m*q + r BY <1>1, <1>2, <1>4, <1>5
  <2> HIDE DEF s, q, r
  <2>2. s % m = r BY <1>3, <2>1, ModUnique
  <2> QED BY <2>2 DEF r
<1>6. ASSUME k < n PROVE s % m = m + (k - n)
  <2> DEFINE q == qx - qy
             r == m + (k - n)
  <2>1. q \in Int /\ r \in 0 .. m - 1 /\ s = m*q + r BY <1>1, <1>2, <1>4, <1>6
  <2> HIDE DEF s, q, r
  <2>2. s % m = r BY <1>3, <2>1, ModUnique
  <2> QED BY <2>2 DEF r
<1> QED BY <1>5, <1>6 DEF s, x, y
-----------------------------------------------------------------------------
(* What the unsigned arithmetic computes *)

\* With n messages accepted and k known to be taken, free_count is the number of slots
\* not in use.
LEMMA FreeCountIs ==
  ASSUME NEW n \in Nat, NEW k \in Nat, n - k \in 0 .. Size
  PROVE  FreeCount(n % W, k % W) = Size - (n - k)
<1> DEFINE x  == n % W
           qx == n \div W
           y  == k % W
           qy == k \div W
           q  == 1 + qx - qy
           r  == Size - (n - k)
           s  == Size + y + (W - x)
<1>. W \in Nat \ {0} /\ Size \in Nat /\ Size < W
  BY RingAssumption
<1>1. x \in 0 .. W - 1 /\ qx \in Nat /\ n = W*qx + x
  BY DivMod
<1>2. y \in 0 .. W - 1 /\ qy \in Nat /\ k = W*qy + y
  BY DivMod
<1> HIDE DEF x, qx, y, qy
<1>3. s \in Nat
  BY <1>1, <1>2
<1>4. W*(1 + qx - qy) = W + W*qx - W*qy
  BY <1>1, <1>2
<1>5. q \in Int /\ r \in 0 .. W - 1 /\ s = W*q + r
  BY <1>1, <1>2, <1>4
<1> HIDE DEF s, q, r
<1>6. s % W = r
  BY <1>3, <1>5, ModUnique
<1> QED BY <1>6 DEF FreeCount, s, r, x, y

\* avail_count is zero exactly when the consumer has taken every message it knows of.
LEMMA AvailCountIs ==
  ASSUME NEW n \in Nat, NEW k \in Nat, n - k \in 0 .. Size
  PROVE  (AvailCount(n % W, k % W) = 0) <=> (n = k)
<1>1. W \in Nat \ {0} /\ Size \in Nat /\ Size < W
  BY RingAssumption
<1>2. k - n \in -W .. W - 1
  BY <1>1
<1>3. /\ k >= n => AvailCount(n % W, k % W) = k - n
      /\ k < n => AvailCount(n % W, k % W) = W + (k - n)
  BY <1>1, <1>2, ModDifference DEF AvailCount
<1> QED BY <1>1, <1>3

\* A wrapped counter selects the slot of the count.
LEMMA SlotOfCount ==
  ASSUME NEW n \in Nat
  PROVE  SlotOf(n % W) = n % Size /\ n % Size \in Slot
<1>1. W \in Nat \ {0} /\ Size \in Nat \ {0} /\ W % Size = 0
  BY RingAssumption
<1>2. (n % W) % Size = n % Size
  BY <1>1, ModMod
<1>3. n % Size \in 0 .. Size - 1
  BY <1>1, DivMod
<1> QED BY <1>2, <1>3 DEF SlotOf, Slot

\* Counts less than Size apart have different slots.
LEMMA SlotsApart ==
  ASSUME NEW i \in Nat, NEW j \in Nat, i # j, i - j < Size, j - i < Size
  PROVE  i % Size # j % Size
BY RingAssumption, ModInjective
-----------------------------------------------------------------------------
(* What the two threads know *)

\* Room the producer sees is there, whatever the consumer has done since.
LEMMA RoomIsReal ==
  ASSUME TypeOK, Counters, LiveSlots, ProducerView, push.at = "check"
  PROVE  /\ PushHasRoom => Len(sent) - Len(rcvd) < Size
         /\ SlotOf(push.head) = Len(sent) % Size
         /\ Len(sent) % Size \in Slot
<1>1. Len(sent) \in Nat /\ Len(rcvd) \in Nat /\ Size \in Nat
  BY RingAssumption DEF TypeOK
<1>2. PICK k \in 0 .. Len(rcvd) : push.tail = k % W /\ Len(sent) - k \in 0 .. Size
  BY DEF ProducerView
<1>3. push.head = Len(sent) % W
  BY DEF ProducerView, Counters
<1>4. FreeCount(push.head, push.tail) = Size - (Len(sent) - k)
  BY <1>1, <1>2, <1>3, FreeCountIs
<1>5. PushHasRoom => Len(sent) - Len(rcvd) < Size
  BY <1>1, <1>2, <1>4 DEF PushHasRoom
<1>6. SlotOf(push.head) = Len(sent) % Size /\ Len(sent) % Size \in Slot
  BY <1>1, <1>3, SlotOfCount
<1> QED BY <1>5, <1>6

\* The message the consumer sees is there and is the next one to take.
LEMMA MessageIsReal ==
  ASSUME TypeOK, Counters, LiveSlots, ConsumerView, pop.at = "check"
  PROVE  /\ PopHasMsg => /\ Len(rcvd) < Len(sent)
                         /\ buf[SlotOf(pop.tail)] = sent[Len(rcvd) + 1]
         /\ SlotOf(pop.tail) = Len(rcvd) % Size
<1>1. Len(sent) \in Nat /\ Len(rcvd) \in Nat /\ Size \in Nat
  BY RingAssumption DEF TypeOK
<1>2. PICK k \in Len(rcvd) .. Len(sent) : pop.head = k % W
  BY DEF ConsumerView
<1>3. pop.tail = Len(rcvd) % W
  BY DEF ConsumerView, Counters
<1>4. k \in Nat /\ k - Len(rcvd) \in 0 .. Size
  BY <1>1, <1>2 DEF LiveSlots
<1>5. PopHasMsg <=> k # Len(rcvd)
  BY <1>1, <1>2, <1>3, <1>4, AvailCountIs DEF PopHasMsg
<1>6. SlotOf(pop.tail) = Len(rcvd) % Size
  BY <1>1, <1>3, SlotOfCount
<1>7. PopHasMsg => Len(rcvd) \in Len(rcvd) .. Len(sent) - 1
  BY <1>1, <1>2, <1>5
<1> QED BY <1>1, <1>6, <1>7 DEF LiveSlots
-----------------------------------------------------------------------------
(* The inductive invariant *)

LEMMA InitIInv == Init => IInv
<1> SUFFICES ASSUME Init PROVE IInv
  OBVIOUS
<1>1. Size \in Nat \ {0} /\ W \in Nat \ {0} /\ 0 % W = 0
  <2>1. Size \in Nat \ {0} /\ W \in Nat \ {0}
    BY RingAssumption
  <2>2. 0 = W * 0 + 0 /\ 0 \in 0 .. W - 1
    BY <2>1
  <2> QED BY <2>1, <2>2, ModUnique
<1>2. TypeOK
  BY <1>1 DEF Init, TypeOK, Counter, Slot, PushAt, PopAt
<1>3. Counters /\ LiveSlots /\ InOrder
  BY <1>1 DEF Init, Counters, LiveSlots, InOrder
<1>4. ProducerView /\ ConsumerView
  BY <1>1 DEF Init, ProducerView, ConsumerView
<1> QED BY <1>2, <1>3, <1>4 DEF IInv

LEMMA NextIInv == IInv /\ [Next]_vars => IInv'
<1> SUFFICES ASSUME IInv, [Next]_vars PROVE IInv'
  OBVIOUS
<1> USE DEF IInv
<1>0. /\ Len(sent) \in Nat /\ Len(rcvd) \in Nat
      /\ Size \in Nat \ {0} /\ W \in Nat \ {0}
      /\ 0 \in Counter
  BY RingAssumption DEF TypeOK, Counter
<1>1. ASSUME NEW v \in Values, PushCall(v) PROVE IInv'
  BY <1>0, <1>1 DEF PushCall, TypeOK, PushAt, Counters, LiveSlots, InOrder, ProducerView, ConsumerView
<1>2. CASE PushReadHead
  BY <1>0, <1>2 DEF PushReadHead, TypeOK, PushAt, Counters, LiveSlots, InOrder, ProducerView, ConsumerView
<1>3. CASE PushReadTail
  <2> USE <1>3 DEF PushReadTail
  <2>1. TypeOK'
    BY DEF TypeOK, PushAt
  <2>2. (Counters /\ LiveSlots /\ InOrder /\ ConsumerView)'
    BY DEF Counters, LiveSlots, InOrder, ConsumerView
  <2>3. ProducerView'
    <3>1. Len(rcvd) \in 0 .. Len(rcvd) /\ push'.tail = Len(rcvd) % W
      BY <1>0 DEF TypeOK, Counters
    <3>2. Len(sent) - Len(rcvd) \in 0 .. Size
      BY DEF LiveSlots
    <3> QED
      BY <3>1, <3>2 DEF TypeOK, ProducerView
  <2> QED BY <2>1, <2>2, <2>3
<1>4. CASE PushRefused
  BY <1>0, <1>4 DEF PushRefused, TypeOK, PushAt, Counters, LiveSlots, InOrder, ProducerView, ConsumerView
<1>5. CASE PushStoreSlot
  <2> USE <1>5 DEF PushStoreSlot
  <2>1. /\ Len(sent) - Len(rcvd) < Size
        /\ SlotOf(push.head) = Len(sent) % Size
        /\ Len(sent) % Size \in Slot
    BY RoomIsReal
  <2>2. TypeOK'
    BY <2>1 DEF TypeOK, PushAt
  <2>3. (Counters /\ InOrder /\ ConsumerView)'
    BY DEF Counters, InOrder, ConsumerView
  <2>4. LiveSlots'
    <3>1. ASSUME NEW i \in Len(rcvd) .. Len(sent) - 1
          PROVE  buf'[i % Size] = sent[i + 1]
      <4>1. i \in Nat /\ i # Len(sent) /\ i - Len(sent) < Size /\ Len(sent) - i < Size
        BY <1>0, <2>1, <3>1
      <4>2. i % Size # Len(sent) % Size /\ i % Size \in Slot
        BY <1>0, <4>1, SlotsApart, SlotOfCount
      <4>3. buf[i % Size] = sent[i + 1]
        BY <3>1 DEF LiveSlots
      <4> QED BY <2>1, <4>2, <4>3 DEF TypeOK
    <3> QED BY <3>1 DEF LiveSlots
  <2>5. ProducerView'
    BY <2>1 DEF ProducerView, TypeOK
  <2> QED BY <2>2, <2>3, <2>4, <2>5
<1>6. CASE PushPublish
  <2> USE <1>6 DEF PushPublish
  <2>1. /\ push.val \in Values /\ push.head = Len(sent) % W
        /\ Len(sent) - Len(rcvd) < Size /\ buf[Len(sent) % Size] = push.val
    BY DEF ProducerView, Counters
  <2>2. /\ sent' \in Seq(Values) /\ Len(sent') = Len(sent) + 1
        /\ sent'[Len(sent) + 1] = push.val
        /\ \A i \in 1 .. Len(sent) : sent'[i] = sent[i]
    BY <2>1 DEF TypeOK
  <2>3. head' = Len(sent') % W /\ head' \in Counter
    <3>1. head' = (Len(sent) + 1) % W
      BY <1>0, <2>1, ModSucc
    <3>2. Len(sent) + 1 \in Nat
      BY <1>0
    <3>3. (Len(sent) + 1) % W \in 0 .. W - 1
      BY <1>0, <3>2, ModRange
    <3> QED BY <2>2, <3>1, <3>3 DEF Counter
  <2>4. TypeOK'
    BY <2>2, <2>3 DEF TypeOK, PushAt
  <2>5. Counters'
    BY <2>3 DEF Counters
  <2>6. LiveSlots'
    <3>1. Len(sent') - Len(rcvd) \in 0 .. Size
      BY <1>0, <2>1, <2>2 DEF LiveSlots
    <3>2. ASSUME NEW i \in Len(rcvd) .. Len(sent') - 1
          PROVE  buf[i % Size] = sent'[i + 1]
      <4>1. CASE i = Len(sent)
        BY <2>1, <2>2, <4>1
      <4>2. CASE i # Len(sent)
        <5>1. i \in Len(rcvd) .. Len(sent) - 1 /\ i + 1 \in 1 .. Len(sent)
          BY <1>0, <2>2, <3>2, <4>2
        <5> QED BY <2>2, <5>1 DEF LiveSlots
      <4> QED BY <4>1, <4>2
    <3> QED BY <3>1, <3>2 DEF LiveSlots
  <2>7. InOrder'
    <3>1. Len(rcvd) <= Len(sent') /\ \A i \in 1 .. Len(rcvd) : i \in 1 .. Len(sent)
      BY <1>0, <2>2 DEF InOrder
    <3> QED BY <2>2, <3>1 DEF InOrder
  <2>8. ProducerView'
    BY DEF ProducerView, TypeOK
  <2>9. ConsumerView'
    <3>1. ASSUME pop.at = "check"
          PROVE  \E k \in Len(rcvd) .. Len(sent') : pop.head = k % W
      <4>1. PICK k \in Len(rcvd) .. Len(sent) : pop.head = k % W
        BY <3>1 DEF ConsumerView
      <4>2. k \in Len(rcvd) .. Len(sent')
        BY <1>0, <2>2
      <4> QED BY <4>1, <4>2
    <3>2. ASSUME pop.at = "retire"
          PROVE  Len(rcvd) < Len(sent') /\ pop.ret = sent'[Len(rcvd) + 1]
      <4>1. Len(rcvd) < Len(sent) /\ pop.ret = sent[Len(rcvd) + 1]
        BY <3>2 DEF ConsumerView
      <4>2. Len(rcvd) + 1 \in 1 .. Len(sent)
        BY <1>0, <4>1
      <4> QED BY <1>0, <2>2, <4>1, <4>2
    <3> QED BY <3>1, <3>2 DEF ConsumerView
  <2> QED BY <2>4, <2>5, <2>6, <2>7, <2>8, <2>9
<1>7. CASE PushReturn
  BY <1>0, <1>7 DEF PushReturn, TypeOK, PushAt, Counters, LiveSlots, InOrder, ProducerView, ConsumerView
<1>8. CASE PopCall
  BY <1>0, <1>8 DEF PopCall, TypeOK, PopAt, Counters, LiveSlots, InOrder, ProducerView, ConsumerView
<1>9. CASE PopReadTail
  BY <1>0, <1>9 DEF PopReadTail, TypeOK, PopAt, Counters, LiveSlots, InOrder, ProducerView, ConsumerView
<1>10. CASE PopReadHead
  <2> USE <1>10 DEF PopReadHead
  <2>1. TypeOK'
    BY DEF TypeOK, PopAt
  <2>2. (Counters /\ LiveSlots /\ InOrder /\ ProducerView)'
    BY DEF Counters, LiveSlots, InOrder, ProducerView
  <2>3. ConsumerView'
    <3>1. Len(sent) \in Len(rcvd) .. Len(sent) /\ pop'.head = Len(sent) % W
      BY <1>0 DEF TypeOK, Counters, LiveSlots
    <3> QED
      BY <3>1 DEF TypeOK, ConsumerView
  <2> QED BY <2>1, <2>2, <2>3
<1>11. CASE PopNothing
  BY <1>0, <1>11 DEF PopNothing, TypeOK, PopAt, Counters, LiveSlots, InOrder, ProducerView, ConsumerView
<1>12. CASE PopLoadSlot
  <2> USE <1>12 DEF PopLoadSlot
  <2>1. Len(rcvd) < Len(sent) /\ buf[SlotOf(pop.tail)] = sent[Len(rcvd) + 1]
    BY MessageIsReal
  <2>2. sent[Len(rcvd) + 1] \in Values
    BY <1>0, <2>1 DEF TypeOK
  <2>3. TypeOK'
    BY <2>1, <2>2 DEF TypeOK, PopAt
  <2>4. (Counters /\ LiveSlots /\ InOrder /\ ProducerView)'
    BY DEF Counters, LiveSlots, InOrder, ProducerView
  <2>5. ConsumerView'
    BY <2>1 DEF ConsumerView, TypeOK
  <2> QED BY <2>3, <2>4, <2>5
<1>13. CASE PopRetire
  <2> USE <1>13 DEF PopRetire
  <2>1. /\ pop.tail = Len(rcvd) % W
        /\ Len(rcvd) < Len(sent) /\ pop.ret = sent[Len(rcvd) + 1]
    BY DEF ConsumerView, Counters
  <2>2. /\ rcvd' \in Seq(Values \cup {NoMsg}) /\ Len(rcvd') = Len(rcvd) + 1
        /\ rcvd'[Len(rcvd) + 1] = pop.ret
        /\ \A i \in 1 .. Len(rcvd) : rcvd'[i] = rcvd[i]
    BY DEF TypeOK
  <2>3. tail' = Len(rcvd') % W /\ tail' \in Counter
    <3>1. tail' = (Len(rcvd) + 1) % W
      BY <1>0, <2>1, ModSucc
    <3>2. Len(rcvd) + 1 \in Nat
      BY <1>0
    <3>3. (Len(rcvd) + 1) % W \in 0 .. W - 1
      BY <1>0, <3>2, ModRange
    <3> QED BY <2>2, <3>1, <3>3 DEF Counter
  <2>4. TypeOK'
    BY <2>2, <2>3 DEF TypeOK, PopAt
  <2>5. Counters'
    BY <2>3 DEF Counters
  <2>6. LiveSlots'
    <3>1. Len(sent) - Len(rcvd') \in 0 .. Size
      BY <1>0, <2>1, <2>2 DEF LiveSlots
    <3>2. \A i \in Len(rcvd') .. Len(sent) - 1 : i \in Len(rcvd) .. Len(sent) - 1
      BY <1>0, <2>2
    <3> QED BY <3>1, <3>2 DEF LiveSlots
  <2>7. InOrder'
    <3>1. Len(rcvd') <= Len(sent)
      BY <1>0, <2>1, <2>2
    <3>2. ASSUME NEW i \in 1 .. Len(rcvd')
          PROVE  rcvd'[i] = sent[i]
      <4>1. CASE i = Len(rcvd) + 1
        BY <2>1, <2>2, <4>1
      <4>2. CASE i # Len(rcvd) + 1
        <5>1. i \in 1 .. Len(rcvd)
          BY <1>0, <2>2, <3>2, <4>2
        <5> QED BY <2>2, <5>1 DEF InOrder
      <4> QED BY <4>1, <4>2
    <3> QED BY <3>1, <3>2 DEF InOrder
  <2>8. ProducerView'
    <3>1. ASSUME push.at = "check"
          PROVE  \E k \in 0 .. Len(rcvd') : push.tail = k % W /\ Len(sent) - k \in 0 .. Size
      <4>1. PICK k \in 0 .. Len(rcvd) : push.tail = k % W /\ Len(sent) - k \in 0 .. Size
        BY <3>1 DEF ProducerView
      <4>2. k \in 0 .. Len(rcvd')
        BY <1>0, <2>2
      <4> QED BY <4>1, <4>2
    <3>2. ASSUME push.at = "publish"
          PROVE  Len(sent) - Len(rcvd') < Size
      BY <1>0, <2>2, <3>2 DEF ProducerView
    <3> QED BY <3>1, <3>2 DEF ProducerView
  <2>9. ConsumerView'
    BY DEF ConsumerView, TypeOK
  <2> QED BY <2>4, <2>5, <2>6, <2>7, <2>8, <2>9
<1>14. CASE PopReturn
  BY <1>0, <1>14 DEF PopReturn, TypeOK, PopAt, Counters, LiveSlots, InOrder, ProducerView, ConsumerView
<1>15. CASE UNCHANGED vars
  BY <1>15 DEF vars, TypeOK, Counters, LiveSlots, InOrder, ProducerView, ConsumerView
<1> QED
  BY <1>1, <1>2, <1>3, <1>4, <1>5, <1>6, <1>7, <1>8, <1>9, <1>10, <1>11, <1>12,
     <1>13, <1>14, <1>15 DEF Next, Producer, Consumer
-----------------------------------------------------------------------------
(* The theorems *)

\* The invariant that ties the wrapped counters, the two threads' stale copies of
\* them and the slots to the sequences of accepted and taken messages.
THEOREM RingInvariant == Spec => []IInv
<1>1. Init => IInv
  BY InitIInv
<1>2. IInv /\ [Next]_vars => IInv'
  BY NextIInv
<1> QED BY <1>1, <1>2, PTL DEF Spec

\* The ring's fields and the two calls' locals stay in range, the counters below
\* 2^32 in particular.
THEOREM RingTypeOK == Spec => []TypeOK
<1>1. IInv => TypeOK
  BY DEF IInv
<1> QED BY <1>1, RingInvariant, PTL

\* Messages are taken in the order they were accepted, each once, none lost.
THEOREM RingInOrder == Spec => []InOrder
<1>1. IInv => InOrder
  BY DEF IInv
<1> QED BY <1>1, RingInvariant, PTL

\* No unlocked store to a slot can meet an unlocked load of it.
THEOREM RingSlotExclusive == Spec => []SlotExclusive
<1>1. IInv => SlotExclusive
  <2> SUFFICES ASSUME IInv, push.at = "check", PushHasRoom, pop.at = "check", PopHasMsg
               PROVE  SlotOf(push.head) # SlotOf(pop.tail)
    BY DEF SlotExclusive
  <2>1. Len(sent) - Len(rcvd) < Size /\ SlotOf(push.head) = Len(sent) % Size
    BY RoomIsReal DEF IInv
  <2>2. Len(rcvd) < Len(sent) /\ SlotOf(pop.tail) = Len(rcvd) % Size
    BY MessageIsReal DEF IInv
  <2>3. Len(sent) \in Nat /\ Len(rcvd) \in Nat /\ Len(rcvd) - Len(sent) < Size
    BY <2>2, RingAssumption DEF IInv, TypeOK
  <2> QED BY <2>1, <2>2, <2>3, SlotsApart
<1> QED BY <1>1, RingInvariant, PTL
-----------------------------------------------------------------------------
(* The ring implements the bounded FIFO *)

\* The part of a sequence after its first r elements.
LEMMA RestOf ==
  ASSUME NEW s \in Seq(Values), NEW r \in 0 .. Len(s)
  PROVE  /\ SubSeq(s, r + 1, Len(s)) \in Seq(Values)
         /\ Len(SubSeq(s, r + 1, Len(s))) = Len(s) - r
         /\ \A i \in 1 .. Len(s) - r : SubSeq(s, r + 1, Len(s))[i] = s[r + i]
<1>1. /\ Len(s) \in Nat /\ r \in Nat /\ r <= Len(s) /\ r + 1 \in Int /\ Len(s) \in Int
      /\ \A i \in r + 1 .. Len(s) : s[i] \in Values
  OBVIOUS
<1>2. /\ SubSeq(s, r + 1, Len(s)) \in Seq(Values)
      /\ Len(SubSeq(s, r + 1, Len(s))) = IF r + 1 <= Len(s) THEN Len(s) - (r + 1) + 1 ELSE 0
      /\ \A i \in 1 .. Len(s) - (r + 1) + 1 : SubSeq(s, r + 1, Len(s))[i] = s[r + 1 + i - 1]
  BY <1>1, SubSeqProperties
<1>3. \A i \in 1 .. Len(s) - r : i \in 1 .. Len(s) - (r + 1) + 1 /\ r + 1 + i - 1 = r + i
  BY <1>1
<1> QED BY <1>1, <1>2, <1>3

\* The abstract queue holds the accepted messages not yet taken.
LEMMA InFlightIs ==
  ASSUME TypeOK, LiveSlots
  PROVE  /\ InFlight \in Seq(Values)
         /\ Len(InFlight) = Len(sent) - Len(rcvd)
         /\ \A i \in 1 .. Len(sent) - Len(rcvd) : InFlight[i] = sent[Len(rcvd) + i]
<1>1. sent \in Seq(Values) /\ Len(rcvd) \in 0 .. Len(sent)
  BY DEF TypeOK, LiveSlots
<1> QED BY <1>1, RestOf DEF InFlight

LEMMA InitFifo == Init => Fifo!FifoInit
<1> SUFFICES ASSUME Init PROVE Fifo!FifoInit
  OBVIOUS
<1>1. InFlight = <<>>
  <2>1. TypeOK /\ LiveSlots
    BY InitIInv DEF IInv
  <2>2. InFlight \in Seq(Values) /\ Len(InFlight) = 0
    BY <2>1, InFlightIs DEF Init
  <2> QED BY <2>2
<1>2. WriterState = <<"ready">> /\ ReaderState = <<"ready">>
  BY DEF Init, WriterState, ReaderState
<1> QED BY <1>1, <1>2 DEF Fifo!FifoInit, Fifo!Ready

\* A step of the producer leaves the reader's view alone, and conversely.
LEMMA NextFifo == IInv /\ IInv' /\ [Next]_vars => [Fifo!FifoNext]_(Fifo!fvars)
<1> SUFFICES ASSUME IInv, IInv', [Next]_vars
             PROVE  Fifo!FifoNext \/ UNCHANGED Fifo!fvars
  OBVIOUS
<1> USE DEF IInv
<1>0. /\ Len(sent) \in Nat /\ Len(rcvd) \in Nat /\ Len(sent) - Len(rcvd) \in 0 .. Size
      /\ Size \in Nat \ {0} /\ W \in Nat \ {0}
      /\ InFlight \in Seq(Values) /\ Len(InFlight) = Len(sent) - Len(rcvd)
  BY RingAssumption, InFlightIs DEF TypeOK, LiveSlots
<1>a. ASSUME UNCHANGED <<sent, rcvd>> PROVE UNCHANGED InFlight
  BY <1>a DEF InFlight
<1>b. ASSUME UNCHANGED pop PROVE UNCHANGED ReaderState
  BY <1>b DEF ReaderState, PopHasMsg
<1>c. ASSUME UNCHANGED push PROVE UNCHANGED WriterState
  BY <1>c DEF WriterState, PushHasRoom
<1>1. ASSUME NEW v \in Values, PushCall(v) PROVE Fifo!CallPush(v)
  <2>1. WriterState = <<"ready">> /\ WriterState' = <<"call", v>>
    BY <1>1 DEF PushCall, WriterState, TypeOK
  <2> QED BY <1>1, <1>a, <1>b, <2>1 DEF PushCall, Fifo!CallPush, Fifo!Ready, Fifo!Calling
<1>2. CASE PushReadHead
  <2>1. UNCHANGED WriterState
    BY <1>2 DEF PushReadHead, WriterState, TypeOK
  <2> QED BY <1>2, <1>a, <1>b, <2>1 DEF PushReadHead, Fifo!fvars
<1>3. CASE PushReadTail
  <2>1. /\ push'.at = "check" /\ push'.val = push.val /\ push.val \in Values
        /\ UNCHANGED <<sent, rcvd, pop>>
    BY <1>3 DEF PushReadTail, TypeOK, ProducerView
  <2>2. WriterState = <<"call", push.val>>
    BY <1>3 DEF PushReadTail, WriterState
  <2>3. CASE PushHasRoom'
    <3>1. WriterState' = <<"call", push.val>>
      BY <2>1, <2>3 DEF WriterState
    <3> QED BY <1>a, <1>b, <2>1, <2>2, <3>1 DEF Fifo!fvars
  <2>4. CASE ~PushHasRoom'
    <3>1. WriterState' = <<"ret", "ENOSPC">>
      BY <2>1, <2>4 DEF WriterState
    <3>2. push'.head = Len(sent) % W /\ push'.tail = Len(rcvd) % W
      BY <1>3 DEF PushReadTail, TypeOK, ProducerView, Counters
    <3>3. FreeCount(push'.head, push'.tail) = Size - (Len(sent) - Len(rcvd))
      BY <1>0, <3>2, FreeCountIs
    <3>4. Len(InFlight) = Size
      BY <1>0, <2>4, <3>3 DEF PushHasRoom
    <3>5. Fifo!RefusePush(push.val)
      BY <1>a, <1>b, <2>1, <2>2, <3>1, <3>4 DEF Fifo!RefusePush, Fifo!Calling, Fifo!Returns
    <3> QED BY <2>1, <3>5 DEF Fifo!FifoNext
  <2> QED BY <2>3, <2>4
<1>4. CASE PushRefused
  <2>1. WriterState = <<"ret", "ENOSPC">> /\ WriterState' = <<"ret", "ENOSPC">>
    BY <1>4 DEF PushRefused, WriterState, TypeOK
  <2> QED BY <1>4, <1>a, <1>b, <2>1 DEF PushRefused, Fifo!fvars
<1>5. CASE PushStoreSlot
  <2>1. WriterState = <<"call", push.val>> /\ WriterState' = <<"call", push.val>>
    BY <1>5 DEF PushStoreSlot, WriterState, TypeOK
  <2> QED BY <1>5, <1>a, <1>b, <2>1 DEF PushStoreSlot, Fifo!fvars
<1>6. CASE PushPublish
  <2>1. WriterState = <<"call", push.val>> /\ WriterState' = <<"ret", "0">>
    BY <1>6 DEF PushPublish, WriterState, TypeOK
  <2>2. /\ push.val \in Values /\ Len(InFlight) < Size
        /\ rcvd' = rcvd /\ sent' = Append(sent, push.val)
    BY <1>0, <1>6 DEF PushPublish, ProducerView
  <2>3. InFlight' = Append(InFlight, push.val)
    <3>1. /\ sent' \in Seq(Values) /\ Len(sent') = Len(sent) + 1
          /\ sent'[Len(sent) + 1] = push.val
          /\ \A i \in 1 .. Len(sent) : sent'[i] = sent[i]
      BY <2>2 DEF TypeOK
    <3>2. /\ InFlight' \in Seq(Values) /\ Len(InFlight') = Len(sent') - Len(rcvd)
          /\ \A i \in 1 .. Len(sent') - Len(rcvd) : InFlight'[i] = sent'[Len(rcvd) + i]
      <4>1. Len(rcvd) \in 0 .. Len(sent')
        BY <1>0, <3>1
      <4>2. InFlight' = SubSeq(sent', Len(rcvd) + 1, Len(sent'))
        BY <2>2 DEF InFlight
      <4> QED BY <3>1, <4>1, <4>2, RestOf
    <3>3. \A i \in 1 .. Len(sent) - Len(rcvd) : InFlight[i] = sent[Len(rcvd) + i]
      BY InFlightIs
    <3>4. /\ Append(InFlight, push.val) \in Seq(Values)
          /\ Len(Append(InFlight, push.val)) = Len(InFlight) + 1
          /\ \A i \in 1 .. Len(InFlight) : Append(InFlight, push.val)[i] = InFlight[i]
          /\ Append(InFlight, push.val)[Len(InFlight) + 1] = push.val
      BY <1>0, <2>2
    <3>5. ASSUME NEW i \in 1 .. Len(InFlight')
          PROVE  InFlight'[i] = Append(InFlight, push.val)[i]
      <4>1. CASE i = Len(InFlight) + 1
        BY <1>0, <3>1, <3>2, <3>4, <4>1
      <4>2. CASE i # Len(InFlight) + 1
        <5>1. i \in 1 .. Len(sent) - Len(rcvd) /\ Len(rcvd) + i \in 1 .. Len(sent)
          BY <1>0, <3>1, <3>2, <3>5, <4>2
        <5> QED BY <1>0, <3>1, <3>2, <3>3, <3>4, <5>1
      <4> QED BY <4>1, <4>2
    <3>6. Len(InFlight') = Len(Append(InFlight, push.val))
      BY <1>0, <3>1, <3>2, <3>4
    <3> QED BY <3>2, <3>4, <3>5, <3>6, SeqEqual
  <2>4. Fifo!DoPush(push.val)
    BY <1>6, <1>b, <2>1, <2>2, <2>3 DEF PushPublish, Fifo!DoPush, Fifo!Calling, Fifo!Returns
  <2> QED BY <2>2, <2>4 DEF Fifo!FifoNext
<1>7. CASE PushReturn
  <2>1. /\ WriterState = <<"ret", push.rc>> /\ WriterState' = <<"ready">>
        /\ push.rc \in {"0", "ENOSPC"}
    BY <1>7 DEF PushReturn, WriterState, TypeOK
  <2>2. Fifo!ReturnPush
    BY <1>7, <1>a, <1>b, <2>1
       DEF PushReturn, Fifo!ReturnPush, Fifo!Ready, Fifo!Returns, Fifo!PushResult
  <2> QED BY <2>2 DEF Fifo!FifoNext
<1>8. CASE PopCall
  <2>1. ReaderState = <<"ready">> /\ ReaderState' = <<"call", NoMsg>>
    BY <1>8 DEF PopCall, ReaderState, TypeOK
  <2>2. Fifo!CallPop
    BY <1>8, <1>a, <1>c, <2>1 DEF PopCall, Fifo!CallPop, Fifo!Ready, Fifo!Calling
  <2> QED BY <2>2 DEF Fifo!FifoNext
<1>9. CASE PopReadTail
  <2>1. UNCHANGED ReaderState
    BY <1>9 DEF PopReadTail, ReaderState, TypeOK
  <2> QED BY <1>9, <1>a, <1>c, <2>1 DEF PopReadTail, Fifo!fvars
<1>10. CASE PopReadHead
  <2>1. pop'.at = "check" /\ UNCHANGED <<sent, rcvd, push>>
    BY <1>10 DEF PopReadHead, TypeOK
  <2>2. ReaderState = <<"call", NoMsg>>
    BY <1>10 DEF PopReadHead, ReaderState
  <2>3. CASE PopHasMsg'
    <3>1. ReaderState' = <<"call", NoMsg>>
      BY <2>1, <2>3 DEF ReaderState
    <3> QED BY <1>a, <1>c, <2>1, <2>2, <3>1 DEF Fifo!fvars
  <2>4. CASE ~PopHasMsg'
    <3>1. ReaderState' = <<"ret", NoMsg>>
      BY <2>1, <2>4 DEF ReaderState
    <3>2. pop'.head = Len(sent) % W /\ pop'.tail = Len(rcvd) % W
      BY <1>10 DEF PopReadHead, TypeOK, ConsumerView, Counters
    <3>3. Len(sent) = Len(rcvd)
      BY <1>0, <2>4, <3>2, AvailCountIs DEF PopHasMsg
    <3>4. InFlight = <<>>
      BY <1>0, <3>3
    <3>5. Fifo!DoPopNothing
      BY <1>a, <1>c, <2>1, <2>2, <3>1, <3>4 DEF Fifo!DoPopNothing, Fifo!Calling, Fifo!Returns
    <3> QED BY <3>5 DEF Fifo!FifoNext
  <2> QED BY <2>3, <2>4
<1>11. CASE PopNothing
  <2>1. ReaderState = <<"ret", NoMsg>> /\ ReaderState' = <<"ret", NoMsg>>
    BY <1>11 DEF PopNothing, ReaderState, TypeOK
  <2> QED BY <1>11, <1>a, <1>c, <2>1 DEF PopNothing, Fifo!fvars
<1>12. CASE PopLoadSlot
  <2>1. ReaderState = <<"call", NoMsg>> /\ ReaderState' = <<"call", NoMsg>>
    BY <1>12 DEF PopLoadSlot, ReaderState, TypeOK
  <2> QED BY <1>12, <1>a, <1>c, <2>1 DEF PopLoadSlot, Fifo!fvars
<1>13. CASE PopRetire
  <2>1. ReaderState = <<"call", NoMsg>> /\ ReaderState' = <<"ret", pop.ret>>
    BY <1>13 DEF PopRetire, ReaderState, TypeOK
  <2>2. Len(rcvd) < Len(sent) /\ pop.ret = sent[Len(rcvd) + 1]
    BY <1>13 DEF PopRetire, ConsumerView
  <2>3. sent' = sent /\ Len(rcvd') = Len(rcvd) + 1
    BY <1>13 DEF PopRetire, TypeOK
  <2>4. Head(InFlight) = pop.ret /\ InFlight' = Tail(InFlight)
    <3>1. sent \in Seq(Values) /\ Len(rcvd) + 1 \in 1 .. Len(sent) /\ Len(sent) \in 1 .. Len(sent)
      BY <1>0, <2>2 DEF TypeOK
    <3>2. /\ Head(SubSeq(sent, Len(rcvd) + 1, Len(sent))) = sent[Len(rcvd) + 1]
          /\ Tail(SubSeq(sent, Len(rcvd) + 1, Len(sent))) = SubSeq(sent, Len(rcvd) + 1 + 1, Len(sent))
      BY <1>0, <2>2, <3>1, HeadTailOfSubSeq
    <3> QED BY <2>2, <2>3, <3>2 DEF InFlight
  <2>5. InFlight # <<>>
    BY <1>0, <2>2
  <2>6. Fifo!DoPop
    BY <1>13, <1>c, <2>1, <2>4, <2>5 DEF PopRetire, Fifo!DoPop, Fifo!Calling, Fifo!Returns
  <2> QED BY <2>6 DEF Fifo!FifoNext
<1>14. CASE PopReturn
  <2>1. /\ ReaderState = <<"ret", pop.ret>> /\ ReaderState' = <<"ready">>
        /\ pop.ret \in Values \cup {NoMsg}
    BY <1>14 DEF PopReturn, ReaderState, TypeOK
  <2>2. Fifo!ReturnPop
    BY <1>14, <1>a, <1>c, <2>1 DEF PopReturn, Fifo!ReturnPop, Fifo!Ready, Fifo!Returns
  <2> QED BY <2>2 DEF Fifo!FifoNext
<1>15. CASE UNCHANGED vars
  BY <1>15, <1>a, <1>b, <1>c DEF vars, Fifo!fvars
<1>16. ASSUME NEW v \in Values, PushCall(v) PROVE Fifo!FifoNext
  BY <1>1, <1>16 DEF Fifo!FifoNext
<1> QED
  BY <1>16, <1>2, <1>3, <1>4, <1>5, <1>6, <1>7, <1>8, <1>9, <1>10, <1>11, <1>12,
     <1>13, <1>14, <1>15 DEF Next, Producer, Consumer

\* The lock-free ring implements the bounded FIFO: every push and every pop takes
\* effect at one instant of its call.
THEOREM RingImplementsFifo == Spec => FifoRefinement
<1>1. Init => Fifo!FifoInit
  BY InitFifo
<1>2. IInv /\ IInv' /\ [Next]_vars => [Fifo!FifoNext]_(Fifo!fvars)
  BY NextFifo
<1> QED BY <1>1, <1>2, RingInvariant, PTL DEF Spec, FifoRefinement, Fifo!FifoSpec
=============================================================================
