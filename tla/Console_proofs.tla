--------------------------- MODULE Console_proofs ---------------------------
(***************************************************************************)
(* For rings of any size, any heap and any number of prints and commands:  *)
(* the log shows the latest lines and owns its heap, and the arrow keys    *)
(* stop at entries of the history that hold a command, and visit the last  *)
(* ones in the order of their use.                                         *)
(*                                                                         *)
(* None of the properties is inductive.  Both rings begin where their end  *)
(* says (Span); the lines of the log, the one that has just dropped out    *)
(* included, are in the slots of their numbers and are not dangling        *)
(* (LinesInSlots); a command that the history still has is in its slot, or *)
(* was erased there when it was typed again (EntryOf, CommandsInSlots),    *)
(* and the literal is in the first slot until that is taken again.         *)
(***************************************************************************)
EXTENDS Console, SequenceTheorems, WellFoundedInduction, TLAPS

\* A ring that has never been popped begins Size - 1 entries before its end.
Span(r) == r.first = IF r.last < Size THEN 0 ELSE r.last - (Size - 1)

Ring(E) == [first : Nat, last : Nat, entries : [Slot -> E]]

\* An address is allocated if a slot that is not dangling holds it, and then only one.
Owners ==
  /\ \A p \in Ptr : heap[p] # Free <=> \E s \in Slot \ dangling : log.entries[s] = p
  /\ \A s, t \in Slot \ dangling :
       log.entries[s] # Null /\ log.entries[s] = log.entries[t] => s = t

LinesInSlots ==
  \A j \in 0 .. log.last - 1 : log.last - j <= Size =>
    /\ j % Size \notin dangling /\ log.entries[j % Size] \in Ptr
    /\ heap[log.entries[j % Size]] = (printed - log.last) + j + 1

LogInv ==
  /\ LogTypeOK /\ log \in Ring(Ptr \cup {Null})
  /\ ~freedTwice => Span(log) /\ log.last = LinesSinceClear /\ LinesInSlots /\ Owners

\* What the history has for the j-th command: its text, until it is typed again.
EntryOf(j) ==
  IF j = 0 THEN Literal
  ELSE IF \E k \in j + 1 .. Len(typed) : typed[k] = typed[j] THEN Blank ELSE typed[j]

CommandsInSlots ==
  \A j \in 0 .. hist.last - 1 : hist.last - j <= Size - 1 => hist.entries[j % Size] = EntryOf(j)

HistInv ==
  /\ HistTypeOK /\ hist \in Ring(Cmds \cup Empty \cup {Null})
  /\ Span(hist) /\ hist.last = Len(typed) + 1
  /\ \A s \in Slot : hist.entries[s] = Literal <=> s = 0 /\ Len(typed) < Size
  /\ hist.last > 1 => hist.entries[(hist.last - 1) % Size] \in Cmds
  /\ LiteralFreedOnLoop /\ BrowsesCommands /\ CommandsInSlots

IInv == LogInv /\ HistInv /\ clearing \in BOOLEAN
-----------------------------------------------------------------------------
(* Slots *)

LEMMA DivMod ==
  ASSUME NEW n \in Nat
  PROVE  n % Size \in 0 .. Size - 1 /\ n \div Size \in Nat /\ n = Size * (n \div Size) + (n % Size)
BY SizeAssumption

\* Entries less than Size apart have different slots.
LEMMA SlotsApart ==
  ASSUME NEW i \in Nat, NEW j \in Nat, i < j, j - i < Size
  PROVE  i % Size # j % Size
<1> DEFINE d == (j \div Size) - (i \div Size)
<1>1. SUFFICES ASSUME i % Size = j % Size PROVE FALSE
  OBVIOUS
<1>2. /\ i \div Size \in Nat /\ j \div Size \in Nat /\ Size \in Nat
      /\ Size * ((j \div Size) - (i \div Size)) = Size * (j \div Size) - Size * (i \div Size)
  BY DivMod, SizeAssumption
<1>3. d \in Int /\ Size * d = j - i
  <2> HIDE DEF d
  <2> QED  BY <1>1, <1>2, DivMod DEF d
<1> HIDE DEF d
<1>4. CASE d >= 1
  <2>1. Size * d >= Size
    BY <1>2, <1>3, <1>4
  <2> QED  BY <1>2, <1>3, <2>1
<1>5. CASE d <= 0
  <2>1. Size * d <= 0
    BY <1>2, <1>3, <1>5
  <2> QED  BY <1>2, <1>3, <2>1
<1> QED  BY <1>3, <1>4, <1>5

LEMMA SmallMod ==
  ASSUME NEW n \in 0 .. Size - 1
  PROVE  n % Size = n
BY SizeAssumption

\* The slots of n and n + Size are the same.
LEMMA SlotAgain ==
  ASSUME NEW n \in Nat
  PROVE  (n + Size) % Size = n % Size
<1> DEFINE a == n % Size
           b == (n + Size) % Size
           d == ((n + Size) \div Size) - (n \div Size) - 1
<1>1. a \in 0 .. Size - 1 /\ b \in 0 .. Size - 1 /\ Size \in Nat
  BY DivMod, SizeAssumption
<1>2. d \in Int /\ Size * d = a - b
  <2>1. n = Size * (n \div Size) + a /\ n \div Size \in Nat
    BY DivMod
  <2>2. n + Size = Size * ((n + Size) \div Size) + b /\ (n + Size) \div Size \in Nat
    BY DivMod, SizeAssumption
  <2>3. Size * d = Size * ((n + Size) \div Size) - Size * (n \div Size) - Size
    BY <1>1, <2>1, <2>2
  <2> HIDE DEF a, b
  <2> QED  BY <1>1, <2>1, <2>2, <2>3
<1> HIDE DEF a, b, d
<1>3. d = 0
  <2>1. CASE d >= 1
    <3>1. Size * d >= Size
      BY <1>1, <1>2, <2>1
    <3> QED  BY <1>1, <1>2, <3>1
  <2>2. CASE d <= -1
    <3>1. Size * d <= -Size
      BY <1>1, <1>2, <2>2
    <3> QED  BY <1>1, <1>2, <3>1
  <2> QED  BY <1>2, <2>1, <2>2
<1> QED  BY <1>1, <1>2, <1>3 DEF a, b
-----------------------------------------------------------------------------
(* The ring *)

LEMMA CountIs ==
  ASSUME NEW E, NEW r \in Ring(E), Span(r)
  PROVE  /\ RingCount(r) = r.last - r.first
         /\ RingCount(r) = Least(r.last, Size - 1)
         /\ RingCount(r) \in 0 .. Size - 1
<1>1. r.first \in Nat /\ r.last \in Nat /\ r.last - r.first \in 0 .. Size - 1
  BY SizeAssumption DEF Ring, Span
<1>2. (r.last - r.first) % Size = r.last - r.first
  BY <1>1, SmallMod
<1> QED  BY <1>1, <1>2, SizeAssumption DEF RingCount, Span, Least

\* What a push changes.
LEMMA PushIs ==
  ASSUME NEW E, NEW r \in Ring(E), Span(r), NEW e \in E
  PROVE  /\ RingPush(r, e) \in Ring(E) /\ Span(RingPush(r, e))
         /\ RingPush(r, e).last = r.last + 1
         /\ r.last % Size \in Slot
         /\ \A s \in Slot : RingPush(r, e).entries[s] =
                              IF s = r.last % Size THEN e ELSE r.entries[s]
<1>1. r.first \in Nat /\ r.last \in Nat /\ r.entries \in [Slot -> E]
  BY DEF Ring
<1>2. r.last % Size \in Slot
  BY <1>1, DivMod DEF Slot
<1>3. CASE r.last < Size - 1
  <2>1. r.first = 0 /\ (r.last + 1) % Size = r.last + 1 /\ 0 % Size = 0
    BY <1>1, <1>3, SmallMod, SizeAssumption DEF Span
  <2>2. (r.last + 1) % Size # r.first % Size
    BY <1>1, <2>1
  <2> QED  BY <1>1, <1>2, <1>3, <2>1, <2>2, SizeAssumption DEF RingPush, Ring, Span
<1>4. CASE r.last >= Size - 1
  <2>1. r.last + 1 = r.first + Size
    BY <1>1, <1>4, SizeAssumption DEF Span
  <2>2. (r.last + 1) % Size = r.first % Size
    BY <1>1, <2>1, SlotAgain
  <2> QED  BY <1>1, <1>2, <1>4, <2>1, <2>2, SizeAssumption DEF RingPush, Ring, Span
<1> QED  BY <1>1, <1>3, <1>4, SizeAssumption
-----------------------------------------------------------------------------
(* The log *)

LEMMA LogInitially == LogInit => LogInv
<1> SUFFICES ASSUME LogInit PROVE LogInv
  OBVIOUS
<1>1. EmptyRing \in Ring(Ptr \cup {Null}) /\ EmptyRing.last = 0 /\ EmptyRing.first = 0
      /\ \A s \in Slot : EmptyRing.entries[s] = Null
  BY DEF EmptyRing, Ring
<1>2. LogTypeOK
  <2>1. heap \in [Ptr -> (1 .. MaxPrints) \cup {Free}]
    BY DEF LogInit
  <2>2. log.first \in Nat /\ log.last \in Nat /\ log.entries \in [Slot -> Ptr \cup {Null}]
    BY <1>1 DEF LogInit, Ring
  <2>3. printed \in 0 .. MaxPrints /\ cleared \in -1 .. printed
    BY LogAssumption DEF LogInit
  <2>4. dangling \subseteq Slot /\ freedTwice \in BOOLEAN
    BY DEF LogInit
  <2> QED  BY <2>1, <2>2, <2>3, <2>4 DEF LogTypeOK
<1>3. Span(log) /\ log.last = LinesSinceClear /\ LinesInSlots
  BY <1>1, SizeAssumption DEF LogInit, Span, LinesSinceClear, LinesInSlots
<1>4. Owners
  BY <1>1, LogAssumption DEF LogInit, Owners
<1> QED  BY <1>1, <1>2, <1>3, <1>4 DEF LogInit, LogInv

\* What a printed line does to the ring and the heap.
LEMMA LineIs ==
  ASSUME LogInv, LogLine
  PROVE  \E p \in Ptr :
           LET z == log.last % Size
           IN  /\ heap[p] = Free /\ z \in Slot
               /\ log' \in Ring(Ptr \cup {Null}) /\ Span(log') /\ log'.last = log.last + 1
               /\ \A s \in Slot : log'.entries[s] = IF s = z THEN p ELSE log.entries[s]
               /\ heap' = [q \in Ptr |-> IF q = log.entries[z] THEN Free
                                         ELSE IF q = p THEN printed + 1 ELSE heap[q]]
<1>1. PICK p \in Ptr :
        /\ heap[p] = Free /\ log' = RingPush(log, p)
        /\ heap' = [q \in Ptr |-> IF q = PushPrev(log) THEN Free
                                  ELSE IF q = p THEN printed + 1 ELSE heap[q]]
  BY DEF LogLine
<1>2. log \in Ring(Ptr \cup {Null}) /\ Span(log) /\ p \in Ptr \cup {Null}
  BY DEF LogInv, LogLine
<1>3. /\ log' \in Ring(Ptr \cup {Null}) /\ Span(log') /\ log'.last = log.last + 1
      /\ log.last % Size \in Slot
      /\ \A s \in Slot : log'.entries[s] = IF s = log.last % Size THEN p ELSE log.entries[s]
  BY <1>1, <1>2, PushIs
<1> QED  BY <1>1, <1>3 DEF PushPrev

LEMMA LineKeepsLog ==
  ASSUME LogInv, LogLine
  PROVE  LogInv'
<1> DEFINE z == log.last % Size
<1>1. PICK p \in Ptr :
        /\ heap[p] = Free /\ z \in Slot
        /\ log' \in Ring(Ptr \cup {Null}) /\ Span(log') /\ log'.last = log.last + 1
        /\ \A s \in Slot : log'.entries[s] = IF s = z THEN p ELSE log.entries[s]
        /\ heap' = [q \in Ptr |-> IF q = log.entries[z] THEN Free
                                  ELSE IF q = p THEN printed + 1 ELSE heap[q]]
  BY LineIs
<1>2. /\ log \in Ring(Ptr \cup {Null}) /\ LogTypeOK /\ ~freedTwice
      /\ Span(log) /\ log.last = LinesSinceClear /\ LinesInSlots /\ Owners
  BY DEF LogInv, LogLine
<1>3. /\ printed' = printed + 1 /\ cleared' = cleared /\ dangling' = dangling \ {z}
      /\ freedTwice' = (z \in dangling) /\ printed < MaxPrints
  BY DEF LogLine
<1>4. /\ printed \in Nat /\ cleared \in Int /\ cleared <= printed /\ dangling \subseteq Slot
      /\ \A q \in Ptr : heap[q] \in (1 .. MaxPrints) \cup {Free}
      /\ MaxPrints \in Nat /\ Free \notin Nat /\ Null \notin Ptr
  BY <1>2, LogAssumption DEF LogTypeOK
<1>5. LogTypeOK'
  <2>1. heap' \in [Ptr -> (1 .. MaxPrints) \cup {Free}]
    BY <1>1, <1>3, <1>4
  <2>2. printed' \in 0 .. MaxPrints /\ cleared' \in -1 .. printed'
    BY <1>2, <1>3, <1>4 DEF LogTypeOK
  <2>3. dangling' \subseteq Slot /\ freedTwice' \in BOOLEAN
    BY <1>3, <1>4
  <2> QED  BY <1>1, <2>1, <2>2, <2>3 DEF LogTypeOK, Ring
<1>6. ASSUME z \notin dangling
      PROVE  log'.last = LinesSinceClear' /\ LinesInSlots' /\ Owners'
  <2>1. dangling' = dangling
    BY <1>3, <1>6
  <2>2. log'.last = LinesSinceClear'
    BY <1>1, <1>2, <1>3, <1>4 DEF LinesSinceClear
  <2>3. \A s \in Slot \ dangling : log.entries[s] # p
    BY <1>1, <1>2 DEF Owners
  <2>4. \A s \in Slot \ dangling : s # z /\ log.entries[s] # Null => log.entries[s] # log.entries[z]
    BY <1>1, <1>2, <1>6 DEF Owners
  <2>5. log.last \in Nat
    BY <1>2 DEF Ring
  <2>6. LinesInSlots'
    <3> SUFFICES ASSUME NEW j \in 0 .. log.last, log.last + 1 - j <= Size
                 PROVE  /\ j % Size \notin dangling /\ log'.entries[j % Size] \in Ptr
                        /\ heap'[log'.entries[j % Size]] = (printed' - log'.last) + j + 1
      BY <1>1, <2>1, <2>5 DEF LinesInSlots
    <3>1. j % Size \in Slot
      BY <2>5, DivMod DEF Slot
    <3>2. CASE j = log.last
      <4>1. log'.entries[j % Size] = p /\ p # log.entries[z]
        BY <1>1, <1>6, <2>3, <3>1, <3>2
      <4>2. heap'[p] = printed + 1
        BY <1>1, <4>1
      <4> QED  BY <1>1, <1>3, <1>4, <1>6, <2>5, <3>2, <4>1, <4>2
    <3>3. CASE j < log.last
      <4>1. j % Size # z
        BY <2>5, <3>3, SlotsApart, SizeAssumption
      <4> DEFINE e == log.entries[j % Size]
      <4>2. /\ j % Size \notin dangling /\ e \in Ptr
            /\ heap[e] = (printed - log.last) + j + 1
        BY <1>2, <2>5, <3>3, SizeAssumption DEF LinesInSlots
      <4>3. log'.entries[j % Size] = e
        BY <1>1, <3>1, <4>1
      <4>4. e # p /\ e # log.entries[z]
        BY <1>4, <2>3, <2>4, <3>1, <4>1, <4>2
      <4>5. heap'[e] = heap[e]
        BY <1>1, <4>2, <4>4
      <4>6. (printed' - log'.last) + j + 1 = (printed - log.last) + j + 1
        BY <1>1, <1>3, <1>4, <2>5
      <4> HIDE DEF e
      <4> QED  BY <4>2, <4>3, <4>5, <4>6
    <3> QED  BY <2>5, <3>2, <3>3
  <2>7. Owners'
    <3>1. ASSUME NEW q \in Ptr
          PROVE  heap'[q] # Free <=> \E s \in Slot \ dangling : log'.entries[s] = q
      <4>1. heap[q] # Free <=> \E s \in Slot \ dangling : log.entries[s] = q
        BY <1>2 DEF Owners
      <4>2. CASE q = p
        <5>1. p # log.entries[z]
          BY <1>1, <1>6, <2>3
        <5>2. heap'[p] = printed + 1 /\ log'.entries[z] = p
          BY <1>1, <5>1
        <5> QED  BY <1>1, <1>4, <1>6, <4>2, <5>2
      <4>3. CASE q # p /\ q = log.entries[z]
        <5>1. heap'[q] = Free
          BY <1>1, <4>3
        <5>2. \A s \in Slot \ dangling : log'.entries[s] # q
          BY <1>1, <1>4, <2>4, <4>3
        <5> QED  BY <5>1, <5>2
      <4>4. CASE q # p /\ q # log.entries[z]
        <5>1. heap'[q] = heap[q]
          BY <1>1, <4>4
        <5>2. \A s \in Slot : log'.entries[s] = q <=> log.entries[s] = q
          BY <1>1, <4>4
        <5> QED  BY <4>1, <5>1, <5>2
      <4> QED  BY <4>2, <4>3, <4>4
    <3>2. ASSUME NEW s \in Slot \ dangling, NEW t \in Slot \ dangling,
                 log'.entries[s] # Null, log'.entries[s] = log'.entries[t]
          PROVE  s = t
      BY <1>1, <1>2, <2>3, <3>2 DEF Owners
    <3> QED  BY <2>1, <3>1, <3>2 DEF Owners
  <2> QED  BY <2>2, <2>6, <2>7
<1> QED  BY <1>1, <1>3, <1>5, <1>6 DEF LogInv

\* The slots of the visible lines hold lines that are allocated.
LEMMA ClearedAreLines ==
  ASSUME LogInv, ~freedTwice
  PROVE  ClearedSlots \subseteq {s \in Slot \ dangling : log.entries[s] # Null}
<1> SUFFICES ASSUME NEW i \in 0 .. RingCount(log) - 1
             PROVE  LET s == (log.first + i) % Size
                    IN  s \in Slot \ dangling /\ log.entries[s] # Null
  BY DEF ClearedSlots
<1>1. log \in Ring(Ptr \cup {Null}) /\ Span(log) /\ LinesInSlots /\ Null \notin Ptr
  BY LogAssumption DEF LogInv
<1>2. RingCount(log) = log.last - log.first /\ RingCount(log) \in 0 .. Size - 1
  BY <1>1, CountIs
<1>3. log.first \in Nat /\ log.last \in Nat
  BY <1>1 DEF Ring
<1> DEFINE j == log.first + i
<1>4. j \in 0 .. log.last - 1 /\ log.last - j <= Size
  BY <1>2, <1>3, SizeAssumption
<1>5. j % Size \in Slot
  BY <1>4, DivMod, <1>3 DEF Slot
<1> HIDE DEF j
<1>6. j % Size \notin dangling /\ log.entries[j % Size] \in Ptr
  BY <1>1, <1>4 DEF LinesInSlots
<1> QED  BY <1>1, <1>5, <1>6 DEF j

LEMMA ClearKeepsLog ==
  ASSUME LogInv, Clear
  PROVE  LogInv'
<1>1. /\ log \in Ring(Ptr \cup {Null}) /\ LogTypeOK /\ ~freedTwice /\ Owners
  BY DEF LogInv, Clear
<1>2. ClearedSlots \subseteq {s \in Slot \ dangling : log.entries[s] # Null}
  BY <1>1, ClearedAreLines
<1>3. /\ log' \in Ring(Ptr \cup {Null}) /\ log'.first = 0 /\ log'.last = 0
      /\ log'.entries = log.entries
  BY <1>1 DEF Clear, Ring
<1>4. /\ dangling' = dangling \cup ClearedSlots /\ printed' = printed /\ cleared' = printed
      /\ freedTwice' = freedTwice
      /\ heap' = [p \in Ptr |-> IF \E s \in ClearedSlots : log.entries[s] = p THEN Free ELSE heap[p]]
  BY DEF Clear
<1>5. LogTypeOK'
  BY <1>1, <1>2, <1>3, <1>4 DEF LogTypeOK, Ring
<1>6. Span(log') /\ log'.last = LinesSinceClear' /\ LinesInSlots'
  BY <1>1, <1>3, <1>4, SizeAssumption DEF Span, LinesSinceClear, LinesInSlots, LogTypeOK
<1>7. Owners'
  <2>1. ASSUME NEW p \in Ptr
        PROVE  heap'[p] # Free <=> \E s \in Slot \ dangling' : log.entries[s] = p
    <3>1. heap[p] # Free <=> \E s \in Slot \ dangling : log.entries[s] = p
      BY <1>1 DEF Owners
    <3>2. CASE \E s \in ClearedSlots : log.entries[s] = p
      <4>1. PICK s \in ClearedSlots : log.entries[s] = p
        BY <3>2
      <4>2. \A t \in Slot \ dangling' : t \in Slot \ dangling /\ t # s
        BY <1>4, <4>1
      <4>3. \A t \in Slot \ dangling' : log.entries[t] # p
        BY <1>1, <1>2, <4>1, <4>2 DEF Owners
      <4> QED  BY <1>4, <3>2, <4>3
    <3>3. CASE ~\E s \in ClearedSlots : log.entries[s] = p
      <4>1. heap'[p] = heap[p]
        BY <1>4, <3>3
      <4>2. \A s \in Slot \ dangling : log.entries[s] = p => s \in Slot \ dangling'
        BY <1>4, <3>3
      <4> QED  BY <1>4, <3>1, <4>1, <4>2
    <3> QED  BY <3>2, <3>3
  <2>2. \A s, t \in Slot \ dangling' :
          log.entries[s] # Null /\ log.entries[s] = log.entries[t] => s = t
    BY <1>1, <1>4 DEF Owners
  <2> QED  BY <1>3, <2>1, <2>2 DEF Owners
<1> QED  BY <1>3, <1>4, <1>5, <1>6, <1>7 DEF LogInv

LEMMA LogKept ==
  ASSUME LogInv, LogLine \/ Clear \/ UNCHANGED logVars
  PROVE  LogInv'
<1>1. CASE UNCHANGED logVars
  BY <1>1 DEF logVars, LogInv, LogTypeOK, Span, LinesSinceClear, LinesInSlots, Owners
<1> QED  BY <1>1, LineKeepsLog, ClearKeepsLog
-----------------------------------------------------------------------------
(* The history *)

\* A set of numbers up to a bound has a greatest.
LEMMA GreatestExists ==
  ASSUME NEW b \in Nat, NEW S \in SUBSET (0 .. b), S # {}
  PROVE  \E x \in S : \A y \in S : y <= x
<1> DEFINE T == {b - x : x \in S}
<1>1. T \subseteq Nat /\ T # {}
  <2>1. ASSUME NEW x \in S PROVE x \in 0 .. b /\ b - x \in Nat
    OBVIOUS
  <2>2. PICK x \in S : TRUE
    OBVIOUS
  <2>3. b - x \in T
    BY <2>2
  <2>4. T \subseteq Nat
    BY <2>1
  <2> HIDE DEF T
  <2> QED  BY <2>3, <2>4
<1>2. PICK u \in T : \A v \in T : ~(<<v, u>> \in OpToRel(<, Nat))
  <2> HIDE DEF T
  <2> QED  BY <1>1, NatLessThanWellFounded, WFMin
<1>3. PICK x \in S : u = b - x
  BY <1>2
<1>4. ASSUME NEW y \in S PROVE y <= x
  <2>1. b - y \in T
    OBVIOUS
  <2>2. <<b - y, u>> \in Nat \X Nat /\ ~(b - y < u)
    BY <1>1, <1>2, <2>1 DEF OpToRel
  <2> QED  BY <1>3, <2>2
<1> QED  BY <1>4

LEMMA LeastExists ==
  ASSUME NEW S \in SUBSET Nat, S # {}
  PROVE  \E x \in S : \A y \in S : x <= y
<1>1. PICK x \in S : \A y \in S : ~(<<y, x>> \in OpToRel(<, Nat))
  BY NatLessThanWellFounded, WFMin
<1>2. ASSUME NEW y \in S PROVE x <= y
  <2>1. <<y, x>> \in Nat \X Nat /\ ~(y < x)
    BY <1>1 DEF OpToRel
  <2> QED  BY <2>1
<1> QED  BY <1>2

Entries == Cmds \cup Empty \cup {Null}

\* Blanking changes one slot at most, and that held the command.
LEMMA BlankIs ==
  ASSUME NEW r \in Ring(Entries), Span(r), NEW c \in Cmds
  PROVE  LET q == BlankMatch(r, c)
         IN  /\ q \in Ring(Entries) /\ Span(q) /\ q.last = r.last
             /\ \A s \in Slot : q.entries[s] = r.entries[s]
                                  \/ (q.entries[s] = Blank /\ r.entries[s] = c)
<1>1. CASE Matches(r, c) = {}
  BY <1>1 DEF BlankMatch
<1>2. CASE Matches(r, c) # {}
  <2> DEFINE i == CHOOSE n \in Matches(r, c) : \A m \in Matches(r, c) : m <= n
             z == (r.first + i) % Size
  <2>1. RingCount(r) \in 0 .. Size - 1 /\ Size \in Nat
    BY CountIs, SizeAssumption
  <2>2. Matches(r, c) \in SUBSET (0 .. Size)
    BY <2>1 DEF Matches
  <2>3. \E n \in Matches(r, c) : \A m \in Matches(r, c) : m <= n
    BY <1>2, <2>1, <2>2, GreatestExists
  <2>4. i \in Matches(r, c)
    BY <2>3
  <2>5. i \in Nat /\ r.entries[z] = c
    <3> HIDE DEF i
    <3> QED  BY <2>1, <2>4 DEF Matches, RingPeek
  <2>6. BlankMatch(r, c) = [r EXCEPT !.entries[z] = Blank]
    BY <1>2 DEF BlankMatch
  <2> HIDE DEF i
  <2>7. r.first + i \in Nat
    BY <2>5 DEF Ring
  <2>8. z \in Slot
    BY <2>7, DivMod DEF Slot
  <2> HIDE DEF z
  <2>9. Blank \in Entries
    BY DEF Entries, Empty
  <2> QED  BY <2>5, <2>6, <2>8, <2>9 DEF Ring, Span
<1> QED  BY <1>1, <1>2

\* The only entry of the ring that has the command is blanked.
LEMMA BlankFinds ==
  ASSUME NEW r \in Ring(Entries), Span(r), NEW c \in Cmds,
         NEW j \in r.first .. r.last - 1, r.entries[j % Size] = c,
         \A k \in r.first .. r.last - 1 : r.entries[k % Size] = c => k = j
  PROVE  BlankMatch(r, c).entries[j % Size] = Blank
<1> DEFINE i == CHOOSE n \in Matches(r, c) : \A m \in Matches(r, c) : m <= n
           z == (r.first + i) % Size
<1>1. r.first \in Nat /\ r.last \in Nat /\ j \in Nat /\ r.first + (j - r.first) = j
  BY DEF Ring
<1>2. RingCount(r) \in 0 .. Size - 1 /\ Size \in Nat /\ RingCount(r) = r.last - r.first
  BY CountIs, SizeAssumption
<1>3. Matches(r, c) \in SUBSET (0 .. Size)
  BY <1>2 DEF Matches
<1>4. Matches(r, c) # {}
  <2>1. j - r.first \in 0 .. RingCount(r) - 1
    BY <1>1, <1>2
  <2>2. RingPeek(r, j - r.first) = c
    BY <1>1 DEF RingPeek
  <2> QED  BY <2>1, <2>2 DEF Matches
<1>5. \E n \in Matches(r, c) : \A m \in Matches(r, c) : m <= n
  BY <1>2, <1>3, <1>4, GreatestExists
<1>6. i \in Matches(r, c)
  BY <1>5
<1>7. BlankMatch(r, c) = [r EXCEPT !.entries[z] = Blank]
  BY <1>4 DEF BlankMatch
<1> HIDE DEF i
<1>8. r.first + i \in r.first .. r.last - 1 /\ r.entries[z] = c
  <2>1. i \in 0 .. RingCount(r) - 1 /\ RingPeek(r, i) = c
    BY <1>6 DEF Matches
  <2>2. i \in Nat /\ i <= (r.last - r.first) - 1
    BY <1>2, <2>1
  <2>3. r.first + i \in r.first .. r.last - 1
    BY <1>1, <2>2
  <2> QED  BY <2>1, <2>3 DEF RingPeek
<1>9. r.first + i = j
  BY <1>8
<1>10. j % Size \in Slot /\ z = j % Size
  BY <1>1, <1>9, DivMod DEF Slot
<1> HIDE DEF z
<1> QED  BY <1>7, <1>10 DEF Ring

LEMMA HistInitially == HistInit => HistInv
<1> SUFFICES ASSUME HistInit PROVE HistInv
  OBVIOUS
<1> DEFINE r == EmptyRing
<1>1. /\ r \in Ring(Entries) /\ r.last = 0 /\ r.first = 0 /\ Span(r) /\ Literal \in Entries
      /\ \A s \in Slot : r.entries[s] = Null
  BY SizeAssumption DEF EmptyRing, Ring, Span, Entries, Empty
<1>2. 0 % Size = 0 /\ 0 \in Slot
  BY SmallMod, SizeAssumption DEF Slot
<1> HIDE DEF r
<1>3. /\ RingPush(r, Literal) \in Ring(Entries) /\ Span(RingPush(r, Literal))
      /\ RingPush(r, Literal).last = 1
      /\ \A s \in Slot : RingPush(r, Literal).entries[s] = IF s = 0 THEN Literal ELSE Null
  BY <1>1, <1>2, PushIs
<1>4. /\ hist = RingPush(r, Literal) /\ history_pos = -1 /\ typed = <<>> /\ literalFreed = FALSE
  BY DEF HistInit, r
<1>5. RingCount(hist) = 1
  BY <1>3, <1>4, CountIs, SizeAssumption DEF Least
<1>6. HistTypeOK
  <2>1. hist.entries \in [Slot -> Entries]
    BY <1>3, <1>4 DEF Ring
  <2>2. literalFreed \in BOOLEAN
    BY <1>4
  <2>3. typed \in Seq(Cmds) /\ Len(typed) <= MaxCmds
    BY <1>4, HistoryAssumption
  <2> QED  BY <2>1, <2>2, <2>3 DEF HistTypeOK, Entries
<1>7. Literal # Null
  BY HistoryAssumption DEF Empty
<1>8. CommandsInSlots
  BY <1>2, <1>3, <1>4 DEF CommandsInSlots, EntryOf
<1> QED  BY <1>2, <1>3, <1>4, <1>5, <1>6, <1>7, <1>8, SizeAssumption
         DEF HistInv, Entries, LiteralFreedOnLoop, BrowsesCommands

LEMMA RememberKeepsHist ==
  ASSUME HistInv, NEW c \in Cmds, Remember(c)
  PROVE  HistInv'
<1> DEFINE q == BlankMatch(hist, c)
           z == hist.last % Size
           n == Len(typed)
<1>1. /\ hist \in Ring(Entries) /\ Span(hist) /\ hist.last = n + 1 /\ HistTypeOK
      /\ typed \in Seq(Cmds) /\ n \in Nat /\ n < MaxCmds /\ MaxCmds \in Nat
      /\ \A s \in Slot : hist.entries[s] = Literal <=> s = 0 /\ n < Size
      /\ literalFreed \in BOOLEAN /\ (literalFreed <=> n >= Size)
  BY HistoryAssumption, LenProperties DEF HistInv, Entries, Remember, HistTypeOK, LiteralFreedOnLoop
<1>2. /\ q \in Ring(Entries) /\ Span(q) /\ q.last = hist.last
      /\ \A s \in Slot : q.entries[s] = hist.entries[s]
                           \/ (q.entries[s] = Blank /\ hist.entries[s] = c)
  BY <1>1, BlankIs
<1>3. /\ hist' = RingPush(q, c) /\ typed' = Append(typed, c) /\ history_pos' = -1
      /\ literalFreed' = (literalFreed \/ hist.entries[z] = Literal)
  BY DEF Remember, PushPrev
<1>4. c \in Entries /\ c # Literal /\ Blank # Literal /\ c \notin Empty
  BY HistoryAssumption DEF Entries, Empty, Blank, Literal
<1> HIDE DEF q
<1>5. /\ hist' \in Ring(Entries) /\ Span(hist') /\ hist'.last = n + 2 /\ z \in Slot
      /\ \A s \in Slot : hist'.entries[s] = IF s = z THEN c ELSE q.entries[s]
  BY <1>1, <1>2, <1>3, <1>4, PushIs
<1>6. typed' \in Seq(Cmds) /\ Len(typed') = n + 1
  BY <1>1, <1>3, AppendProperties
<1>7. HistTypeOK'
  BY <1>1, <1>3, <1>5, <1>6 DEF HistTypeOK, Ring, Entries
<1>8. z = 0 /\ n < Size <=> n = Size - 1
  <2>1. CASE n < Size - 1
    <3>1. z = n + 1
      BY <1>1, <2>1, SmallMod, SizeAssumption
    <3> QED  BY <1>1, <2>1, <3>1
  <2>2. CASE n = Size - 1
    <3>1. (0 + Size) % Size = 0 % Size /\ 0 % Size = 0
      BY SlotAgain, SmallMod, SizeAssumption
    <3> QED  BY <1>1, <2>2, <3>1, SizeAssumption
  <2>3. CASE n >= Size
    BY <1>1, <2>3, SizeAssumption
  <2> QED  BY <1>1, <2>1, <2>2, <2>3, SizeAssumption
<1>9. \A s \in Slot : hist'.entries[s] = Literal <=> s = 0 /\ n + 1 < Size
  <2> SUFFICES ASSUME NEW s \in Slot
               PROVE  hist'.entries[s] = Literal <=> s = 0 /\ n + 1 < Size
    OBVIOUS
  <2>1. q.entries[s] = Literal <=> hist.entries[s] = Literal
    BY <1>2, <1>4
  <2>2. hist.entries[s] = Literal <=> s = 0 /\ n < Size
    BY <1>1
  <2>3. CASE s = z
    <3>1. hist'.entries[s] = c
      BY <1>5, <2>3
    <3> QED  BY <1>1, <1>4, <1>8, <2>3, <3>1, SizeAssumption
  <2>4. CASE s # z
    <3>1. hist'.entries[s] = q.entries[s]
      BY <1>5, <2>4
    <3> QED  BY <1>1, <1>8, <2>1, <2>2, <2>4, <3>1, SizeAssumption
  <2> QED  BY <2>3, <2>4
<1>10. hist'.entries[(hist'.last - 1) % Size] \in Cmds
  BY <1>1, <1>5
<1>11. literalFreed' <=> n + 1 >= Size
  <2>1. literalFreed' <=> literalFreed \/ hist.entries[z] = Literal
    BY <1>3
  <2>2. hist.entries[z] = Literal <=> n = Size - 1
    BY <1>1, <1>5, <1>8
  <2>3. n + 1 >= Size <=> n >= Size \/ n = Size - 1
    BY <1>1, SizeAssumption
  <2> HIDE DEF n, z
  <2> QED  BY <1>1, <2>1, <2>2, <2>3, Zenon
<1>12. RingCount(hist') \in 1 .. Size - 1
  BY <1>1, <1>5, CountIs, SizeAssumption DEF Least
<1>13. CommandsInSlots'
  <2> SUFFICES ASSUME NEW j \in 0 .. n + 1, (n + 2) - j <= Size - 1
               PROVE  hist'.entries[j % Size] = EntryOf(j)'
    BY <1>1, <1>5 DEF CommandsInSlots
  <2>1. Size \in Nat /\ Size >= 2 /\ n \in Nat /\ j \in Nat /\ typed' \in Seq(Cmds)
    BY <1>1, <1>6, SizeAssumption
  <2>2. /\ typed'[n + 1] = c /\ Len(typed') = n + 1
        /\ \A k \in 1 .. n : typed'[k] = typed[k]
    BY <1>1, <1>3, <1>6, AppendProperties
  <2>3. CASE j = n + 1
    <3>1. j % Size = z
      BY <1>1, <2>3
    <3>2. hist'.entries[j % Size] = c
      BY <1>5, <3>1
    <3>3. EntryOf(j)' = c
      BY <2>1, <2>2, <2>3 DEF EntryOf
    <3> QED  BY <3>2, <3>3
  <2>4. CASE j <= n
    <3>1. j % Size # z /\ j % Size \in Slot
      <4>1. hist.last \in Nat /\ j < hist.last /\ hist.last - j < Size
        BY <1>1, <2>1, <2>4
      <4> QED  BY <2>1, <4>1, SlotsApart, DivMod DEF Slot
    <3>2. hist'.entries[j % Size] = q.entries[j % Size]
      BY <1>5, <3>1
    <3>3. hist.entries[j % Size] = EntryOf(j) /\ j \in hist.first .. hist.last - 1
      <4>1. j \in 0 .. hist.last - 1 /\ hist.last - j <= Size - 1
        BY <1>1, <2>1, <2>4
      <4>2. j >= hist.first /\ hist.first \in Nat
        BY <1>1, <2>1, <4>1 DEF Span, Ring
      <4> QED  BY <4>1, <4>2 DEF HistInv, CommandsInSlots
    <3>4. CASE hist.entries[j % Size] = c
      <4>1. j # 0 /\ typed[j] = c /\ ~\E k \in j + 1 .. n : typed[k] = c
        <5>1. EntryOf(j) = c /\ c # Literal /\ c # Blank
          BY <1>4, <3>3, <3>4 DEF Empty
        <5> QED  BY <5>1 DEF EntryOf
      <4>2. ASSUME NEW k \in hist.first .. hist.last - 1, hist.entries[k % Size] = c PROVE k = j
        <5>1. k \in 0 .. hist.last - 1 /\ hist.last - k <= Size - 1
          BY <1>1, <2>1 DEF Span, Ring
        <5>2. EntryOf(k) = c
          BY <4>2, <5>1 DEF HistInv, CommandsInSlots
        <5>3. k # 0 /\ typed[k] = c /\ ~\E m \in k + 1 .. n : typed[m] = c
          BY <1>4, <5>2 DEF EntryOf, Empty
        <5>4. k \in 1 .. n /\ j \in 1 .. n
          BY <1>1, <2>1, <2>4, <4>1, <5>1, <5>3
        <5>5. ~(k < j) /\ ~(j < k)
          <6>1. k < j => j \in k + 1 .. n
            BY <5>4
          <6>2. j < k => k \in j + 1 .. n
            BY <5>4
          <6> QED  BY <4>1, <5>3, <6>1, <6>2
        <5> QED  BY <5>4, <5>5
      <4>3. q.entries[j % Size] = Blank
        BY <1>1, <3>3, <3>4, <4>2, BlankFinds DEF q
      <4>4. EntryOf(j)' = Blank
        <5>1. n + 1 \in j + 1 .. Len(typed') /\ typed'[n + 1] = typed'[j]
          BY <2>1, <2>2, <2>4, <4>1
        <5> QED  BY <4>1, <5>1 DEF EntryOf
      <4> QED  BY <3>2, <4>3, <4>4
    <3>5. CASE hist.entries[j % Size] # c
      <4>1. q.entries[j % Size] = hist.entries[j % Size]
        BY <1>2, <3>1, <3>5
      <4>2. EntryOf(j)' = EntryOf(j)
        <5>1. CASE j = 0
          BY <5>1 DEF EntryOf
        <5>2. CASE j # 0 /\ \E k \in j + 1 .. n : typed[k] = typed[j]
          <6>1. PICK k \in j + 1 .. n : typed[k] = typed[j]
            BY <5>2
          <6>2. k \in j + 1 .. Len(typed') /\ typed'[k] = typed'[j]
            BY <2>1, <2>2, <2>4, <5>2, <6>1
          <6> QED  BY <5>2, <6>1, <6>2 DEF EntryOf
        <5>3. CASE j # 0 /\ ~\E k \in j + 1 .. n : typed[k] = typed[j]
          <6>1. EntryOf(j) = typed[j] /\ typed[j] # c
            BY <3>3, <3>5, <5>3 DEF EntryOf
          <6>2. typed'[j] = typed[j]
            BY <2>1, <2>2, <2>4, <5>3
          <6>3. ASSUME NEW k \in j + 1 .. n + 1 PROVE typed'[k] # typed'[j]
            <7>1. k = n + 1 \/ (k \in j + 1 .. n /\ k \in 1 .. n)
              BY <2>1, <2>4
            <7> QED  BY <2>2, <5>3, <6>1, <6>2, <7>1
          <6> QED  BY <2>2, <5>3, <6>1, <6>2, <6>3 DEF EntryOf
        <5> QED  BY <5>1, <5>2, <5>3
      <4> QED  BY <3>2, <3>3, <4>1, <4>2
    <3> QED  BY <3>4, <3>5
  <2> QED  BY <2>1, <2>3, <2>4
<1> QED  BY <1>3, <1>5, <1>6, <1>7, <1>9, <1>10, <1>11, <1>12, <1>13
         DEF HistInv, Entries, LiteralFreedOnLoop, BrowsesCommands

LEMMA BrowseKeepsHist ==
  ASSUME HistInv, Up \/ Down
  PROVE  HistInv'
<1>1. UNCHANGED <<hist, typed, literalFreed>>
  BY DEF Up, Down
<1>2. /\ hist \in Ring(Entries) /\ Span(hist) /\ BrowsesCommands
      /\ hist.last \in Nat /\ hist.first \in Nat /\ hist.last >= 1
      /\ hist.last > 1 => hist.entries[(hist.last - 1) % Size] \in Cmds
  BY LenProperties DEF HistInv, Entries, Ring, HistTypeOK
<1> DEFINE count == RingCount(hist)
<1>3. count = hist.last - hist.first /\ count \in 1 .. Size - 1 /\ Size \in Nat
  BY <1>2, CountIs, SizeAssumption DEF Least
<1>4. history_pos \in -1 .. count - 1
  BY <1>2 DEF BrowsesCommands
<1> HIDE DEF count
<1> SUFFICES /\ history_pos' \in -1 .. count - 1
             /\ history_pos' > 0 => RingPeek(hist, history_pos') \notin Empty
  BY <1>1 DEF HistInv, HistTypeOK, Span, LiteralFreedOnLoop, BrowsesCommands, RingPeek, RingCount, count,
              CommandsInSlots, EntryOf
<1>5. ASSUME history_pos' = count - 1
      PROVE  history_pos' > 0 => RingPeek(hist, history_pos') \notin Empty
  <2>1. hist.first + (count - 1) = hist.last - 1
    BY <1>2, <1>3
  <2>2. count > 1 => hist.last > 1
    BY <1>2, <1>3
  <2> QED  BY <1>2, <1>3, <1>5, <2>1, <2>2, HistoryAssumption DEF RingPeek
<1>6. ASSUME history_pos > 0, history_pos' = OlderFrom(history_pos - 1)
      PROVE  /\ history_pos' \in -1 .. count - 1
             /\ history_pos' > 0 => RingPeek(hist, history_pos') \notin Empty
  <2> DEFINE shown == {n \in 1 .. history_pos - 1 : RingPeek(hist, n) \notin Empty}
  <2>1. CASE shown = {}
    BY <1>3, <1>6, <2>1 DEF OlderFrom
  <2>2. CASE shown # {}
    <3>1. shown \in SUBSET (0 .. Size)
      BY <1>3, <1>4
    <3>2. \E n \in shown : \A m \in shown : m <= n
      <4> HIDE DEF shown
      <4> QED  BY <1>3, <2>2, <3>1, GreatestExists
    <3>3. history_pos' = CHOOSE n \in shown : \A m \in shown : m <= n
      BY <1>6, <2>2 DEF OlderFrom
    <3>4. history_pos' \in shown
      <4> HIDE DEF shown
      <4> QED  BY <3>2, <3>3
    <3> QED  BY <1>3, <1>4, <3>4
  <2> QED  BY <2>1, <2>2
<1>7. ASSUME history_pos # -1, history_pos' = NewerFrom(history_pos + 1)
      PROVE  /\ history_pos' \in -1 .. count - 1
             /\ history_pos' > 0 => RingPeek(hist, history_pos') \notin Empty
  <2> DEFINE shown == {n \in history_pos + 1 .. count - 1 : RingPeek(hist, n) \notin Empty}
  <2>1. CASE shown = {}
    BY <1>3, <1>7, <2>1 DEF NewerFrom, count
  <2>2. CASE shown # {}
    <3>1. shown \in SUBSET Nat
      BY <1>3, <1>4, <1>7
    <3>2. \E n \in shown : \A m \in shown : n <= m
      <4> HIDE DEF shown
      <4> QED  BY <2>2, <3>1, LeastExists
    <3>3. history_pos' = CHOOSE n \in shown : \A m \in shown : n <= m
      BY <1>7, <2>2 DEF NewerFrom, count
    <3>4. history_pos' \in shown
      <4> HIDE DEF shown
      <4> QED  BY <3>2, <3>3
    <3> QED  BY <1>3, <1>4, <1>7, <3>4
  <2> QED  BY <2>1, <2>2
<1>8. ASSUME UNCHANGED history_pos
      PROVE  /\ history_pos' \in -1 .. count - 1
             /\ history_pos' > 0 => RingPeek(hist, history_pos') \notin Empty
  BY <1>2, <1>4, <1>8 DEF BrowsesCommands
<1>9. CASE Up
  BY <1>3, <1>5, <1>6, <1>8, <1>9 DEF Up, count
<1>10. CASE Down
  BY <1>7, <1>8, <1>10 DEF Down
<1> QED  BY <1>9, <1>10
-----------------------------------------------------------------------------
(* The two together *)

\* The strengthened invariant of the console's log and history.
THEOREM ConsoleInvariant == Spec => []IInv
<1>1. Init => IInv
  BY LogInitially, HistInitially DEF Init, IInv
<1>2. IInv /\ [Next]_vars => IInv'
  <2> SUFFICES ASSUME IInv, [Next]_vars PROVE IInv'
    OBVIOUS
  <2>1. ASSUME UNCHANGED histVars PROVE HistInv'
    BY <2>1 DEF IInv, histVars, HistInv, HistTypeOK, Span, LiteralFreedOnLoop, BrowsesCommands,
                RingPeek, RingCount, CommandsInSlots, EntryOf
  <2>2. ASSUME NEW c \in Cmds, Confirm(c) PROVE IInv'
    BY <2>2, LogKept, RememberKeepsHist DEF Confirm, IInv
  <2>3. ASSUME RunClear \/ MenuClear \/ OtherLine PROVE IInv'
    BY <2>1, <2>3, LogKept DEF RunClear, MenuClear, OtherLine, IInv
  <2>4. ASSUME Browse PROVE IInv'
    BY <2>4, LogKept, BrowseKeepsHist DEF Browse, IInv
  <2>5. ASSUME UNCHANGED vars PROVE IInv'
    BY <2>1, <2>5, LogKept DEF vars, IInv
  <2> QED  BY <2>2, <2>3, <2>4, <2>5 DEF Next
<1> QED  BY <1>1, <1>2, PTL DEF Spec

LEMMA LatestShown == IInv => ShowsLatest
<1> SUFFICES ASSUME LogInv, ~freedTwice PROVE ShowsLatest
  BY DEF IInv, ShowsLatest
<1>1. /\ log \in Ring(Ptr \cup {Null}) /\ Span(log) /\ log.last = LinesSinceClear /\ LinesInSlots
      /\ log.first \in Nat /\ log.last \in Nat /\ printed \in Nat
  BY DEF LogInv, LogTypeOK
<1> DEFINE n == Least(LinesSinceClear, Size - 1)
<1>2. RingCount(log) = n /\ n = log.last - log.first /\ n \in 0 .. Size - 1
  BY <1>1, CountIs
<1> HIDE DEF n
<1>3. ASSUME NEW i \in 1 .. n
      PROVE  heap[Visited(log)[i]] = (printed - n) + i
  <2> DEFINE j == log.first + (i - 1)
  <2>1. Visited(log)[i] = log.entries[j % Size]
    BY <1>2, <1>3 DEF Visited, RingPeek
  <2>2. j \in 0 .. log.last - 1 /\ log.last - j <= Size
    BY <1>1, <1>2, <1>3, SizeAssumption
  <2>3. (printed - log.last) + j + 1 = (printed - n) + i
    BY <1>1, <1>2, <1>3
  <2> HIDE DEF j
  <2> QED  BY <1>1, <2>1, <2>2, <2>3 DEF LinesInSlots
<1> QED  BY <1>2, <1>3 DEF ShowsLatest, n

LEMMA HeapIsOwned == IInv => SlotsOwnHeap
<1> SUFFICES ASSUME LogInv PROVE SlotsOwnHeap
  BY DEF IInv
<1>1. ASSUME ~freedTwice
      PROVE  {p \in Ptr : heap[p] # Free} =
               {log.entries[s] : s \in {t \in Slot \ dangling : log.entries[t] # Null}}
  <2>1. \A p \in Ptr : heap[p] # Free <=> \E s \in Slot \ dangling : log.entries[s] = p
    BY <1>1 DEF LogInv, Owners
  <2>2. \A s \in Slot : log.entries[s] # Null => log.entries[s] \in Ptr
    BY DEF LogInv, Ring
  <2>3. Null \notin Ptr
    BY LogAssumption
  <2> QED  BY <2>1, <2>2, <2>3
<1>2. ASSUME ~freedTwice, NEW s \in Slot \ dangling, NEW t \in Slot \ dangling,
             s # t, log.entries[s] # Null
      PROVE  log.entries[s] # log.entries[t]
  BY <1>2 DEF LogInv, Owners
<1> QED  BY <1>1, <1>2 DEF SlotsOwnHeap, LogInv

\* The console shows the latest lines since the last clear, as many as fit, in their order,
\* and none that was freed (d3d_console_argb_vprintf, console_clear), whatever the heap
\* hands out; as long as nothing has been freed twice.
THEOREM LatestLinesShown == Spec => []ShowsLatest
BY ConsoleInvariant, LatestShown, PTL

\* No line leaks and no two slots own the same one (the same functions).
THEOREM LinesFreedInTurn == Spec => []SlotsOwnHeap
BY ConsoleInvariant, HeapIsOwned, PTL

\* The arrow keys stay inside the history and stop at no erased entry but the oldest
\* (console_text_cb).
THEOREM ArrowsFindCommands == Spec => []BrowsesCommands
<1>1. IInv => BrowsesCommands
  BY DEF IInv, HistInv
<1> QED  BY <1>1, ConsoleInvariant, PTL

LEMMA RecentOffered == HistInv => HistoryIsRecent
<1> SUFFICES ASSUME HistInv PROVE HistoryIsRecent
  OBVIOUS
<1> DEFINE n == Len(typed)
           V == Visited(hist)
           E == Cmds \cup Empty
<1>1. /\ HistTypeOK /\ hist \in Ring(Entries) /\ Span(hist) /\ hist.last = n + 1 /\ CommandsInSlots
      /\ typed \in Seq(Cmds) /\ n \in Nat /\ DOMAIN typed = 1 .. n
  BY LenProperties DEF HistInv, HistTypeOK, Entries
<1>2. hist.first \in Nat /\ hist.last \in Nat /\ Size \in Nat /\ Size >= 2
  BY <1>1, SizeAssumption DEF Ring
<1>3. RingCount(hist) = hist.last - hist.first
  BY <1>1, CountIs
<1>4. \A s \in Seq(Cmds) : LastUses(s) \in Seq(E) /\ Len(LastUses(s)) = Len(s)
  <2> SUFFICES ASSUME NEW s \in Seq(Cmds) PROVE LastUses(s) \in Seq(E) /\ Len(LastUses(s)) = Len(s)
    OBVIOUS
  <2>1. Len(s) \in Nat /\ DOMAIN s = 1 .. Len(s) /\ \A i \in 1 .. Len(s) : s[i] \in Cmds
    OBVIOUS
  <2>2. LastUses(s) \in [1 .. Len(s) -> E]
    BY <2>1 DEF LastUses, Empty
  <2> HIDE DEF E
  <2> QED  BY <2>1, <2>2
<1>5. ASSUME NEW i \in 1 .. RingCount(hist) PROVE V[i] = EntryOf((hist.first + i) - 1)
  <2> DEFINE j == hist.first + (i - 1)
  <2>1. V[i] = hist.entries[j % Size]
    BY DEF Visited, RingPeek
  <2>2. j \in 0 .. hist.last - 1 /\ hist.last - j <= Size - 1
    <3>1. i \in Nat /\ 1 <= i /\ i <= hist.last - hist.first
      BY <1>2, <1>3
    <3>2. hist.last - hist.first <= Size - 1
      BY <1>1, <1>2 DEF Span
    <3> QED  BY <1>2, <3>1, <3>2
  <2>3. j = (hist.first + i) - 1
    BY <1>2, <1>3
  <2> HIDE DEF j
  <2> QED  BY <1>1, <2>1, <2>2, <2>3 DEF CommandsInSlots
<1>6. V = [i \in 1 .. RingCount(hist) |-> EntryOf((hist.first + i) - 1)]
  BY <1>5 DEF Visited
<1> HIDE DEF V
<1>7. CASE n < Size - 1
  <2> DEFINE L == LastUses(typed)
             R == <<Literal>> \o L
  <2>1. L \in Seq(E) /\ Len(L) = n /\ <<Literal>> \in Seq(E) /\ Len(<<Literal>>) = 1
    BY <1>1, <1>4 DEF Empty
  <2>2. hist.first = 0 /\ RingCount(hist) = n + 1
    BY <1>1, <1>2, <1>3, <1>7 DEF Span
  <2>3. \A i \in 1 .. n : L[i] = EntryOf(i)
    <3> SUFFICES ASSUME NEW i \in 1 .. n PROVE L[i] = EntryOf(i)
      OBVIOUS
    <3>1. (\E k \in 1 .. n : k > i /\ typed[k] = typed[i]) <=> \E k \in i + 1 .. n : typed[k] = typed[i]
      BY <1>1
    <3> QED  BY <1>1, <3>1 DEF LastUses, EntryOf
  <2> HIDE DEF L
  <2>4. R \in Seq(E) /\ Len(R) = n + 1 /\ R[1] = Literal /\ \A i \in 2 .. n + 1 : R[i] = L[i - 1]
    BY <1>1, <2>1
  <2>5. ASSUME NEW i \in 1 .. n + 1 PROVE R[i] = EntryOf((0 + i) - 1)
    <3>1. CASE i = 1
      BY <2>4, <3>1 DEF EntryOf
    <3>2. CASE i # 1
      <4>1. i \in 2 .. n + 1 /\ i - 1 \in 1 .. n /\ (0 + i) - 1 = i - 1
        BY <1>1, <3>2
      <4> QED  BY <2>3, <2>4, <4>1
    <3> QED  BY <3>1, <3>2
  <2> HIDE DEF R
  <2>6. R = [i \in 1 .. n + 1 |-> R[i]]
    BY <2>4
  <2>7. R = V
    BY <1>6, <2>2, <2>5, <2>6
  <2> QED  BY <1>1, <1>7, <2>7 DEF HistoryIsRecent, Window, V, R, L
<1>8. CASE n >= Size - 1
  <2> DEFINE m == (n - Size) + 2
             W == SubSeq(typed, m, n)
             L == LastUses(W)
  <2>1. m \in 1 .. n + 1 /\ m \in Nat /\ (n - m) + 1 = Size - 1
    BY <1>1, <1>2, <1>8
  <2>2. W \in Seq(Cmds) /\ Len(W) = Size - 1 /\ \A i \in 1 .. Size - 1 : W[i] = typed[(m + i) - 1]
    <3> HIDE DEF m
    <3>1. m \in Nat /\ n \in Nat /\ m >= 1 /\ m <= n + 1
      BY <1>1, <2>1
    <3>2. W \in Seq(Cmds) /\ Len(W) = IF m <= n THEN (n - m) + 1 ELSE 0
      BY <1>1, <3>1, SubSeqProperties
    <3>3. m <= n
      BY <1>2, <2>1, <3>1
    <3>4. \A i \in 1 .. (n - m) + 1 : W[i] = typed[(m + i) - 1]
      BY <1>1, <3>1, <3>3, SubSeqProperties
    <3> QED  BY <2>1, <3>2, <3>3, <3>4
  <2>3. L \in Seq(E) /\ Len(L) = Size - 1 /\ DOMAIN W = 1 .. Size - 1
    <3> HIDE DEF W, E
    <3> QED  BY <1>4, <2>2
  <2>4. hist.first = m /\ RingCount(hist) = Size - 1
    BY <1>1, <1>2, <1>3, <1>8 DEF Span
  <2>5. ASSUME NEW i \in 1 .. Size - 1 PROVE L[i] = EntryOf((m + i) - 1)
    <3> DEFINE j == (m + i) - 1
    <3>1. j \in 1 .. n /\ j # 0
      BY <1>1, <1>2, <2>1
    <3>2. L[i] = IF \E k \in 1 .. Size - 1 : k > i /\ W[k] = W[i] THEN Blank ELSE W[i]
      BY <2>3 DEF LastUses
    <3>3. (\E k \in 1 .. Size - 1 : k > i /\ W[k] = W[i]) <=> \E k \in j + 1 .. n : typed[k] = typed[j]
      <4>1. ASSUME NEW k \in 1 .. Size - 1, k > i, W[k] = W[i] PROVE \E l \in j + 1 .. n : typed[l] = typed[j]
        <5>1. (m + k) - 1 \in j + 1 .. n
          <6> HIDE DEF m, W
          <6> QED  BY <1>1, <1>2, <2>1, <4>1
        <5>2. typed[(m + k) - 1] = typed[j]
          BY <2>2, <4>1
        <5> QED  BY <5>1, <5>2
      <4>2. ASSUME NEW l \in j + 1 .. n, typed[l] = typed[j] PROVE \E k \in 1 .. Size - 1 : k > i /\ W[k] = W[i]
        <5> DEFINE k == (l - m) + 1
        <5>1. k \in 1 .. Size - 1 /\ k > i /\ (m + k) - 1 = l
          <6> HIDE DEF m, W
          <6> QED  BY <1>1, <1>2, <2>1
        <5>2. W[k] = W[i]
          <6> HIDE DEF m, W, k
          <6> QED  BY <2>2, <4>2, <5>1
        <5> QED  BY <5>1, <5>2
      <4> QED  BY <4>1, <4>2
    <3>4. W[i] = typed[j]
      BY <2>2
    <3> HIDE DEF W, m, L
    <3> QED  BY <3>1, <3>2, <3>3, <3>4 DEF EntryOf
  <2> HIDE DEF m, W, L
  <2>6. L = [i \in 1 .. Size - 1 |-> L[i]]
    BY <1>2, <2>3
  <2>7. L = V
    BY <1>6, <2>4, <2>5, <2>6
  <2>8. <<>> \o L = L
    BY <2>3
  <2>9. Window = W /\ ~(n < Size - 1)
    BY <1>1, <1>2, <1>8 DEF Window, W, m
  <2> QED  BY <1>1, <2>7, <2>8, <2>9 DEF HistoryIsRecent, V, L
<1> QED  BY <1>1, <1>2, <1>7, <1>8

\* What the arrow keys and "history" offer is each of the last Size - 1 commands once, in
\* the order of their last use (console_exec_cmd), for every Size and number of commands.
THEOREM HistoryOffersRecent == Spec => []HistoryIsRecent
<1>1. IInv => HistoryIsRecent
  BY RecentOffered DEF IInv
<1> QED  BY <1>1, ConsoleInvariant, PTL

\* The string literal that the history starts with is passed to free by the command that
\* takes its slot again, and by no earlier one (console_init, console_exec_cmd).
THEOREM LiteralIsFreed == Spec => []LiteralFreedOnLoop
<1>1. IInv => LiteralFreedOnLoop
  BY DEF IInv, HistInv
<1> QED  BY <1>1, ConsoleInvariant, PTL
=============================================================================
