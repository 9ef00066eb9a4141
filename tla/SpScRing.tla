------------------------------ MODULE SpScRing ------------------------------
(***************************************************************************)
(* The single-producer single-consumer ring of common.c that carries the   *)
(* thread messages: the render thread posts to the game thread through one *)
(* and the game thread back through another.  The two threads share head,  *)
(* tail and buf and take no lock, so a step here is one access to shared   *)
(* memory, in program order (the compiler barriers and x86's ordering of   *)
(* loads with loads and stores with stores keep it).                       *)
(*                                                                         *)
(* head and tail are free-running unsigned counters: they wrap at W (2^32  *)
(* in the build), never at the ring's size.                                *)
(***************************************************************************)
EXTENDS Naturals, Sequences

CONSTANTS
  Values,    \* the messages
  NoMsg,     \* NULL
  Size,      \* slots of the ring, 32 in the build
  W,         \* the counters' modulus, 2^32 in the build
  MaxPosts   \* bound on the number of accepted messages

\* The mask (size - 1) selects a slot only if the size divides the modulus, and a
\* full ring is told from an empty one only if the size is less than the modulus.
ASSUME RingAssumption ==
  /\ Size \in Nat \ {0} /\ W \in Nat /\ MaxPosts \in Nat
  /\ Size < W /\ W % Size = 0
  /\ NoMsg \notin Values

VARIABLES
  head,      \* next slot to write; stored by the producer only
  tail,      \* next slot to read; stored by the consumer only
  buf,       \* the slots
  push,      \* the producer's call: at (its next step), val, head, tail, rc
  pop,       \* the consumer's call: at, head, tail, ret
  sent,      \* history: the messages accepted, in order
  rcvd       \* history: the messages taken, in order

vars == <<head, tail, buf, push, pop, sent, rcvd>>

Counter == 0 .. W - 1
Slot    == 0 .. Size - 1

\* Seeded faults: each replaces the definition of the same stem when the
\* properties are tested for being able to fail.
FreeCount_plus1(h, t) == (Size + 1 + t + (W - h)) % W
AvailCount_by_slot(h, t) == (t + (W - h)) % Size
FreeCount_spare(h, t) == IF (t + (W - h)) % W = W - Size + 1 THEN 0 ELSE (Size + t + (W - h)) % W

SlotOf(c) == c % Size                              \* c & (ring->size - 1)
FreeCount(h, t)  == (Size + t + (W - h)) % W       \* (uint32_t)(size + tail - head)
AvailCount(h, t) == (t + (W - h)) % W              \* (uint32_t)(tail - head)

PushAt == {"idle", "read_head", "read_tail", "check", "publish", "return"}
PopAt  == {"idle", "read_tail", "read_head", "check", "retire", "return"}

Init ==
  /\ head = 0 /\ tail = 0
  /\ buf = [s \in Slot |-> NoMsg]
  /\ push = [at |-> "idle", val |-> NoMsg, head |-> 0, tail |-> 0, rc |-> "0"]
  /\ pop = [at |-> "idle", head |-> 0, tail |-> 0, ret |-> NoMsg]
  /\ sent = <<>> /\ rcvd = <<>>
-----------------------------------------------------------------------------
(* ring_buffer_sp_sc_push, called by the one producing thread *)

PushCall(v) ==
  /\ push.at = "idle"
  /\ Len(sent) < MaxPosts
  /\ push' = [push EXCEPT !.at = "read_head", !.val = v]
  /\ UNCHANGED <<head, tail, buf, pop, sent, rcvd>>

PushReadHead ==
  /\ push.at = "read_head"
  /\ push' = [push EXCEPT !.at = "read_tail", !.head = head]
  /\ UNCHANGED <<head, tail, buf, pop, sent, rcvd>>

PushReadTail ==
  /\ push.at = "read_tail"
  /\ push' = [push EXCEPT !.at = "check", !.tail = tail]
  /\ UNCHANGED <<head, tail, buf, pop, sent, rcvd>>

PushHasRoom == FreeCount(push.head, push.tail) # 0

PushRefused ==
  /\ push.at = "check" /\ ~PushHasRoom
  /\ push' = [push EXCEPT !.at = "return", !.rc = "ENOSPC"]
  /\ UNCHANGED <<head, tail, buf, pop, sent, rcvd>>

PushStoreSlot ==
  /\ push.at = "check" /\ PushHasRoom
  /\ buf' = [buf EXCEPT ![SlotOf(push.head)] = push.val]
  /\ push' = [push EXCEPT !.at = "publish"]
  /\ UNCHANGED <<head, tail, pop, sent, rcvd>>

PushPublish ==
  /\ push.at = "publish"
  /\ head' = (push.head + 1) % W
  /\ push' = [push EXCEPT !.at = "return", !.rc = "0"]
  /\ sent' = Append(sent, push.val)
  /\ UNCHANGED <<tail, buf, pop, rcvd>>

PushReturn ==
  /\ push.at = "return"
  /\ push' = [push EXCEPT !.at = "idle"]
  /\ UNCHANGED <<head, tail, buf, pop, sent, rcvd>>

Producer ==
  \/ PushReadHead \/ PushReadTail \/ PushRefused
  \/ PushStoreSlot \/ PushPublish \/ PushReturn
-----------------------------------------------------------------------------
(* ring_buffer_sp_sc_pop, called once per game tick or per rendered frame *)

PopCall ==
  /\ pop.at = "idle"
  /\ pop' = [pop EXCEPT !.at = "read_tail"]
  /\ UNCHANGED <<head, tail, buf, push, sent, rcvd>>

PopReadTail ==
  /\ pop.at = "read_tail"
  /\ pop' = [pop EXCEPT !.at = "read_head", !.tail = tail]
  /\ UNCHANGED <<head, tail, buf, push, sent, rcvd>>

PopReadHead ==
  /\ pop.at = "read_head"
  /\ pop' = [pop EXCEPT !.at = "check", !.head = head]
  /\ UNCHANGED <<head, tail, buf, push, sent, rcvd>>

PopHasMsg == AvailCount(pop.head, pop.tail) # 0

PopNothing ==
  /\ pop.at = "check" /\ ~PopHasMsg
  /\ pop' = [pop EXCEPT !.at = "return", !.ret = NoMsg]
  /\ UNCHANGED <<head, tail, buf, push, sent, rcvd>>

PopLoadSlot ==
  /\ pop.at = "check" /\ PopHasMsg
  /\ pop' = [pop EXCEPT !.at = "retire", !.ret = buf[SlotOf(pop.tail)]]
  /\ UNCHANGED <<head, tail, buf, push, sent, rcvd>>

PopRetire ==
  /\ pop.at = "retire"
  /\ tail' = (pop.tail + 1) % W
  /\ pop' = [pop EXCEPT !.at = "return"]
  /\ rcvd' = Append(rcvd, pop.ret)
  /\ UNCHANGED <<head, buf, push, sent>>

PopReturn ==
  /\ pop.at = "return"
  /\ pop' = [pop EXCEPT !.at = "idle"]
  /\ UNCHANGED <<head, tail, buf, push, sent, rcvd>>

Consumer ==
  \/ PopCall \/ PopReadTail \/ PopReadHead \/ PopNothing
  \/ PopLoadSlot \/ PopRetire \/ PopReturn

Next == (\E v \in Values : PushCall(v)) \/ Producer \/ Consumer

Spec == Init /\ [][Next]_vars

\* A thread that has entered the call leaves it, and the reading thread polls on
\* every tick; nothing makes the producer post.
FairSpec == Spec /\ WF_vars(Producer) /\ WF_vars(Consumer)
-----------------------------------------------------------------------------
(* Properties *)

TypeOK ==
  /\ head \in Counter /\ tail \in Counter
  /\ buf \in [Slot -> Values \cup {NoMsg}]
  /\ push \in [at : PushAt, val : Values \cup {NoMsg}, head : Counter,
               tail : Counter, rc : {"0", "ENOSPC"}]
  /\ pop \in [at : PopAt, head : Counter, tail : Counter, ret : Values \cup {NoMsg}]
  /\ sent \in Seq(Values) /\ rcvd \in Seq(Values \cup {NoMsg})

\* Nothing is lost, duplicated, reordered or made up: what the consumer has taken
\* is the beginning of what the producer had accepted, across any number of
\* wrap-arounds of the counters and of the slots.
InOrder ==
  /\ Len(rcvd) <= Len(sent)
  /\ \A i \in 1 .. Len(rcvd) : rcvd[i] = sent[i]

\* Between publication and retirement a message stays untouched in its slot, and
\* there are never more such messages than slots.
LiveSlots ==
  /\ Len(sent) - Len(rcvd) \in 0 .. Size
  /\ \A i \in Len(rcvd) .. Len(sent) - 1 : buf[i % Size] = sent[i + 1]

\* The unlocked accesses never race: while the producer may store a slot, the
\* consumer is not about to load that same slot, although both decide from a
\* head or a tail that may be stale by then.
SlotExclusive ==
  (push.at = "check" /\ PushHasRoom /\ pop.at = "check" /\ PopHasMsg)
    => SlotOf(push.head) # SlotOf(pop.tail)

\* Each call takes effect at one instant between its call and its return: a push
\* at the store of head, or, refused, at the load of tail; a pop at the store of
\* tail, or, empty-handed, at the load of head.  In particular -ENOSPC is returned
\* only if the ring held Size messages at some instant of the call.
InFlight == SubSeq(sent, Len(rcvd) + 1, Len(sent))

WriterState ==
  CASE push.at = "idle" -> <<"ready">>
    [] push.at = "return" -> <<"ret", push.rc>>
    [] push.at = "check" /\ ~PushHasRoom -> <<"ret", "ENOSPC">>
    [] OTHER -> <<"call", push.val>>

ReaderState ==
  CASE pop.at = "idle" -> <<"ready">>
    [] pop.at = "return" -> <<"ret", pop.ret>>
    [] pop.at = "check" /\ ~PopHasMsg -> <<"ret", NoMsg>>
    [] OTHER -> <<"call", NoMsg>>

Fifo == INSTANCE MsgFifo WITH queue <- InFlight, wr <- WriterState, rd <- ReaderState
FifoRefinement == Fifo!FifoSpec

\* Every message the ring accepted is eventually taken, as long as the reading
\* thread keeps ticking.
AllDelivered == \A n \in 1 .. MaxPosts : (Len(sent) >= n) ~> (Len(rcvd) >= n)
-----------------------------------------------------------------------------
(* The inductive invariant behind these properties *)

\* The shared counters are the numbers of accepted and taken messages, mod W.
Counters == head = Len(sent) % W /\ tail = Len(rcvd) % W

\* The producer's copy of head is exact, its copy of tail is a past value, at most
\* Size behind: room it sees is really there, though there may be more by now.
ProducerView ==
  /\ push.at # "idle" => push.val \in Values
  /\ push.at \in {"read_tail", "check", "publish"} => push.head = head
  /\ push.at = "check" =>
       \E k \in 0 .. Len(rcvd) : push.tail = k % W /\ Len(sent) - k \in 0 .. Size
  /\ push.at = "publish" =>
       /\ Len(sent) - Len(rcvd) < Size
       /\ buf[Len(sent) % Size] = push.val

\* The consumer's copy of tail is exact, its copy of head is a past value, not
\* behind tail: messages it sees are really there, and the one it holds is next.
ConsumerView ==
  /\ pop.at \in {"read_head", "check", "retire"} => pop.tail = tail
  /\ pop.at = "check" =>
       \E k \in Len(rcvd) .. Len(sent) : pop.head = k % W
  /\ pop.at = "retire" =>
       /\ Len(rcvd) < Len(sent)
       /\ pop.ret = sent[Len(rcvd) + 1]

IInv == TypeOK /\ Counters /\ LiveSlots /\ InOrder /\ ProducerView /\ ConsumerView
=============================================================================
