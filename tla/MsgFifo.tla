------------------------------ MODULE MsgFifo -------------------------------
(***************************************************************************)
(* What a thread message queue promises its two threads: a bounded FIFO    *)
(* with one writing and one reading thread.  A push of a queue that holds  *)
(* Size messages is refused with -ENOSPC, a pop of an empty queue returns  *)
(* NULL, and between its call and its return every operation takes effect  *)
(* at one instant.  SpScRing implements this specification.                *)
(***************************************************************************)
EXTENDS Naturals, Sequences

CONSTANTS
  Values,   \* the messages (pointers to a struct thread_msg_ctx)
  NoMsg,    \* what a pop returns when the queue is empty; not a message
  Size      \* how many messages the queue holds

VARIABLES
  queue,    \* the messages accepted and not yet taken, oldest first
  wr,       \* what the writing thread is doing
  rd        \* what the reading thread is doing

fvars == <<queue, wr, rd>>

Ready      == <<"ready">>
Calling(x) == <<"call", x>>
Returns(x) == <<"ret", x>>

PushResult == {"0", "ENOSPC"}

FifoInit == queue = <<>> /\ wr = Ready /\ rd = Ready
-----------------------------------------------------------------------------
CallPush(v) ==
  /\ wr = Ready
  /\ wr' = Calling(v)
  /\ UNCHANGED <<queue, rd>>

DoPush(v) ==
  /\ wr = Calling(v)
  /\ Len(queue) < Size
  /\ queue' = Append(queue, v)
  /\ wr' = Returns("0")
  /\ UNCHANGED rd

RefusePush(v) ==
  /\ wr = Calling(v)
  /\ Len(queue) = Size
  /\ wr' = Returns("ENOSPC")
  /\ UNCHANGED <<queue, rd>>

ReturnPush ==
  /\ wr \in {Returns(r) : r \in PushResult}
  /\ wr' = Ready
  /\ UNCHANGED <<queue, rd>>

CallPop ==
  /\ rd = Ready
  /\ rd' = Calling(NoMsg)
  /\ UNCHANGED <<queue, wr>>

DoPop ==
  /\ rd = Calling(NoMsg)
  /\ queue # <<>>
  /\ queue' = Tail(queue)
  /\ rd' = Returns(Head(queue))
  /\ UNCHANGED wr

DoPopNothing ==
  /\ rd = Calling(NoMsg)
  /\ queue = <<>>
  /\ rd' = Returns(NoMsg)
  /\ UNCHANGED <<queue, wr>>

ReturnPop ==
  /\ rd \in {Returns(v) : v \in Values \cup {NoMsg}}
  /\ rd' = Ready
  /\ UNCHANGED <<queue, wr>>

FifoNext ==
  \/ \E v \in Values : CallPush(v) \/ DoPush(v) \/ RefusePush(v)
  \/ ReturnPush \/ CallPop \/ DoPop \/ DoPopNothing \/ ReturnPop

FifoSpec == FifoInit /\ [][FifoNext]_fvars
=============================================================================
