--------------------------- MODULE OverwriteRing ----------------------------
(***************************************************************************)
(* The overwriting ring of common.c and common.h that holds the console's  *)
(* lines and its command history, as operators on a record.  first_idx and *)
(* last_idx run freely; an index mod the size is a slot.                   *)
(***************************************************************************)
EXTENDS Integers, Sequences

CONSTANTS
  Size,      \* slots of a ring, 512 in the build
  Null       \* an empty slot

ASSUME SizeAssumption == Size \in Nat /\ Size >= 2

Slot == 0 .. Size - 1

\* ring_buffer_alloc
EmptyRing == [first |-> 0, last |-> 0, entries |-> [s \in Slot |-> Null]]

\* What a push finds in its slot, and hands back to be freed.
PushPrev(r) == r.entries[r.last % Size]

\* Seeded fault: it replaces the definition of the same stem when the properties
\* are tested for being able to fail.
RingPush_short(r, e) ==
  [first   |-> IF (r.last + 1) % Size = r.first % Size THEN r.first + 1 ELSE r.first,
   last    |-> r.last + 1,
   entries |-> [r.entries EXCEPT ![r.last % (Size - 1)] = e]]

\* The slot after the pushed entry is never part of the ring: an entry that sits
\* there drops out of it, and is overwritten by the next push.
RingPush(r, e) ==
  [first   |-> IF (r.last + 1) % Size = r.first % Size THEN r.first + 1 ELSE r.first,
   last    |-> r.last + 1,
   entries |-> [r.entries EXCEPT ![r.last % Size] = e]]

RingCount(r) == (r.last - r.first) % Size
RingPeek(r, off) == r.entries[(r.first + off) % Size]

\* What RING_BUFFER_FOREACH visits, oldest first.
Visited(r) == [i \in 1 .. RingCount(r) |-> RingPeek(r, i - 1)]
=============================================================================
