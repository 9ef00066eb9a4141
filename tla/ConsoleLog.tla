----------------------------- MODULE ConsoleLog -----------------------------
(***************************************************************************)
(* The lines of the in-game console: every pw_log of the hook, the game's  *)
(* own log and the console's echoes and responses are copied to the heap   *)
(* and pushed to an overwriting ring; the line a push hands back is freed. *)
(* "clear" frees the visible lines and rewinds the ring, but leaves their  *)
(* pointers in the slots.                                                  *)
(*                                                                         *)
(* The allocator may give any free address to the next line.  The threads  *)
(* that log are taken one print at a time.                                 *)
(***************************************************************************)
EXTENDS OverwriteRing, FiniteSets

CONSTANTS
  Ptr,        \* heap addresses
  Free,       \* the content of an address that is not allocated
  MaxPrints   \* bound on the lines printed

ASSUME LogAssumption == Null \notin Ptr /\ Free \notin Nat /\ MaxPrints \in Nat

VARIABLES
  log,        \* g_console.log
  heap,       \* the number of the line each allocated address holds
  printed,    \* history: lines printed so far
  cleared,    \* history: lines printed before the last clear, or -1
  dangling,   \* history: slots whose pointer the last clears have freed
  freedTwice  \* history: a pointer that had been freed was freed again

logVars == <<log, heap, printed, cleared, dangling, freedTwice>>

LogInit ==
  /\ log = EmptyRing /\ heap = [p \in Ptr |-> Free]
  /\ printed = 0 /\ cleared = -1
  /\ dangling = {} /\ freedTwice = FALSE
-----------------------------------------------------------------------------
\* Seeded fault: the line handed back is not freed.
LogLine_no_free ==
  /\ ~freedTwice /\ printed < MaxPrints
  /\ \E p \in {q \in Ptr : heap[q] = Free} :
       /\ log' = RingPush(log, p)
       /\ heap' = [heap EXCEPT ![p] = printed + 1]
  /\ freedTwice' = FALSE
  /\ dangling' = dangling \ {log.last % Size}
  /\ printed' = printed + 1
  /\ UNCHANGED cleared

\* d3d_console_argb_vprintf.  A pointer freed twice leaves the heap in no state to
\* speak of, so nothing is said of what follows.
LogLine ==
  /\ ~freedTwice /\ printed < MaxPrints
  /\ \E p \in {q \in Ptr : heap[q] = Free} :
       /\ log' = RingPush(log, p)
       /\ heap' = [q \in Ptr |-> IF q = PushPrev(log) THEN Free
                                 ELSE IF q = p THEN printed + 1 ELSE heap[q]]
  /\ freedTwice' = (log.last % Size \in dangling)
  /\ dangling' = dangling \ {log.last % Size}
  /\ printed' = printed + 1
  /\ UNCHANGED cleared

ClearedSlots == {(log.first + i) % Size : i \in 0 .. RingCount(log) - 1}

\* Seeded fault: only one end of the ring is rewound.
Clear_rewind_only ==
  /\ ~freedTwice
  /\ heap' = [p \in Ptr |-> IF \E s \in ClearedSlots : log.entries[s] = p THEN Free ELSE heap[p]]
  /\ log' = [log EXCEPT !.last = 0]
  /\ dangling' = dangling \cup ClearedSlots
  /\ cleared' = printed
  /\ UNCHANGED <<printed, freedTwice>>

\* console_clear: "clear" on the command line or in the console's context menu.
Clear ==
  /\ ~freedTwice
  /\ heap' = [p \in Ptr |-> IF \E s \in ClearedSlots : log.entries[s] = p THEN Free ELSE heap[p]]
  /\ log' = [log EXCEPT !.first = 0, !.last = 0]
  /\ dangling' = dangling \cup ClearedSlots
  /\ cleared' = printed
  /\ UNCHANGED <<printed, freedTwice>>
-----------------------------------------------------------------------------
(* Properties *)

LogTypeOK ==
  /\ log.first \in Nat /\ log.last \in Nat
  /\ log.entries \in [Slot -> Ptr \cup {Null}]
  /\ heap \in [Ptr -> (1 .. MaxPrints) \cup {Free}]
  /\ printed \in 0 .. MaxPrints /\ cleared \in -1 .. printed
  /\ dangling \subseteq Slot /\ freedTwice \in BOOLEAN

LinesSinceClear == IF cleared = -1 THEN printed ELSE printed - cleared
Least(a, b) == IF a < b THEN a ELSE b

\* The console shows the latest lines since the last clear in the order they were
\* printed, as many of them as fit, and every line it shows is still allocated.
ShowsLatest ==
  ~freedTwice =>
    LET n == Least(LinesSinceClear, Size - 1)
    IN  /\ RingCount(log) = n
        /\ \A i \in 1 .. n : heap[Visited(log)[i]] = printed - n + i

\* Each line is freed exactly when its slot is taken again, or by a clear: what is
\* allocated is what the slots hold, less the pointers a clear has left behind.
SlotsOwnHeap ==
  /\ LogTypeOK
  /\ ~freedTwice =>
       /\ {p \in Ptr : heap[p] # Free} =
            {log.entries[s] : s \in {t \in Slot \ dangling : log.entries[t] # Null}}
       /\ \A s, t \in Slot \ dangling :
            s # t /\ log.entries[s] # Null => log.entries[s] # log.entries[t]
=============================================================================
