--------------------------- MODULE ConsoleHistory ---------------------------
(***************************************************************************)
(* The console's command history and the arrow keys that browse it.  A     *)
(* confirmed command is pushed to an overwriting ring; an older entry with *)
(* the same text is not removed but blanked in place, and the arrow keys   *)
(* step over blanks.  The first entry is the string literal "".            *)
(*                                                                         *)
(* Only the render thread touches the history.  Commands that differ in    *)
(* case are the same command here, as they are for the history.            *)
(***************************************************************************)
EXTENDS OverwriteRing, SequencesExt

CONSTANTS
  Cmds,       \* the commands the user may type, none of them empty
  MaxCmds     \* bound on the commands typed

Blank   == "blank"      \* a heap string whose text was erased
Literal == "literal"    \* the first entry, the empty string literal
Empty   == {Blank, Literal}

ASSUME HistoryAssumption ==
  Empty \cap Cmds = {} /\ Null \notin Cmds \cup Empty /\ MaxCmds \in Nat

VARIABLES
  hist,         \* g_console.cmd_history; an entry is its text
  history_pos,  \* -1: a new line; else the entry being browsed
  typed,        \* history: the commands confirmed, in order
  literalFreed  \* history: free() was given the literal

histVars == <<hist, history_pos, typed, literalFreed>>

\* console_init
HistInit ==
  /\ hist = RingPush(EmptyRing, Literal)
  /\ history_pos = -1
  /\ typed = <<>> /\ literalFreed = FALSE
-----------------------------------------------------------------------------
(* The history's part of console_exec_cmd *)

\* The latest entry with that text.
Matches(r, c) == {i \in 0 .. RingCount(r) - 1 : RingPeek(r, i) = c}

\* Seeded faults (also below): each replaces the definition of the same stem when
\* the properties are tested for being able to fail.
BlankMatch_newest_only(r, c) ==
  IF RingCount(r) = 0 \/ RingPeek(r, RingCount(r) - 1) # c THEN r
  ELSE [r EXCEPT !.entries[(r.first + RingCount(r) - 1) % Size] = Blank]

BlankMatch(r, c) ==
  IF Matches(r, c) = {} THEN r
  ELSE LET i == CHOOSE n \in Matches(r, c) : \A m \in Matches(r, c) : m <= n
       IN  [r EXCEPT !.entries[(r.first + i) % Size] = Blank]

Remember_keep_pos(c) ==
  /\ Len(typed) < MaxCmds
  /\ hist' = RingPush(BlankMatch(hist, c), c)
  /\ literalFreed' = (literalFreed \/ PushPrev(hist) = Literal)
  /\ typed' = Append(typed, c)
  /\ UNCHANGED history_pos

Remember(c) ==
  /\ Len(typed) < MaxCmds
  /\ history_pos' = -1
  /\ hist' = RingPush(BlankMatch(hist, c), c)
  /\ literalFreed' = (literalFreed \/ PushPrev(hist) = Literal)
  /\ typed' = Append(typed, c)
-----------------------------------------------------------------------------
(* console_text_cb, ImGuiInputTextFlags_CallbackHistory *)

\* From position i toward older entries, the first that is not blank, or entry 0.
OlderFrom(i) ==
  LET shown == {n \in 1 .. i : RingPeek(hist, n) \notin Empty}
  IN  IF shown = {} THEN 0 ELSE CHOOSE n \in shown : \A m \in shown : m <= n

\* From position i toward newer entries, the first that is not blank, or a new line.
NewerFrom(i) ==
  LET shown == {n \in i .. RingCount(hist) - 1 : RingPeek(hist, n) \notin Empty}
  IN  IF shown = {} THEN -1 ELSE CHOOSE n \in shown : \A m \in shown : n <= m

Up ==
  /\ \/ history_pos = -1 /\ history_pos' = RingCount(hist) - 1
     \/ history_pos > 0 /\ history_pos' = OlderFrom(history_pos - 1)
     \/ history_pos = 0 /\ UNCHANGED history_pos
  /\ UNCHANGED <<hist, typed, literalFreed>>

Down ==
  /\ \/ history_pos # -1 /\ history_pos' = NewerFrom(history_pos + 1)
     \/ history_pos = -1 /\ UNCHANGED history_pos
  /\ UNCHANGED <<hist, typed, literalFreed>>
-----------------------------------------------------------------------------
(* Properties *)

HistTypeOK ==
  /\ hist.entries \in [Slot -> Cmds \cup Empty \cup {Null}]
  /\ literalFreed \in BOOLEAN
  /\ typed \in Seq(Cmds) /\ Len(typed) <= MaxCmds

\* The position is that of an entry of the history, though the ring may shift under it, or
\* -1 for a new line; browsing never stops at a blanked entry, except at the very oldest.
BrowsesCommands ==
  /\ history_pos \in -1 .. RingCount(hist) - 1
  /\ history_pos > 0 => RingPeek(hist, history_pos) \notin Empty

\* The last Size - 1 commands typed, ...
Window == IF Len(typed) < Size - 1 THEN typed
          ELSE SubSeq(typed, Len(typed) - Size + 2, Len(typed))

\* ... each once, at the place of its last use.
LastUses(s) == [i \in DOMAIN s |-> IF \E j \in DOMAIN s : j > i /\ s[j] = s[i] THEN Blank ELSE s[i]]

\* What the history offers is every command among the last ones typed, without
\* repetition and ordered by last use, however the ring has wrapped and blanked; the
\* literal comes before them while there is a place for it.
HistoryIsRecent ==
  /\ HistTypeOK
  /\ Visited(hist) = (IF Len(typed) < Size - 1 THEN <<Literal>> ELSE <<>>) \o LastUses(Window)

\* The literal "" is handed to free() when the ring comes round to its slot, by the
\* Size-th command and not before.
LiteralFreedOnLoop == literalFreed <=> Len(typed) >= Size
=============================================================================
