------------------------------ MODULE Console ------------------------------
(***************************************************************************)
(* The console's log and its command history together.  Confirming a line  *)
(* on the render thread echoes it to the log and remembers it in the       *)
(* history; "clear" then empties the log, in a step of its own since the   *)
(* game's thread and the window's may log in between.  Both rings have the *)
(* same size.  Commands that go to the game thread are in ConsoleQueues:   *)
(* whatever they print is a line of some thread here.                      *)
(***************************************************************************)
EXTENDS ConsoleLog, ConsoleHistory

CONSTANT ClearCmd   \* the command "clear"

ASSUME ConsoleAssumption == ClearCmd \in Cmds

VARIABLE clearing   \* the render thread is about to run "clear"

vars == <<logVars, histVars, clearing>>

Init == LogInit /\ HistInit /\ clearing = FALSE

\* console_exec_cmd up to the tests for "clear", "help" and "history".
Confirm(c) ==
  /\ ~clearing /\ clearing' = (c = ClearCmd)
  /\ LogLine /\ Remember(c)

RunClear ==
  /\ clearing /\ clearing' = FALSE
  /\ Clear /\ UNCHANGED histVars

\* The context menu's entry.
MenuClear ==
  /\ ~clearing /\ Clear
  /\ UNCHANGED <<histVars, clearing>>

\* Any thread logs, also the render thread for a response, "help" or "history".
OtherLine == LogLine /\ UNCHANGED <<histVars, clearing>>

Browse ==
  /\ ~clearing /\ (Up \/ Down)
  /\ UNCHANGED <<logVars, clearing>>

Next == (\E c \in Cmds : Confirm(c)) \/ RunClear \/ MenuClear \/ OtherLine \/ Browse

Spec == Init /\ [][Next]_vars
=============================================================================
