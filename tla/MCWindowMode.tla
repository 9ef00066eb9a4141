---------------------------- MODULE MCWindowMode ----------------------------
(* A window near the screen's edge; what the settings window asks for: its *)
(* combo box sets two variables, other widgets and a revert one each.      *)
EXTENDS WindowMode

MCRects == {[x |-> 1, w |-> 3, h |-> 3]}

MCBorder == [x |-> 1, w |-> 2, h |-> 1]

Set(v, x) == [var |-> v, val |-> x]

MCCommands ==
  {<<Set("full", m), Set("borderless", m)>> : m \in {0, 1}} \cup
  {<<Set("x", 2)>>, <<Set("w", 3), Set("h", 1)>>}
=============================================================================
