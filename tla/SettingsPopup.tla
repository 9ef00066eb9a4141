--------------------------- MODULE SettingsPopup ---------------------------
(***************************************************************************)
(* The "Hotkeys" tab of the settings window (win_settings.cpp) on top of   *)
(* the hotkey table.  The render thread draws a button for each of the two *)
(* hotkeys an action may have; a click opens the pop-up, which listens for *)
(* a key.  Keys arrive on the window's thread, which shares the pop-up's   *)
(* variables with it without a lock.  Meanwhile the game's thread may run  *)
(* a "bind" command typed before.                                          *)
(***************************************************************************)
EXTENDS Hotkeys

Row    == Actions \ {None}    \* the actions that have a row in the table
Button == {0, 1}
Empty  == <<>>                \* str, cleared; also one with modifiers only

VARIABLES
  open,         \* the pop-up is open (Dear ImGui)
  action_id,    \* g_setting_action_id
  button_no,    \* clicked_button_no
  listening, str,   \* g_setting_action_key
  keyboard,     \* where d3d_settings_handle_keyboard is: <<step, key, modifiers>>, or Empty
  binding,      \* OK has unbound the previous hotkey and not yet bound the new one
  crossed       \* history: a command was run while the pop-up was open

popup == <<open, action_id, button_no, listening, str, keyboard, binding, crossed>>
allVars == <<vars, popup>>

InitPopup ==
  /\ Init
  /\ open = FALSE /\ action_id = None /\ button_no = 0
  /\ listening = FALSE /\ str = Empty /\ keyboard = Empty
  /\ binding = FALSE /\ crossed = FALSE
-----------------------------------------------------------------------------
(* The render thread.  The table has room for two hotkeys of each row, and OK for two of  *)
(* the action it is about.  Once there are more, the code writes beyond the array (the    *)
(* behaviour is undefined), and the model goes no further.                                *)

Room(a) == Len(actions[a]) <= 2
Drawn   == \A a \in Row : Room(a)

Click(a, b) ==
  /\ Drawn /\ ~open
  /\ open' = TRUE /\ action_id' = a /\ button_no' = b
  /\ str' = Empty /\ listening' = TRUE
  /\ crossed' = FALSE
  /\ UNCHANGED <<vars, keyboard, binding>>

\* A pop-up without an action closes, but is drawn once more: OK can still be pressed.
CloseWithoutAction ==
  /\ open /\ ~binding /\ action_id = None /\ open' = FALSE
  /\ UNCHANGED <<vars, action_id, button_no, listening, str, keyboard, binding, crossed>>

Cancel ==
  /\ open /\ ~binding /\ open' = FALSE /\ action_id' = None
  /\ UNCHANGED <<vars, button_no, listening, str, keyboard, binding, crossed>>

ClickReset ==
  /\ open /\ ~binding /\ ~listening
  /\ str' = Empty /\ listening' = TRUE
  /\ UNCHANGED <<vars, open, action_id, button_no, keyboard, binding, crossed>>

\* mg_input_get_action_hotkeys gives the nodes in the order they were put on the list;
\* OK unbinds the one on the button, if there is one; without an action it lists the
\* hotkeys that are bound to nothing.
Shown(a) == Reverse(actions[a])

\* Seeded fault: each replaces the definition of the same stem when the properties are
\* tested for being able to fail.
OkUnbind_other ==
  /\ Drawn /\ open /\ ~binding /\ Room(action_id)
  /\ IF Len(Shown(action_id)) > button_no + 1
     THEN LET h == node[Shown(action_id)[button_no + 1]] IN Bind(h.key, h.mods, None)
     ELSE UNCHANGED vars
  /\ binding' = TRUE
  /\ UNCHANGED <<open, action_id, button_no, listening, str, keyboard, crossed>>

OkUnbind ==
  /\ Drawn /\ open /\ ~binding /\ Room(action_id)
  /\ IF Len(Shown(action_id)) > button_no
     THEN LET h == node[Shown(action_id)[button_no + 1]] IN Bind(h.key, h.mods, None)
     ELSE UNCHANGED vars
  /\ binding' = TRUE
  /\ UNCHANGED <<open, action_id, button_no, listening, str, keyboard, crossed>>

\* Then it binds the one shown, unless the pop-up is still listening.  A text without a
\* key's name is no hotkey.
OkBind ==
  /\ binding /\ binding' = FALSE
  /\ IF ~listening /\ str # Empty THEN Bind(str[1], str[2], action_id) ELSE UNCHANGED vars
  /\ open' = FALSE /\ action_id' = None
  /\ UNCHANGED <<button_no, listening, str, keyboard, crossed>>
-----------------------------------------------------------------------------
(* d3d_settings_handle_keyboard: it looks at "listening" once, clears it when a key comes *)
(* that is no modifier, and writes the text afterwards.                                   *)

KeyArrives(k, m) ==
  /\ keyboard = Empty /\ listening /\ keyboard' = <<"arrived", k, m>>
  /\ UNCHANGED <<vars, open, action_id, button_no, listening, str, binding, crossed>>

KeyTaken ==
  /\ keyboard # Empty /\ keyboard[1] = "arrived"
  /\ listening' = FALSE /\ keyboard' = [keyboard EXCEPT ![1] = "taken"]
  /\ UNCHANGED <<vars, open, action_id, button_no, str, binding, crossed>>

KeyShown ==
  /\ keyboard # Empty /\ keyboard[1] = "taken"
  /\ str' = Tail(keyboard) /\ keyboard' = Empty
  /\ UNCHANGED <<vars, open, action_id, button_no, listening, binding, crossed>>

\* The release of Escape.
EscapeTaken ==
  /\ keyboard = Empty /\ listening /\ listening' = FALSE
  /\ keyboard' = <<"escape">>
  /\ UNCHANGED <<vars, open, action_id, button_no, str, binding, crossed>>

EscapeDone ==
  /\ keyboard = <<"escape">> /\ keyboard' = Empty
  /\ action_id' = None
  /\ UNCHANGED <<vars, open, button_no, listening, str, binding, crossed>>

Keyboard ==
  \/ \E k \in Key, m \in Mods : KeyArrives(k, m)
  \/ KeyTaken \/ KeyShown \/ EscapeTaken \/ EscapeDone
-----------------------------------------------------------------------------
(* The game's thread: commands of the console, and of the configuration when it is read *)

Command ==
  /\ \E k \in Key, m \in Mods, a \in Actions : Bind(k, m, a)
  /\ crossed' = open
  /\ UNCHANGED <<open, action_id, button_no, listening, str, keyboard, binding>>

Revert ==
  /\ Reset
  /\ UNCHANGED popup

Render ==
  \/ \E a \in Row, b \in Button : Click(a, b)
  \/ CloseWithoutAction \/ Cancel \/ ClickReset \/ OkUnbind \/ OkBind

NextPopup == Render \/ Keyboard \/ Command \/ Revert

PopupSpec == InitPopup /\ [][NextPopup]_allVars
-----------------------------------------------------------------------------
(* Properties *)

\* The nodes of an action that a key press reaches.
Working(a) == {n \in DOMAIN node : node[n].action = a /\ n \in Range(hotkeys[node[n].key])}

\* The settings window never gives an action a third hotkey that works, whatever it finds
\* bound or dropped from the lists, and however the keys cross its buttons; unless a
\* command is run while the pop-up is open.
AtMostTwo == [][Render /\ ~crossed => \A a \in Row : Cardinality(Working(a)') <= 2]_allVars
=============================================================================
