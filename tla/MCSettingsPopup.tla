--------------------------- MODULE MCSettingsPopup ---------------------------
(* Keys, modifiers and the actions that have a row are interchangeable.       *)
EXTENDS SettingsPopup

TableSymmetry ==
  Permutations(Key) \cup Permutations(Mods) \cup Permutations(Row)
==============================================================================
