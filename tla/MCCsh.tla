-------------------------------- MODULE MCCsh --------------------------------
(* Files of the shapes the code knows: the new file's commands outside and     *)
(* inside blocks, and what a user may add to it.              *)
EXTENDS Csh

MCDefault == [v \in Vars |-> 1]

\* As csh.c writes it: one variable outside the blocks, another in a profile's block.
MCNewFile ==
  <<Command(SetKey("x"), 0), If("Secondary"), Command(SetKey("y"), 0), Fi>>

\* A block for each profile, a bind in one of them.
MCUserFile ==
  <<If("Default"), Command(SetKey("y"), 0), Command(BindKey("h"), 1), Fi,
    If("Secondary"), Command(SetKey("x"), 0), Fi>>

\* Two blocks with one "fi": the second is skipped too, though its profile matches.
MCNestedFile ==
  <<If("Secondary"), Command(SetKey("x"), 0), If("Default"), Command(SetKey("y"), 0), Fi>>

\* A variable with a general setting and one for a profile.
MCOverridden == <<Command(SetKey("x"), 0), If("Default"), Command(SetKey("x"), 0), Fi>>

MCUserFiles == {MCUserFile, MCNestedFile, MCOverridden, <<Command(SetKey("x"), 1)>>}

\* No step and no property of the run depends on the profile but the command that sets it.
ButProfile == <<file, pending, unwritten, val, mark, bound, started, faults, drifted>>
==============================================================================
