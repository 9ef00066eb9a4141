-------------------------------- MODULE Csh --------------------------------
(***************************************************************************)
(* The csh shell and its configuration: the registered variables, the     *)
(* mark each carries of the value it was last saved with, the hotkeys that *)
(* "bind" sets, the file, and the saves waiting for a flush.               *)
(*                                                                         *)
(* Every csh_* call holds one recursive mutex from its first access to its *)
(* last, so a call is one action, its flush of the file included.  Binding *)
(* also saves to the configuration, so reading the file leaves every bind  *)
(* it ran pending.                                                         *)
(*                                                                         *)
(* Values are small naturals: conversion of an int to decimal and back is  *)
(* exact.  The shell's library outlives the DLL that registers the         *)
(* variables; a DLL loaded again is taken to land at its old address, where *)
(* its variables start at zero.                                            *)
(***************************************************************************)
EXTENDS CshConfig, Integers

CONSTANTS
  Vars,         \* the variables whose name does not start with "_"
  Hotkeys,      \* the hotkeys the user may bind
  Vals,         \* the values of variables; and the actions, for a hotkey
  Default,      \* [Vars -> Vals], the defaults the DLL registers
  Profiles,     \* the profiles the launcher may ask for
  CfgProfile,   \* g_csh_cfg.profile, which nothing ever assigns
  NewFile,      \* the file csh.c's write_new creates
  UserFiles,    \* the files a user may have written before the start
  NoFile, NoLines, Unbound,
  MaxMark,      \* bound on the save mark
  MaxFaults     \* bound on failed opens and removals of the file

SetKey(v)  == <<"set", v>>
BindKey(h) == <<"bind", h>>
\* What the reset callback of input.c passes to csh_cfg_remove.
HotkeyText(h) == <<"hotkey", h>>
Keys == {SetKey(v) : v \in Vars} \cup {BindKey(h) : h \in Hotkeys}

ASSUME CshAssumption ==
  /\ Vals \subseteq Nat /\ 0 \in Vals
  /\ Default \in [Vars -> Vals] /\ CfgProfile \in Profiles
  /\ Unbound \notin Vals

\* Every line the file can have.
Line ==
  {EmptyLine} \cup {Command(k, v) : k \in Keys, v \in Vals} \cup
  UNION {Range(f) : f \in UserFiles \cup {NewFile}}

\* Outside the blocks a registered key has one line at most.
OnceAtTop(lines) ==
  \A i, j \in DOMAIN lines :
    /\ ~InBlock(lines, i) /\ IsCommand(lines[i]) /\ lines[i].key \in Keys
    /\ ~InBlock(lines, j) /\ IsCommand(lines[j]) /\ lines[j].key = lines[i].key
    => i = j

\* The files a start may find set the registered keys to values they have, and no
\* registered key is how another key of theirs starts.
ASSUME FilesAssumption ==
  /\ IsFiniteSet(Vars) /\ IsFiniteSet(Hotkeys)
  /\ UserFiles \cup {NewFile} \subseteq Seq(Line)
  /\ \A f \in UserFiles \cup {NewFile} : OnceAtTop(f)
  /\ \A line \in Line : IsCommand(line) =>
       /\ line.key \in Keys => line.val \in Vals
       /\ \A k \in Keys : <<line.key, k>> \notin StartsWith
  /\ NoFile \notin Seq(Line) /\ NoLines \notin Seq(Line)

VARIABLES
  file,         \* the file's lines, or NoFile
  pending,      \* csh_cfg_internal.cached
  unwritten,    \* csh_cfg_internal.file_lines left by a flush that failed
  val,          \* the variables
  mark,         \* csh_var.saved_val
  bound,        \* the action of each hotkey, g_hotkeys
  profile,      \* csh.c's g_profile
  started,      \* g_csh_cfg.filename is set
  faults,       \* bound: faults so far
  drifted       \* history: keys whose known value may not be the file's

vars == <<file, pending, unwritten, val, mark, bound, profile, started,
          faults, drifted>>

Fresh ==
  /\ pending = <<>> /\ unwritten = NoLines
  /\ val = Default /\ mark = [v \in Vars |-> 0]
  /\ bound = [h \in Hotkeys |-> Unbound]
  /\ started = FALSE /\ profile = CfgProfile
  /\ drifted = {}

Init == Fresh /\ faults = 0 /\ file \in UserFiles \cup {NoFile, NewFile}

Fault == faults < MaxFaults /\ faults' = faults + 1
-----------------------------------------------------------------------------
(* csh_init *)

FileSets(k)   == file' # NoFile /\ Sets(file', CfgProfile, k)
FileVal(k)    == ValueIn(file', CfgProfile, k)

\* The reset callback removes each bound hotkey from the pending saves, by a key
\* that is not the one "bind" saved it with.
AfterReset(p) ==
  LET hs == SetToSeq({h \in Hotkeys : bound[h] # Unbound})
      left[n \in 0 .. Len(hs)] ==
        IF n = 0 THEN p ELSE CacheRemove(left[n - 1], HotkeyText(hs[n]))
  IN  left[Len(hs)]

\* The bind commands of a file are run in order, and each saves what it binds.
RunBinds(lines, p) ==
  LET binds == {i \in Run(lines, CfgProfile) : \E h \in Hotkeys : lines[i].key = BindKey(h)}
      saved[n \in 0 .. Len(lines)] ==
        IF n = 0 THEN p
        ELSE IF n \in binds THEN CacheSave(saved[n - 1], lines[n].key, lines[n].val)
        ELSE saved[n - 1]
  IN  saved[Len(lines)]

\* Reset, read the file, and mark every variable as saved, the variables having the
\* values in v0 and the pending saves being p0 when the file is opened.
ReadConfig(v0, p0) ==
  /\ \/ file # NoFile /\ UNCHANGED <<file, faults>>
     \/ file = NoFile /\ file' = NewFile /\ UNCHANGED faults
     \/ file = NoFile /\ UNCHANGED file /\ Fault
  /\ val' = [v \in Vars |-> IF FileSets(SetKey(v)) THEN FileVal(SetKey(v)) ELSE v0[v]]
  /\ mark' = val'
  /\ bound' = [h \in Hotkeys |-> IF FileSets(BindKey(h)) THEN FileVal(BindKey(h)) ELSE Unbound]
  /\ pending' = IF file' = NoFile THEN p0 ELSE RunBinds(file', p0)
  /\ UNCHANGED unwritten

\* Keys left with something a start would not give them: a variable the file does not
\* set, a save that is still pending from before the file was read.
Leftover ==
  {SetKey(v) : v \in {w \in Vars : \/ ~FileSets(SetKey(w)) /\ val'[w] # Default[w]
                                   \/ Pending(pending', SetKey(w)) # {}}} \cup
  {BindKey(h) : h \in {g \in Hotkeys : ~FileSets(BindKey(g)) /\ Pending(pending', BindKey(g)) # {}}}

\* parse_cmdline and the first csh_init of the process.
Start(p) ==
  /\ ~started /\ started' = TRUE
  /\ profile' = p
  /\ ReadConfig(Default, AfterReset(pending))
  /\ drifted' = Leftover

\* csh_init(NULL) of the Revert button, or csh_init of the "reload_cfg" command.
Revert ==
  /\ started
  /\ ReadConfig(val, AfterReset(pending))
  /\ drifted' = Leftover
  /\ UNCHANGED <<profile, started>>

\* The DLL is unloaded and loaded again, and calls csh_init.  csh_static_preinit
\* forgets the reset callbacks; the new DLL's hotkey table is empty.  A variable
\* known from the first load is registered again without its default.
HotReload ==
  /\ started
  /\ ReadConfig([v \in Vars |-> 0], pending)
  /\ drifted' = Leftover
  /\ profile' = profile /\ UNCHANGED started

\* The process ends and the game is started again later.
Ends ==
  /\ started /\ started' = FALSE
  /\ pending' = <<>> /\ unwritten' = NoLines
  /\ val' = Default /\ mark' = [v \in Vars |-> 0]
  /\ bound' = [h \in Hotkeys |-> Unbound]
  /\ profile' = CfgProfile
  /\ drifted' = {}

Restart == Ends /\ UNCHANGED <<file, faults>>
-----------------------------------------------------------------------------
(* The shell's calls *)

\* csh_set, its variants, and the "set" command.
Set(v, x) ==
  /\ started /\ val[v] # x
  /\ val' = [val EXCEPT ![v] = x]
  /\ UNCHANGED <<file, pending, unwritten, mark, bound, profile, started, faults, drifted>>

\* The "profile" command.
Profile(p) ==
  /\ started /\ profile # p
  /\ profile' = p
  /\ UNCHANGED <<file, pending, unwritten, val, mark, bound, started, faults, drifted>>

\* The "bind" command.
Bind(h, a) ==
  /\ started
  /\ bound' = [bound EXCEPT ![h] = a]
  /\ pending' = CacheSave(pending, BindKey(h), a)
  /\ drifted' = drifted \ {BindKey(h)}
  /\ UNCHANGED <<file, unwritten, val, mark, profile, started, faults>>

\* csh_var_set_modified.
SetModified(v, modified) ==
  /\ started
  /\ \/ modified /\ mark[v] < MaxMark /\ mark' = [mark EXCEPT ![v] = @ + 1]
     \/ ~modified /\ mark' = [mark EXCEPT ![v] = val[v]]
  /\ drifted' = drifted \cup {SetKey(v)}
  /\ UNCHANGED <<file, pending, unwritten, val, bound, profile, started, faults>>
-----------------------------------------------------------------------------
(* csh_save: save the variables that differ from their mark, then config_flush *)

Changed == {v \in Vars : val[v] # mark[v]}

SaveVars(p) ==
  LET vs == SetToSeq(Changed)
      saved[n \in 0 .. Len(vs)] ==
        IF n = 0 THEN p ELSE CacheSave(saved[n - 1], SetKey(vs[n]), val[vs[n]])
  IN  saved[Len(vs)]

\* The saves are kept when the file could not be read, and the flush gives up.
FlushUnread(p) ==
  /\ pending' = p
  /\ \/ p = <<>> /\ UNCHANGED <<file, faults>>
     \/ p # <<>> /\ UNCHANGED file /\ Fault
     \* csh_config.c's write_new made the file, but returns no value
     \/ p # <<>> /\ file = NoFile /\ file' = <<>> /\ UNCHANGED faults
  /\ UNCHANGED unwritten
  /\ drifted' = drifted \ {SetKey(v) : v \in Changed}

\* What read_file_for_updating leaves in file_lines: of an empty file, an empty line,
\* unless an earlier flush left its lines behind.
LinesRead ==
  IF file \notin {NoFile, <<>>} THEN file
  ELSE IF unwritten # NoLines THEN unwritten ELSE <<EmptyLine>>

\* Keys that such leftover lines bring back.
Revived(p) ==
  IF file \notin {NoFile, <<>>} \/ unwritten = NoLines THEN {}
  ELSE {k \in Keys : Pending(p, k) = {}}

\* Saves whose line is in front of a block that sets the key again.
Overridden(p) ==
  {k \in {p[i].key : i \in DOMAIN p} :
     /\ Matching(LinesRead, k) # {}
     /\ \E i \in RunsOf(LinesRead, CfgProfile, k) : i > First_(Matching(LinesRead, k))}

FlushWritten(p) ==
  /\ p # <<>>
  /\ file' = SetAll(LinesRead, p)
  /\ pending' = <<>> /\ unwritten' = NoLines
  /\ drifted' = (drifted \ {SetKey(v) : v \in Changed}) \cup Revived(p) \cup Overridden(p)
  /\ UNCHANGED faults

\* The second open fails: the saves are gone, the lines stay in memory.
FlushLost(p) ==
  /\ p # <<>> /\ Fault
  /\ file' = IF file = NoFile THEN <<>> ELSE file
  /\ unwritten' = SetAll(LinesRead, p)
  /\ pending' = <<>>
  /\ drifted' = drifted \cup {p[i].key : i \in DOMAIN p}

SaveConfig ==
  /\ started
  /\ LET p == SaveVars(pending) IN FlushUnread(p) \/ FlushWritten(p) \/ FlushLost(p)
  /\ mark' = val
  /\ UNCHANGED <<val, bound, profile, started>>

\* The process dies while config_flush, which has emptied the file, writes the lines one
\* after the other.  A line cut in the middle counts as not written.
Cut(lines) == {SubSeq(lines, 1, n) : n \in 0 .. Len(lines) - 1}

FlushCut ==
  /\ Ends /\ faults = 0 /\ faults' = MaxFaults
  /\ SaveVars(pending) # <<>>
  /\ file' \in Cut(SetAll(LinesRead, SaveVars(pending)))

\* Outside the program: the file is deleted.
RemoveFile ==
  /\ started /\ file # NoFile /\ Fault
  /\ file' = NoFile
  /\ drifted' = Keys
  /\ UNCHANGED <<pending, unwritten, val, mark, bound, profile, started>>

Next ==
  \/ \E p \in Profiles : Start(p) \/ Profile(p)
  \/ Revert \/ HotReload \/ Restart \/ SaveConfig \/ FlushCut \/ RemoveFile
  \/ \E v \in Vars :
       \/ \E x \in Vals : Set(v, x)
       \/ \E m \in BOOLEAN : SetModified(v, m)
  \/ \E h \in Hotkeys, a \in Vals : Bind(h, a)

Spec == Init /\ [][Next]_vars
-----------------------------------------------------------------------------
(* Properties *)

\* What a key will be at the next start once the pending saves are written.
Effective(k) ==
  IF Pending(pending, k) # {} THEN PendingVal(pending, k)
  ELSE IF file # NoFile /\ Sets(file, CfgProfile, k) THEN ValueIn(file, CfgProfile, k)
  ELSE IF k[1] = "set" THEN Default[k[2]] ELSE Unbound

Known(k) == IF k[1] = "set" THEN mark[k[2]] ELSE bound[k[2]]

\* Every block has its end.  A bound of the run: what follows once a cut flush has left
\* a block open, which takes in what later saves append, is not explored.
Closed ==
  file # NoFile =>
    \A i \in DOMAIN file : file[i].kind = "if" => \E j \in DOMAIN file : j > i /\ file[j] = Fi

\* A variable's save mark, and a hotkey's binding, is what the file and the pending
\* saves will make of it at the next start, over any series of sets, binds, reverts,
\* saves, failed flushes, reloads of the DLL and restarts.  The keys it may not hold of are
\* those of a flush that lost its saves or wrote them in front of a block, of a deleted
\* file, of csh_var_set_modified, and what a revert or a reload leaves of a key the file
\* does not set.
SavedMarkHonest ==
  started => \A k \in Keys \ drifted : Known(k) = Effective(k)

TopLines(k) == {i \in DOMAIN file : ~InBlock(file, i) /\ IsCommand(file[i]) /\ file[i].key = k}

TypeOK ==
  /\ val \in [Vars -> Vals] /\ DOMAIN mark = Vars
  /\ bound \in [Hotkeys -> Vals \cup {Unbound}]
  /\ profile \in Profiles /\ started \in BOOLEAN
  /\ drifted \subseteq Keys
  /\ \A i \in DOMAIN pending : pending[i].key \in Keys /\ pending[i].val \in Vals

\* Saving again and again does not grow the file: a key has at most one line outside
\* the blocks, and one pending save.
NoDuplicates ==
  /\ TypeOK
  /\ \A k \in Keys : Cardinality(Pending(pending, k)) <= 1
  /\ file # NoFile => \A k \in Keys : Cardinality(TopLines(k)) <= 1

BlockLines(lines) == [i \in {j \in DOMAIN lines : InBlock(lines, j)} |-> lines[i]]

\* A flush never changes a command inside an "if" block (the comment in set_cmd), for
\* whichever profile it is.
BlocksKept ==
  [][started' /\ file \notin {NoFile, <<>>} /\ file' # NoFile
       => BlockLines(file') = BlockLines(file)]_vars

(* What the new file's header says, and the code does not do *)

\* "The game starts with any profile selected from the launcher or provided via game.exe
\* parameters" (the header of the new file): the start applies that profile's blocks.
StartAppliesProfile ==
  [][\A p \in Profiles : Start(p) /\ file' # NoFile => \A v \in Vars :
       Sets(file', p, SetKey(v)) => val'[v] = ValueIn(file', p, SetKey(v))]_vars
=============================================================================
