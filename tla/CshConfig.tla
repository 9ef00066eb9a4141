----------------------------- MODULE CshConfig -----------------------------
(***************************************************************************)
(* The configuration file of the shell: a list of commands, some of them   *)
(* inside "if [ $PROFILE == X ]; then ... fi" blocks, and the saves that   *)
(* wait in memory for a flush.  A save names a key ("set r_x", or a bind   *)
(* with its hotkey); flushing overwrites the line that has the key, or     *)
(* appends one.                                                            *)
(*                                                                         *)
(* A line is abstracted to its kind and, for a command, its key and value; *)
(* indentation, quoting and comments are left out.                         *)
(***************************************************************************)
EXTENDS Naturals, SequencesExt

CONSTANTS
  StartsWith    \* pairs <<k, p>> of different keys: the text of k starts with that of p

Command(k, v) == [kind |-> "command", key |-> k, val |-> v]
If(profile)   == [kind |-> "if", profile |-> profile]
Fi            == [kind |-> "fi"]
EmptyLine     == [kind |-> "empty"]

IsCommand(line) == line.kind = "command"

\* The last element of a set of line numbers, and the first.
Last_(S)  == CHOOSE i \in S : \A j \in S : j <= i
First_(S) == CHOOSE i \in S : \A j \in S : i <= j
-----------------------------------------------------------------------------
(* Reading: csh_cfg_parse *)

\* Line i comes after the "if" of line j and before the next "fi".
Within(lines, j, i) ==
  /\ j < i /\ lines[j].kind = "if"
  /\ \A n \in j + 1 .. i - 1 : lines[n] # Fi

\* do_skip at line i.  An "if" that matches does not clear it, only "fi" does.
Skipped(lines, profile, i) ==
  \E j \in DOMAIN lines : Within(lines, j, i) /\ lines[j].profile # profile

\* The lines csh_cfg_parse hands to its callback.
Run(lines, profile) ==
  {i \in DOMAIN lines : IsCommand(lines[i]) /\ ~Skipped(lines, profile, i)}

RunsOf(lines, profile, k) == {i \in Run(lines, profile) : lines[i].key = k}

\* What reading the file leaves a key at: the value of its last command.
Sets(lines, profile, k)    == RunsOf(lines, profile, k) # {}
ValueIn(lines, profile, k) == lines[Last_(RunsOf(lines, profile, k))].val
-----------------------------------------------------------------------------
(* Writing: set_cmd *)

InBlock(lines, i) == \E j \in DOMAIN lines : Within(lines, j, i)

\* The lines set_cmd takes for the key: outside every block, and the key is
\* compared over its own length only.
Matching(lines, k) ==
  {i \in DOMAIN lines : /\ IsCommand(lines[i]) /\ ~InBlock(lines, i)
                        /\ lines[i].key = k \/ <<lines[i].key, k>> \in StartsWith}

\* Seeded faults (also below): each replaces the definition of the same stem when
\* the properties are tested for being able to fail.
SetCmd_in_blocks(lines, entry) ==
  LET here == {i \in DOMAIN lines : IsCommand(lines[i]) /\ lines[i].key = entry.key}
  IN  IF here = {} THEN Append(lines, Command(entry.key, entry.val))
      ELSE [lines EXCEPT ![First_(here)] = Command(entry.key, entry.val)]

SetCmd_append(lines, entry) == Append(lines, Command(entry.key, entry.val))

SetCmd_update_only(lines, entry) ==
  IF Matching(lines, entry.key) = {} THEN lines
  ELSE [lines EXCEPT ![First_(Matching(lines, entry.key))] = Command(entry.key, entry.val)]

SetCmd(lines, entry) ==
  IF Matching(lines, entry.key) = {}
  THEN Append(lines, Command(entry.key, entry.val))
  ELSE [lines EXCEPT ![First_(Matching(lines, entry.key))] = Command(entry.key, entry.val)]

\* config_flush's loop over the pending saves, oldest first.
SetAll(lines, pending) ==
  LET flushed[n \in 0 .. Len(pending)] ==
        IF n = 0 THEN lines ELSE SetCmd(flushed[n - 1], pending[n])
  IN  flushed[Len(pending)]
-----------------------------------------------------------------------------
(* The pending saves: csh_cfg_save_s and csh_cfg_remove without a flush *)

Pending(pending, k) == {i \in DOMAIN pending : pending[i].key = k}

CacheSave(pending, k, v) ==
  IF Pending(pending, k) = {} THEN Append(pending, [key |-> k, val |-> v])
  ELSE [pending EXCEPT ![First_(Pending(pending, k))].val = v]

CacheRemove(pending, k) ==
  IF Pending(pending, k) = {} THEN pending
  ELSE RemoveAt(pending, First_(Pending(pending, k)))

\* The value a pending save gives the key.
PendingVal(pending, k) == pending[First_(Pending(pending, k))].val
=============================================================================
