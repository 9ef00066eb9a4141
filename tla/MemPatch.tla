------------------------------ MODULE MemPatch ------------------------------
(***************************************************************************)
(* How gamehook.dll patches the running game and takes its patches back.   *)
(*                                                                         *)
(* patch_mem snapshots the whole page of the patched address the first     *)
(* time any byte of that page is patched, and marks the bytes it is about  *)
(* to overwrite.  When the DLL is unloaded, restore_mem copies the marked  *)
(* bytes back from the snapshots.  A hot reload unloads one copy of the    *)
(* DLL and loads the next, which starts from an empty page map, so         *)
(* whatever is not restored looks like the game's own code to it.          *)
(*                                                                         *)
(* Meanwhile the game, the "unsafe" patches and the DLL's direct stores    *)
(* write other bytes, often of the same pages: the tick hook at 0x42bfa1   *)
(* shares a page with the window patches at 0x42b918 and 0x42ba47, the     *)
(* window handle at 0x927f60 one with the console flag at 0x927cc8.  The   *)
(* game may even write a byte that is patched: that very flag, which it    *)
(* may clear when it starts and which the DLL therefore patches twice.     *)
(***************************************************************************)
EXTENDS Integers

CONSTANTS
  PageSize,     \* bytes of a page, 4096 in the build
  NumPages,     \* pages of game memory
  Bytes,        \* the values of a byte
  Memories,     \* the memories that the game may start with
  Zero,         \* what calloc() fills a page with
  JmpOps,       \* the opcodes of JMP and CALL, 0xe9 and 0xe8
  Sites,        \* <<address, length>> of the patch_mem calls
  JmpSites,     \* <<address, length>> of the operands patch_jmp32 writes
  TrampSites,   \* <<address, length>> of the trampolines
  Foreign       \* addresses that the game and the unsafe patches write

Addr == 0 .. NumPages * PageSize - 1
PageOf(a) == a \div PageSize
Page == {PageOf(a) : a \in Addr}

\* The bytes a patch overwrites.
Written(s) == s[1] .. s[1] + s[2] - 1

AllSites   == Sites \cup JmpSites \cup TrampSites
PatchBytes == UNION {Written(s) : s \in AllSites}

\* A patch_jmp32 has an opcode in front of the operand it writes.
ASSUME PatchAssumption ==
  /\ PageSize \in Nat \ {0} /\ NumPages \in Nat /\ Zero \in Bytes
  /\ Memories \subseteq [Addr -> Bytes]
  /\ Foreign \subseteq Addr /\ AllSites \subseteq Addr \X (1 .. PageSize)
  /\ PatchBytes \subseteq Addr
  /\ \A s \in JmpSites : s[1] - 1 \in Addr

\* What the addresses in the source satisfy: no patch crosses a page, and neither
\* another patch nor anybody else touches the instructions a trampoline replaces.
SitesFit ==
  /\ \A t \in TrampSites : Written(t) \cap Foreign = {}
  /\ \A s \in AllSites : \A a \in Written(s) : PageOf(a) = PageOf(s[1])
  /\ TrampSites \cap (Sites \cup JmpSites) = {}
  /\ \A t \in TrampSites : \A s \in AllSites \ {t} : Written(t) \cap Written(s) = {}

VARIABLES
  mem,        \* the game's memory
  dll,        \* "out", "in", or "dead": the process has exited
  exiting,    \* g_exiting
  paged,      \* pages that g_mem_map has an entry for
  data,       \* their snapshots
  mask,       \* bytes with byte_mask set
  done,       \* trampolines this copy of the DLL has placed
  moved,      \* history: <<address, byte>> of the instructions moved to trampolines
  pristine,   \* history: the memory as if patch_mem had never been called
  unbacked,   \* history: bytes patched while there was no memory for their snapshot
  held,      \* history: <<address, byte>> that the game itself has had in memory
  overtaken,  \* history: bytes others wrote since this copy's snapshot of their page
  stale       \* history: bytes a restore took back to an older value of the game's

others == <<held, overtaken, stale>>
vars == <<mem, dll, exiting, paged, data, mask, done, moved, pristine, unbacked, others>>

Init ==
  /\ mem \in Memories /\ pristine = mem
  /\ dll = "out" /\ exiting = FALSE
  /\ paged = {} /\ data = [a \in Addr |-> Zero] /\ mask = {}
  /\ done = {} /\ moved = {} /\ unbacked = {}
  /\ held = {<<a, mem[a]>> : a \in Addr} /\ overtaken = {} /\ stale = {}
-----------------------------------------------------------------------------
(* patch_mem: backup_mem, then the write *)

\* Seeded faults: each replaces the definition of the same stem when the
\* properties are tested for being able to fail.
Snapshot_bytes(s) ==
  /\ paged' = paged \cup {PageOf(s[1])}
  /\ data' = [a \in Addr |-> IF a \in Written(s) /\ PageOf(s[1]) \notin paged
                             THEN mem[a] ELSE data[a]]

Snapshot_again(s) ==
  /\ paged' = paged \cup {PageOf(s[1])}
  /\ data' = [a \in Addr |-> IF PageOf(a) = PageOf(s[1]) THEN mem[a] ELSE data[a]]

Marked_first(s) == {s[1]}

\* Only the part of the patch that lies in the page of its first byte is marked:
\* for a patch no longer than a page the loop of backup_mem runs once.
Marked(s) == {a \in Written(s) : PageOf(a) = PageOf(s[1])}

\* The page is copied when it gets its entry, not when its bytes are marked.
Snapshot(s) ==
  /\ paged' = paged \cup {PageOf(s[1])}
  /\ data' = [a \in Addr |-> IF PageOf(a) = PageOf(s[1]) /\ PageOf(a) \notin paged
                             THEN mem[a] ELSE data[a]]

Backup(s) ==
  /\ Snapshot(s)
  /\ mask' = mask \cup Marked(s)
  /\ UNCHANGED unbacked

\* calloc() fails: backup_page_mem returns early and the patch is written anyway.
NoBackup(s) ==
  /\ PageOf(s[1]) \notin paged
  /\ unbacked' = unbacked \cup Written(s)
  /\ UNCHANGED <<paged, data, mask>>

PatchMem(s, code) ==
  /\ dll = "in"
  /\ Backup(s) \/ NoBackup(s)
  /\ mem' = [a \in Addr |-> IF a \in Written(s) THEN code[a] ELSE mem[a]]

\* The new bytes a patch may consist of.
Code(s) == [Written(s) -> Bytes]

Patch ==
  /\ \E s \in Sites : \E code \in Code(s) : PatchMem(s, code)
  /\ UNCHANGED <<dll, exiting, done, moved, pristine, others>>

\* patch_jmp32 keeps the opcode, and gives up unless it is a JMP or a CALL.
PatchJmp ==
  /\ \E s \in JmpSites :
       mem[s[1] - 1] \in JmpOps /\ \E code \in Code(s) : PatchMem(s, code)
  /\ UNCHANGED <<dll, exiting, done, moved, pristine, others>>

\* The replaced instructions are first moved to freshly allocated code.  A copy of
\* the DLL places each of its trampolines once, while it is initialised.
Trampoline ==
  /\ \E s \in TrampSites \ done :
       /\ \E code \in Code(s) : PatchMem(s, code)
       /\ moved' = moved \cup {<<a, mem[a]>> : a \in Written(s)}
       /\ done' = done \cup {s}
  /\ UNCHANGED <<dll, exiting, pristine, others>>
-----------------------------------------------------------------------------
(* Loading and unloading *)

\* A new copy of the DLL starts with an empty g_mem_map and its own list of patches.
Attach ==
  /\ dll = "out" /\ ~exiting
  /\ dll' = "in"
  /\ UNCHANGED <<mem, exiting, paged, data, mask, done, moved, pristine, unbacked, others>>

\* restore_mem; the daemon has suspended the game's threads.  The map goes with the
\* copy of the DLL that made it.
Unload ==
  /\ dll = "in" /\ ~exiting
  /\ dll' = "out"
  /\ paged' = {} /\ data' = [a \in Addr |-> Zero] /\ mask' = {} /\ done' = {}
  /\ stale' = stale \cup (overtaken \cap mask) /\ overtaken' = {}
  /\ UNCHANGED <<exiting, moved, pristine, unbacked, held>>

Detach_all_pages ==
  /\ Unload
  /\ mem' = [a \in Addr |-> IF PageOf(a) \in paged THEN data[a] ELSE mem[a]]

Detach ==
  /\ Unload
  /\ mem' = [a \in Addr |-> IF a \in mask THEN data[a] ELSE mem[a]]

\* The exiting process detaches, too, but takes nothing back.
DetachOnExit ==
  /\ dll = "in" /\ exiting
  /\ dll' = "dead"
  /\ UNCHANGED <<mem, exiting, paged, data, mask, done, moved, pristine, unbacked, others>>

HookedExit ==
  /\ dll = "in" /\ ~exiting
  /\ exiting' = TRUE
  /\ UNCHANGED <<mem, dll, paged, data, mask, done, moved, pristine, unbacked, others>>

\* The game, an unsafe patch or a direct store of the DLL, also to a patched byte.
\* The game goes on while no copy of the DLL is loaded.
ForeignWrite ==
  /\ dll # "dead"
  /\ \E a \in Foreign, b \in Bytes :
       /\ mem' = [mem EXCEPT ![a] = b]
       /\ pristine' = [pristine EXCEPT ![a] = b]
       /\ held' = held \cup {<<a, b>>}
       /\ overtaken' = IF dll = "in" /\ PageOf(a) \in paged
                       THEN overtaken \cup {a} ELSE overtaken
       /\ stale' = stale \ {a}
  /\ UNCHANGED <<dll, exiting, paged, data, mask, done, moved, unbacked>>

Next ==
  \/ Patch \/ PatchJmp \/ Trampoline
  \/ Attach \/ Detach \/ DetachOnExit \/ HookedExit \/ ForeignWrite

Spec == Init /\ [][Next]_vars
-----------------------------------------------------------------------------
(* Properties *)

TypeOK ==
  /\ mem \in [Addr -> Bytes] /\ pristine \in [Addr -> Bytes] /\ data \in [Addr -> Bytes]
  /\ dll \in {"out", "in", "dead"} /\ exiting \in BOOLEAN
  /\ paged \subseteq Page /\ mask \subseteq Addr /\ done \subseteq TrampSites
  /\ moved \subseteq Addr \X Bytes /\ unbacked \subseteq Addr
  /\ held \subseteq Addr \X Bytes /\ overtaken \subseteq Addr /\ stale \subseteq Addr

\* Unloading the DLL, on its own or for a hot reload, leaves the memory as if the
\* DLL had never patched it, however often the same bytes were patched, and what
\* others wrote to the same pages meanwhile is kept.  Two kinds of bytes are not
\* as they would be: one patched without memory for its snapshot, and a patched one
\* that the game wrote after the snapshot of its page, until it writes it again.
RestoreExact ==
  dll = "out" => \A a \in Addr \ (unbacked \cup stale) : mem[a] = pristine[a]

\* Nothing of any patch outlives the DLL: also where the game wrote a patched byte
\* after the snapshot, as it may at 0x927cc8, the restore leaves one of the bytes
\* that the game itself has had there.
NoPatchLeft ==
  dll = "out" => \A a \in Addr \ unbacked : <<a, mem[a]>> \in held

\* Every byte that a copy of the DLL has made differ from the game's is marked.
OverwrittenIsMarked ==
  dll = "in" => \A a \in Addr \ (unbacked \cup stale) : mem[a] # pristine[a] => a \in mask

\* A trampoline runs the game's own instructions, also one that a later copy of
\* the DLL has built, never those of an earlier patch.
OriginalsMoved ==
  \A m \in moved : m[1] \in unbacked \/ m[2] = pristine[m[1]]
-----------------------------------------------------------------------------
(* The inductive invariant behind these properties *)

\* A snapshot is taken before the first patch of its page, so at every address that
\* is ever patched it holds the game's byte, and a byte it has had at any rate.
SnapshotIsPristine ==
  \A a \in PatchBytes \ unbacked : PageOf(a) \in paged =>
    /\ <<a, data[a]>> \in held
    /\ a \notin overtaken \cup stale => data[a] = pristine[a]

\* A byte outside the mask is the game's, and its last one unless it is stale.
UnmarkedIsPristine ==
  \A a \in Addr \ unbacked : (dll = "out" \/ a \notin mask) =>
    /\ <<a, mem[a]>> \in held
    /\ a \notin stale => mem[a] = pristine[a]

MarkedIsPaged == \A a \in mask : a \in PatchBytes /\ PageOf(a) \in paged

\* Nobody else writes the bytes a trampoline was made of.
MovedIsTramp == \A m \in moved : \E t \in TrampSites : m[1] \in Written(t)

\* Only others' bytes are ever overtaken or stale.
OthersWrote == overtaken \cup stale \subseteq Foreign

\* A trampoline's bytes stay unmarked until the trampoline is placed.
TrampUntouched ==
  \A t \in TrampSites \ done : Written(t) \cap mask = {}

\* An unloaded copy leaves no snapshots and no marks to the next.
OutIsEmpty == dll = "out" => paged = {} /\ mask = {}

IInv ==
  /\ TypeOK /\ SnapshotIsPristine /\ UnmarkedIsPristine /\ MarkedIsPaged
  /\ TrampUntouched /\ OutIsEmpty /\ OriginalsMoved /\ MovedIsTramp /\ OthersWrote
=============================================================================
