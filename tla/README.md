# A verification project for pw_gamehooks

`gamehook.dll` is injected into a running game client.  It patches the game's code in
memory, runs callbacks on the game's threads, draws a console and a settings window over
the game's picture, and keeps a configuration file.  A small daemon starts the game and
swaps the DLL for a newer build while the game runs.  This directory holds TLA+ models of
the parts where the order of steps matters, TLC configurations that check them, and
theorems about all of them that TLAPS checks for every value of the constants.

## The system

| Component | Source | State it keeps | Operations | Modelled by |
|---|---|---|---|---|
| Thread message rings | `common.c` 148-222, `main.c` 172-189, 575-589 | `head`, `tail`, `buf` of `g_game_thr_queue` and `g_render_thr_queue` | push, pop | `SpScRing`, `MsgFifo` |
| Console round trip | `win_console.cpp` 79-96, 281-398, `main.c` | both queues, the strings in flight | type, poll, run, respond | `ConsoleQueues` |
| Console log and history | `win_console.cpp` 26-142, 236-276, 320-376, `common.c` 99-146 | `g_console` | print, clear, confirm, browse | `OverwriteRing`, `ConsoleLog`, `ConsoleHistory`, `Console` |
| Memory patching | `common.c` 224-761, `main.c` DllMain | `g_mem_map`, the game's memory | patch, patch a jump, trampoline, restore | `MemPatch` |
| csh shell and configuration | `csh.c`, `csh_config.c` | variables, save marks, profile, pending saves, game.cfg | init, set, bind, mark, save, revert, reload | `CshConfig`, `Csh` |
| Hotkeys | `input.c` 25-45, 521-553, 798-878, 914-1014 | `g_hotkeys`, `g_actions` | bind, rebind, reset, look up, list | `Hotkeys` |
| Settings window | `win_settings.cpp` | the pop-up that waits for a key | click, press, reset, OK, cancel | `SettingsPopup` |
| Window mode | `window.c` | mode and rectangle variables, saved rectangle, style | full screen, borderless, move, resize, Alt+Enter | `WindowMode` |
| AVL tree | `avl.c` | a tree with chains of equal keys | insert, remove, search | `Avl` |
| Daemon's sockets | `daemon/daemon.c`, `daemon/daemon_gdb.c` | table of 16 sockets, debugger sessions | select, accept, serve, close | `Daemon` |
| Hot reload | `daemon/daemon_gdb.c` | game and debugger handles, the loaded DLL | start, hook, debug | `HotReload` |
| ID map | `idmap.c` | trees of elements and mappings | read, set, ask, save | `IdMap`; the game itself only reads the file and looks mappings up |
| Game hooks, regions | `main.c` 845-1143, `window.c` 610-684, `d3d.c`, `extlib.c` | where redirected calls lead; device, context and window procedure that copies of the DLL hand on | attach, detach, configure, create the window, tick, frame | `GameHooks` |
| What the hooks do, bindings | `main.c`, `pw_item_desc.c`, `pw_api.c` | the game's own | | not modelled: the state is in the game's binary |
| Drawing, crash handler, build | `d3d.c`, `win_misc.cpp`, `crash_handler.c`, Makefiles, `remote.sh`, `icons_fontawesome.h` | | | not modelled: I/O, drawing, generated data |

How they interact: the render thread (`hooked_a3d_end_scene`) polls one response per
frame, draws, and posts typed commands to the game thread; the game thread
(`hooked_pw_game_tick`) polls one command per tick, runs it through csh, and posts the
answer back.  csh commands change variables (the window and the settings are their users)
and hotkeys; the settings window saves and reverts the configuration; a key press on the
window's thread looks up hotkeys and feeds the settings window's pop-up.  A variable about
the window is written by the thread that sets it and acted on by the window's thread, to
which a message is posted.  The daemon suspends the game's threads, has the DLL
unloaded (which restores the patched memory), and loads the next copy.

What is hard here: two threads share the rings without locks; messages may be refused and
the refusal is ignored; the rings of the console wrap and own heap memory; patches, the
game and "unsafe" patches write the same pages between backup and restore; the
configuration is cached, flushed, re-read and partly reset by different callers, and a
flush can fail in its middle; rebinding rewrites nodes that are on two lists; the window's
moves are written back to the variables that other threads set; a hook can be killed, and
finds threads that it did not suspend; socket numbers are used again while a round of
`select` is being served.

## Modules

* `MsgFifo`: the abstract queue: a bounded FIFO, each call taking effect at one instant.
* `SpScRing`: `ring_buffer_sp_sc_push` and `_pop`, one step per access to shared memory.
  `push` and `pop` are the local variables of the call in progress, `sent` and `rcvd`
  are history.  The refinement mapping reads the queue off the history and decides from
  the local copies whether a pending refusal has taken effect.
* `ConsoleQueues`: the round trip.  A post or a poll is one step, which is what
  `SpScRing` implements.  `cmdHeap` and `respHeap` are the `strdup`ed strings.  A refused
  post leaves its string with no owner: `HeapOwned` says so, and that nothing else does.
* `OverwriteRing`: `ring_buffer_push`, `_count`, `_peek` and `RING_BUFFER_FOREACH`.
* `ConsoleLog`, `ConsoleHistory`: the two uses of that ring; `Console` composes them: a
  confirmed line goes to both.  The allocator is any choice of a free address.
* `MemPatch`: pages, snapshots, byte masks.  `pristine` is the memory as it would be had
  `patch_mem` never been called; `unbacked` the bytes patched without memory for a snapshot.
  The game and the DLL's direct stores (`Foreign`) may write patched bytes too, as the game
  does with 0x927cc8: `held` is every value a byte has had from them, `overtaken` the bytes they
  wrote after the snapshot of the page, `stale` those that a restore then took back to the
  older value.
* `CshConfig`: the file as a list of lines, reading (`csh_cfg_parse`), writing
  (`set_cmd`), pending saves.  `Csh`: the shell on top, from start to restart.
* `Hotkeys`: nodes on two singly linked lists; a list is a sequence of nodes.
  `SettingsPopup` extends it with the render thread's pop-up and the keyboard's thread,
  which share four variables without a lock; OK is two commands.  OK is drawn for as long as the
  pop-up is, also with no action left in it, whose "hotkeys" it then takes off.
* `WindowMode`: `csh_set` is a write and the callback's post, each a step, between which
  `written` holds; a message is handled in one step with the moves and resizes that
  `SetWindowPos` sends.  A window that is not `bare` has its client area inside its borders.
  `edge` is `bw`, the left border as last measured, and `measured` is `g_border_size_set`:
  the move is handled before the resize that has the border measured anew.
* `Avl`: the recursive functions of `avl.c` as recursive functions on trees that are records;
  what the chains of equal keys do is spelled out.
* `Daemon`: the loop over the socket table, one step per handler; `handle_ipc_sockfd` and
  a hook are two steps, between which the debugger's threads go on.
* `HotReload`: what hooks and debugger sessions do to the game's process.  `game_hook` is
  five steps, between which the game may exit, start threads and take the loader's lock.
  A game in which no copy has run loads `gamehook.dll` itself (`main.c` 1108): `marked` are the
  bytes that keep it from doing so, `own` is how far its first thread has come, and the copy
  is `Own`, which the daemon does not know.
* `GameHooks` extends `HotReload` with the inside of the game: for each kind of redirected
  call (those that `patch_mem` takes back and those that nothing takes back) the copy of the
  DLL it leads into, the static variables of the loaded copy, and the regions of
  `libgamehook.dll`, which one copy leaves to the next.  The statics are kept twice, for the
  game's own copy and for the daemon's (`SideOf`), since both may be loaded; `under` is where a
  patched call led before the daemon's copy patched it, which is what its restore brings back.
  Every step of `HotReload` says there what DllMain does in it; the game's first thread reads
  the configuration, creates the window, ticks and draws, all after its own load.
* `IdMap`: the ID map.  Its elements are one sequence, in the order of their insertion in
  `by_lid` and `by_id`; a lookup takes them in the order in which the tree, as `FindsAll` of
  `Avl` has it, returns nodes with equal keys.
* `SpScRing_proofs`, `ConsoleQueues_proofs`, `Console_proofs` (of the log and the history),
  `Common_proofs` (of `MemPatch`, `Avl` and `IdMap`), `Csh_proofs`, `Hotkeys_proofs` (also of
  `SettingsPopup`), `WindowMode_proofs` and `Daemon_proofs` (also of `HotReload` and
  `GameHooks`): proofs.
* `MCMemPatch`, `MCCsh`, `MCWindowMode`, `MCSettingsPopup`, `MCDaemon`: values of constants
  and symmetry sets for TLC.  `MCIdMap` has the tree, the map with early lookups, and the map
  over many processes side by side, a behaviour being about one of them.

Some modules hold definitions named after an action or operator with a suffix, such as
`FreeCount_plus1`, marked as seeded faults.  Nothing uses them: substituted for the
definition they are named after they break one property each, which shows that the
property can fail.

## Runs

| Run | Properties | What it shows |
|---|---|---|
| `SpScRing` | `InOrder` `SlotExclusive` `FifoRefinement` `AllDelivered` | no loss, duplication or reordering, no race on a slot, linearizability, delivery |
| `ConsoleQueues` | `RoundTripInOrder` `EchoFirst` `HeapOwned` `AcceptedIsRun` `AcceptedIsPrinted` | order over both queues, ownership of strings, progress |
| `MemPatch` | `RestoreExact` `NoPatchLeft` `OverwrittenIsMarked` `OriginalsMoved` | unloading takes back exactly the patches, over any number of reloads; of a patched byte that the game wrote itself it leaves a value of the game's |
| `Console` | `ShowsLatest` `SlotsOwnHeap` `BrowsesCommands` `HistoryIsRecent` `LiteralFreedOnLoop` | the log shows the latest lines, nothing is leaked, the history offers each command once |
| `Csh` | `SavedMarkHonest` `NoDuplicates` `BlocksKept` | marks and bindings agree with what the file and the pending saves will give the next start, also after a flush that was cut off |
| `SettingsPopup` | `FreedOnce` `RebindFindsItself` `NeverStale` `AtMostTwo` | the lists stay consistent enough for freeing, rebinding and lookup; the pop-up gives no action a third working hotkey |
| `WindowMode` | `ModeSettles` `RectMirrored` `ReturnsToPlace` | window and variables agree once all is handled; full screen is left to the old place.  The position may be off by the border of the other style |
| `IdMap` | `Balanced` `FindsAll` `IdsKept` `AsksInOrder` | the tree stays balanced and loses no node; over any number of processes and cut saves a lid keeps its id unless a process ended without it in the file, and no two lids share one until the ids run out; early lookups are answered once and in order |
| `Daemon` | `ServedIsReady` `ServedInRound` | no handler blocks on the first socket a round opens because it has a reported number; no reported command is left for later |
| `HotReload` (module `GameHooks`) | `LoadedIsKnown` `ThreadsRunAgain` `HookEnds` `HooksEnterLoaded` `GameHandlerKept` `ContextOnce` | never two of the daemon's copies of the DLL, whether or not the game has loaded its own, no thread left suspended, hooks end; redirected calls lead into the loaded copy, messages reach the game, one drawing context |
| `CshProfile` | `StartAppliesProfile` violated | the profile of the command line selects nothing |
| `HotkeysChain` | `ChainKept` violated | rebinding drops hotkeys behind the node from their key's list |

Bounds.  `SpScRing`: two slots and counters mod 4, six posts: slots are reused three times, the
counters wrap once, the ring is full and empty in both phases; the theorems cover every size and
modulus.  `ConsoleQueues`: two messages per queue and five commands fill both queues and refuse
on both.  `MemPatch`: two pages of three bytes suffice for a patch, a jump operand and a
trampoline, a byte of the one page that only others write and a byte of the other that is patched
and that the game writes; a byte has two values.  `Console`: four slots, so that three lines show
and a middle one can be blank; five commands and six lines.  `Csh`: one variable, one hotkey and
two values, since keys do not affect each other unless one name is the beginning of another
(`StartsWith`; no two names the DLL registers are); `MaxFaults` bounds failing opens and removals
of the file, `MaxMark` the marks.  A flush is cut off at most once, instead of other faults, and
what follows a cut that leaves a block open is not explored (`Closed`).  The `VIEW` leaves out
`profile`, on which no step depends.  `SettingsPopup`: one key with three combinations of
modifiers, since the lists of different keys touch only on the actions' lists, which are the same
for combinations of one key; three nodes make a chain with a beginning, a middle and an end, and
a third hotkey of an action.  `WindowMode`: a screen of six by six, a window that is near one of
its edges, every kind of request once, three messages waiting; a rectangle has an x, a width and
a height.  The borders take one off the x and the height and two off the width.  Each round trip
through the styles can move the window by a border, so that its position drifts without end:
`MaxDrift` ends the requests for a position once it is further than two from 0. `Avl`: nine keys
and nine nodes, with which rotations of both kinds happen on two levels, also below a moved node;
`MaxHeight` is more than nine nodes reach; in `IdMap` two long lids
and one short one.  Where lookups are made there are two types and the one that goes with both, two
elements and two lookups in one process, ids up to two and none of them lost, and any number of
processes.  Where the map is followed over processes that may lose ids nobody asks: the largest
long is 3 and five ids are given out, so that the counter goes past it.  `Daemon`: six slots, seven socket numbers and one debugger session: the
table is full with a number to spare, numbers are used again, and a socket can be opened on
either side of one that was closed; the theorems cover every number of slots, sockets and
sessions.  `HotReload`: the main thread and two more, and four copies of the DLL, so that a hook
follows a hook, beside the game's own; the theorems cover every set of threads and every number
of copies.

Fairness.  `SpScRing` and `ConsoleQueues` assume weak fairness of each thread: the game calls the
tick hook and the end-of-scene hook for as long as it runs, and a thread that is in a call leaves
it.  `HotReload` assumes that the daemon takes its next step when it stays possible, that
`LoadLibrary` gets the loader's lock when it is free again and again, and that a running thread
gives the lock back; the game's end, users and debuggers are not fair, and a game that a debugger
has stopped may hold a hook forever.  The user's typing and the key that hides the interface are
not fair, which is why a response is promised only unless the overlay is hidden.

## What is proved

`SpScRing_proofs`, for every set of messages, every size that divides the modulus and is
less than it, and any number of posts: `RingInvariant`, `RingTypeOK`, `RingInOrder`,
`RingSlotExclusive`, and `RingImplementsFifo`, which says that the ring implements
`MsgFifo`.  None of the properties is inductive alone.  `IInv` adds that the counters are
the lengths of the histories mod `W` (`Counters`), that the messages between them are in their
slots (`LiveSlots`), and what the copies in a call are worth: the own counter is exact, the
other side's is a value it had, at most `Size` behind (`ProducerView`, `ConsumerView`).
From that, room that the producer sees is really there, and so is a message that the
consumer sees; slots of different live messages differ because fewer than `Size` counts
lie between them.

`Common_proofs`, of `MemPatch`, for every page size, number of pages and layout of patches that
fits (`SitesFit`: no patch crosses a page, and nobody else, nor another patch, touches the
instructions that a trampoline replaces, while any other patched byte may be written by the game;
`MCMemPatch` has TLC evaluate it): `PatchInvariant`, `UnloadRestores` (`RestoreExact`),
`PatchesLeave` (`NoPatchLeft`), `PatchesAreMarked`, `TrampolinesRunOriginals`.  `IInv` adds that
a snapshot holds, at every address that is ever patched, a byte that the game has had there, and
its latest one unless the game wrote it later (`SnapshotIsPristine`; unpatched bytes go on
changing, which is why a restore must not copy whole pages), that unmarked bytes are the game's
(`UnmarkedIsPristine`), that marked bytes have a snapshot (`MarkedIsPaged`), that a trampoline's
bytes are untouched until it is placed (`TrampUntouched`), that the moved bytes are trampolines'
(`MovedIsTramp`), which nobody else changes later, and that only bytes others write are ever
overtaken or stale (`OthersWrote`).

The same module, of `Avl`, for every set of keys and any number and height of nodes:
`TreeInvariant`, `TreeBalanced` (`Balanced`) and `SearchFindsAll` (`FindsAll`).  A tree is no
higher than `MaxHeight`, which may be any number, so that `insert`, `remove_node` and the
search are functions that are recursive over a set; each is first unfolded by one call
(`InsertIs`, `RemoveIs`, `FoundIs`), which needs that such a function exists.  What they do to
every balanced tree follows by induction over its height (`InsertWorks`, `RemoveWorks`,
`FoundWorks`): the result is balanced, at most one higher or lower than before, and differs by
the one node.  `insert` chooses between a single and a double rotation by the new key alone;
that this is right needs that a branch which has grown leans to the new key (`Leans`).
Removals are proved for their use, in which no two nodes have a key in common (`Alone`).

And of `IdMap`, for any lids, types and bounds and any number of processes: `MapInvariant`,
`LidsKeepIds` (`IdsKept`) and `CallbacksInOrder` (`AsksInOrder`).  For the first: no id is above
`max_id`, the map holds what the file holds, an element has the id of its mapping, and so has
every lid that was ever given an id which no process lost (`IdsInv`), so an id that is given out
is new in the map, as long as the one behind the largest long was not given (`Worn`).  An id that
a cut save lost may be given again, to another lid: the theorem says what is left.  For the
second: a callback for a long lid waits at the element that a lookup of its lid and type arrives
at (`Located`), each once and in the order in which it was accepted.  An element is only added
where no other goes with its lid and type (`NoneGoes`), so it diverts no lookup that arrived at
another (`AskedStays`), and all callbacks for one long lid and type are in one queue.

`ConsoleQueues_proofs`, for queues of any capacity and any number of commands:
`QueuesInvariant`, `CommandsRoundTrip` (`RoundTripInOrder`), `ResponseBelowCommand`
(`EchoFirst`) and `StringsOwned` (`HeapOwned`).  The commands that were run come before the
one being run and that before those in the queue, in the order of their numbers
(`CommandsInOrder`), and the responses likewise, each of a command that was run
(`ResponsesInOrder`); a number in use is that of a typed command and the next one is new
(`NumbersTyped`); what a full queue refused is in no queue (`RefusedIsGone`); and a typed
command is on the screen or was cleared from it (`TypedIsEchoed`), which is why its response
comes below it.

`Console_proofs`, for rings of any size, any heap and any number of prints and commands:
`ConsoleInvariant`, `LatestLinesShown` (`ShowsLatest`), `LinesFreedInTurn` (`SlotsOwnHeap`),
`ArrowsFindCommands` (`BrowsesCommands`), `HistoryOffersRecent` (`HistoryIsRecent`) and
`LiteralIsFreed` (`LiteralFreedOnLoop`).  Nothing
takes an entry off these rings, so where one begins follows from where it ends (`Span`).  The
lines of the log are in the slots of their numbers (`LinesInSlots`), also the one that has
just dropped out, which the next print frees and a clear leaves alone; what a slot that is not
dangling holds is allocated, and held by no other (`Owners`).  The newest entry of the history
is never an erased one, which is what the arrow key finds first; the slot of every command
that the ring still has holds its text, or is erased if that was typed again later
(`EntryOf`, `CommandsInSlots`).  As in the runs, nothing is
said of what follows once a dangling pointer was freed again.

`Csh_proofs`, for any variables, hotkeys and values and files of any length: `NeverDuplicated`
(`NoDuplicates`), `FlushesKeepBlocks` (`BlocksKept`), `FlushReadsBack` and `MarksHonest`
(`SavedMarkHonest`).  Of the user's files it is assumed that each sets a key once outside the
blocks, and that no key is the beginning of another.  The last three speak of files whose blocks
have their ends (`Closed`), at every step of the behaviour in the theorems of `Spec`: a flush
that was cut off inside a block makes them false, as is told below.  A flush is a series of
`SetCmd`s and a start a series of lines (`SetAll` and the reading are recursive functions);
induction over them (`NatSet`) shows what a flush leaves of each line, and that reading it back
gives the saved value unless a block behind it sets the key again.  The invariant (`HonestInv`)
adds to the property that the file and the pending saves are well-formed (`TypesInv`) and that
what a flush could not write has its blocks closed too.

`Hotkeys_proofs`, for any keys, modifiers and actions and any number of nodes, of the table
alone and under the settings window: `ResetFreesOnce` (`FreedOnce`), `RebindTakesItsNode`
(`RebindFindsItself`) and `PressRunsLast` (`NeverStale`).  A node that a rebinding dropped
from its key's list stays on an action's list with the key and the modifiers of a node bound
later, and the search by those two must not find it.  It does not, because a node is put at
the head of its action's list whenever it is bound, before every dropped one like it
(`ReachedFirst`), and because no two nodes that a key press reaches are alike (`KeyLists`);
every node is on the list of its action once and on no other (`ActionLists`).
`PopupImplementsTable` is the refinement that carries this over: every step of the settings
window's threads, between the two commands of OK also, binds one hotkey, resets the table or
leaves it alone.  `PopupKeepsTwo` (`AtMostTwo`, about steps) says that OK gives no action a
third hotkey that works, although a dropped one is still listed for its action: at most two
work while the pop-up is open, and one of its action after OK took one off (`FewWork`).  What
OK does without an action unbinds hotkeys, or binds one to nothing, and so adds none that works.

`WindowMode_proofs`, for any screen, margin, least size and commands and any number of
messages: `WindowHasItsMode` (`ModeSettles`), `VariablesTellWindow` (`RectMirrored`) and
`FullscreenGivesBack` (`ReturnsToPlace`, about steps).  The first two say something of settled
states only; in between, whatever a variable says that the window is not is announced: its
callback is about to run, or a message about it is queued (`ModeAnnounced`, `RectAnnounced`).
The last message's handler reads the variable as it is by then.  For the rectangle the invariant
says that the variables tell the client area's size and, for the position, that the border
taken off is one of the two styles' (`PositionTold`, `SizeTold`); that it is this style's is
false, as is told below.  The third needs the saved
rectangle to be the one from before full screen was entered (`SavedIsBefore`).

`Daemon_proofs`, for any number of slots, sockets and sessions: `OpenedWaitsForSelect`
(`ServedIsReady`) and `ReportedIsServed` (`ServedInRound`).  What a round
has still to do is ahead of the slot it has come to (`WaitingIsAhead`), whose socket `select`
has reported (`EntryIsReady`).  As long as a round has opened nothing, a reported socket that
is not open any more has left a free slot behind the loop (`ClosedLeftRoom`); a socket that
gets its number therefore gets a slot that was visited (`OpenedIsBehind`), and stays open, so
that the number is not given out again (`OpenedIsHeld`).

The same module, of `HotReload`, for every set of threads and any number of copies:
`ReloadInvariant`, `OneDllLoaded` (`LoadedIsKnown`) and `HookResumesThreads` (`ThreadsRunAgain`).
Neither property is inductive: what a hook does depends on what its earlier steps have
established.  `IInv` adds that the daemon calls `LoadLibrary` only when no copy of its own is
loaded (`LoadsIntoNothing`; the game's own may be, after an injection that failed), that the
suspend counts between the steps are those of before plus one for the threads in the snapshot
(`SuspendCounts`), that the first thread is in every snapshot (`FirstThreadSeen`), and that a
game that is gone has no threads, copies or lock (`GoneIsEmpty`).

And of `GameHooks`, for the same constants: `HooksImplementReload`, so that what is proved of
`HotReload` holds of the composition, which adds state and no step of its own to the daemon's;
`CallsEnterLoaded` (`HooksEnterLoaded`), `MessagesReachGame` (`GameHandlerKept`) and
`OneContext` (`ContextOnce`).  What a copy does when it is loaded depends on whether one was
loaded before, so the invariant says what a game that no copy has marked cannot have
(`NothingBeforeMark`), that a loaded copy has marked it (`LoadedHasMarked`), that the loaded
copy knows the device if the region does, and that there is a context just then
(`DeviceIsRegion`, `ContextWithDevice`), and that no copy has the number of an earlier one
(`CopiesAreNew`), so that the window's procedure is not the new copy's before its first tick.
Since two copies may be loaded, it also says what an unload brings back (`RestoredIsThere`), that
there is no window and no tick before the game's own load is past (`BeforeWindow`), and that the
copy that ticks has its queue (`TickHasQueue`).

Only model-checked: liveness (`AllDelivered`, `AcceptedIsRun`, `AcceptedIsPrinted` and
`HookEnds`), which is out of the prover's reach.  The bounds that the runs give the models, such
as `MaxNodes`, `MaxHeight` or `MaxEls`, are any numbers in the theorems.

## What the code does that its comments do not say

Two disagreements have a run (see above).  Others were met while modelling:

* `backup_mem` (`common.c` 320) counts pages by length only: a patch across a page
  boundary would not be restored on its second page.  No patch in the source crosses one;
  `SitesFit` is that assumption.
* The game may write the console's flag at 0x927cc8 when it starts, which is why `main.c` 243-244
  patches it a second time.  The snapshot of its page is older (`main.c` 971), and unloading the
  DLL brings the older value back (`stale` of `MemPatch`).
* `input.c` 1007 removes pending saves by the hotkey's text, `bind` saved them under
  `bind "<hotkey>"` (989): a bind that was not flushed survives a revert (`csh_config.h`
  49).  `AfterReset` models it.
* `console_clear` (`win_console.cpp` 133-142) frees the lines and rewinds the log, but leaves
  their pointers in the slots; the next prints take those for entries that a full ring
  overwrites, and free them again (118-119).  `Console` follows the log up to there.
* `csh_var_set_modified` (`csh.c` 585) adds one to the saved value where `csh.h` 93 promises
  that modified variables are saved: a variable then set to that very value is skipped.
* `csh_init` (`csh.c` 678) resets the variables on its first call only: a revert leaves those
  that the file does not set at their unsaved values.
* `csh_register_var` (`csh.c` 898-902) does not copy the default for a name it knows, so a
  DLL loaded again starts with zeroes (`csh.h` 113).  The action `HotReload` of `Csh` models it.
* `set_cmd` (`csh_config.c` 226) compares the key's length only: `set test1` overwrites the line
  `set test15`.  `Matching` models it; no registered names are affected.
* A flush that is cut off inside a block (`csh_config.c` 294-317) leaves it without its end.
  The lines that later flushes append are then inside the block: `set_cmd` does not find
  them, though its comment (222) has them override what is in the blocks, so each flush
  appends the line again, and a start under another profile skips them all.
* `set_cmd` updates a line in front of a block that sets the same key, which goes on
  overriding it (`csh_config.c` 222).  `Overridden` marks such keys.
* Removing a node of the tree that has two children, when the successor has equal keys behind
  it, leaves those in the right subtree (`avl.c` 236-247): the key is then in the tree
  twice, and a search finds the successor only.  Removing a node that is not in the tree
  inserts it when its place is free (178-180).  `Avl` models both.
* Full screen asked for twice saves the full screen's rectangle as the window's (`window.c`
  69); a "windowed" request that changes nothing moves the window to where it was when last saved.
* Each resize writes the window's size back to the variables, so of a width and a height set
  in a row the second is lost when the first message is handled after it.
* `hooked_on_windows_move` measures the border's width at the first move after a resize
  (`window.c` 288-299), and `hooked_on_window_resize` has it measured anew (260, "reset it").
  When the style changes, the move comes before the resize, so it may take off the border of the
  style before, or that of an earlier one: the variable, which a save writes and the next
  callback uses, is then off by a border, and the window moves by one when it is applied
  (`RectMirrored`).
* The saved position is not used at the next start: unless both are -1 the window opens at
  0,0 (`window.c` 632-643).
* Cancel leaves the settings pop-up listening (`win_settings.cpp` 335): the next key is
  swallowed and is offered in the next pop-up.
* `prevkey` (`win_settings.cpp` 316) and `keys` of the table have room for two hotkeys of an
  action, which nothing checks.  Commands can bind a third; OK cannot (`AtMostTwo`), although a
  node that was dropped from its key's list is still listed for its action.  A pop-up that
  closes because its action is gone (269-271) goes on to draw OK, which then lists the hotkeys
  that are bound to nothing: every one that was taken off is among them, so there may be any
  number.  Where more than two would be printed `SettingsPopup` stops (`Room`).
* A key whose name contains `+` cannot be bound: the name is read from after the last `+`
  (`input.c` 947).
* When a connection is closed in a round, the socket of one accepted later in it takes its
  slot, with whatever number is free.  If a command then opens another socket, it may get the
  closed one's number and a slot that the round has still to visit (`daemon.c` 326-333): its
  handler is called because `readfds` has the number's bit, and the daemon's only thread
  waits in `accept` or `recv`.  It takes six slots to happen; `ServedIsReady` therefore
  speaks of the first socket that a round opens.
* If the daemon's second port is taken, `init_ipc`'s failure is ignored (`daemon.c` 308)
  and the first client gets slot 1, whose end stops the daemon (338).
* `terminate_gdb` may kill the pipe's thread between its connect and its send
  (`daemon_gdb.c` 210); `handle_ipc_sockfd` then waits for a message that never comes.
* A second debugger takes over the handles of the first one's session (`daemon_gdb.c` 382),
  and a connection for which no slot is free is neither served nor closed.
* The first copy of the DLL redirects two calls of the game (`main.c` 1115-1121) that no later
  copy redirects again: after a reload they lead into memory that is no longer there, unless the
  next copy lands at the same address.  One is made when the configuration is read, so a reload
  before that ends the process.  These are `early` of `GameHooks`.
* A game that was started without the DLL and is hooked later gets what a game gets that has
  not yet read its configuration: the tick is redirected, `init_hooks` would only be called
  by the reading of the configuration that has passed, and the first tick finds no queue.
* Between a reload and the first tick after it the game's window sends its messages to the
  procedure of the copy that was unloaded (`window.c` 613 runs in the tick).
* A thread that was suspended inside the DLL, such as the one that `reload_title_cb` keeps
  (`main.c` 44-72), goes on in memory that is no longer there.
* `hooked_a3d_end_scene` stores the device (`d3d.c` 82) before it makes the context.
* Asking for an element by its id, when it has a long lid and is not yet set, takes the
  placeholder that an earlier lookup made for the element to be set: the earlier callback is
  made with no data (`idmap.c` 237 with 295-303, against the comment at 208).  `AskById`
  models it.  Once the element is set such a lookup is refused (285).  `pw_idmap_get` by id may
  return a placeholder (182), whose data is its list of callbacks.
* A short lid of another type may be set between lookups by that id, which then are answered
  out of order; `AsksInOrder` speaks of long lids.
* In the crash handler the flag `crashed` is tested and then set (`crash_handler.c` 402-467), so
  two threads that crash at once may both report; a second crash that sees the flag ends the
  process while the first is still writing.
* `alt_f4_pressed` of `window.c` is set by F4, with Alt or without, and cleared only when F4 is
  released with Alt held; until then WM_CLOSE does not quit.
* `minimized` of `window.c` follows SC_MINIMIZE and SC_RESTORE only, so a window that `ShowWindow`
  minimised (510, 556) does not have the protection of WM_ACTIVATEAPP (579).
* If the DLL cannot be injected into a game that was started suspended, it stays suspended.
* If it cannot be injected into one that was not, the game is resumed all the same
  (`daemon_gdb.c` 181-187) and, not being patched at 0x43abd9, loads its own `gamehook.dll`
  (`main.c` 1108).  `g_game_dll` is NULL then, the next hook's FreeLibrary does nothing, and a
  second copy is loaded beside the game's own, which stays until the game ends.  The same happens
  to a hook that comes when the first thread is already in that call.  `LoadedIsKnown` and
  `HooksEnterLoaded` say what holds nevertheless.
* When the DLL's own initialisation fails, the crash handler that it registered goes on leading
  into it.  That of the game's own copy is exempt in `HooksEnterLoaded`.
* Ids are not kept apart from those that a cut save or an unsaved end has lost: a lid that is not
  in the file is given another id by the next process, and its old one goes to the next new
  lid (`idmap.c` 351, 363-366).  An id that other files or the game have stored then means
  another element (`lost` of `IdMap`).
* `max_id + 1` wraps behind 0x7fffffff (`idmap.c` 351).  The comparison with `max_id` (365) may
  then go either way, the same id may be given twice, and the assertion on ids ends the process
  (`Worn`).

## Assumptions and omissions

Accesses to the ring happen in program order (the compiler barriers, and x86's memory model).  A
log print is one step, though several threads print.  `restore_mem` is one step in `MemPatch`;
that the daemon kills the unloading thread after 500 ms is an action of `HotReload`, which looks
at the threads and copies and not at the pages.  `patch_mem_static_init` reads a list node after
freeing it (`common.c` 725-726) and is taken to find it intact.  csh calls are atomic under their
recursive mutex.  A reloaded DLL lands at its old address.  Variables are integers; no variable
of a type that is not printed exactly is registered.  The order in which saves of several
variables are flushed follows the tree and is any fixed order here.  Nobody edits the
configuration file while the game runs, but it may be deleted.

In `ConsoleQueues` the log has no bound and the context menu's Clear (`win_console.cpp` 419),
which does what the command `clear` does, is left out.  In `Csh` a key that the code treats as
the list above says (`drifted`) is exempt from `SavedMarkHonest` until it is saved or read again.

In `WindowMode` a message is handled in one step, though `set_fullscreen_cb` reads `r_fullscreen`
twice (`window.c` 69, 78), and the y axis is left out, being handled as the x axis is.  In
`SettingsPopup` the text of the pop-up is read and written whole, the settings window stays open
while its pop-up is, and nothing happens once a frame would print more than two hotkeys of an
action, where the code writes past an array.  In `Avl`'s run nodes with equal keys are inserted
and found, and removed with distinct keys only.  In `Daemon` the first two sockets are the
server's own, `start_ipc`'s error 1 is taken for a socket as the code takes it, a message of the
ipc client that fails or comes short (`daemon.c` 246-256), which would leave its connection open
and unserved, does not occur, and the output buffers that sessions share are left out; deadlock
is not checked because the wait of `handle_ipc_sockfd` described above is one.  In `HotReload`
the threads of a snapshot are suspended in one step and none of them fails to open; a process
that was created but could not be opened is not followed.  In `GameHooks` the first frame is one
step; a call into a copy that is gone, and a failed assertion, end the process, which it may do
at any time; a hook that fails leaves the other hooks of its function undone as `init_hooks`
does.  In `IdMap` one program uses the file at a time, and a callback does not call the map.

## Plan

Done: the rings, the round trip, patching, the console, the configuration, the hotkeys with
the pop-up that rebinds them, the window's mode, the tree, the ID map, the daemon's sockets, hot
reload and the game's redirected calls; proofs of every safety property that a run checks.
Left: finer steps, such as prints of several threads that meet in the log, an unload that is
killed inside `restore_mem`, and a key press that meets a reset; and proofs about removals
from a tree with equal keys, which nothing in the DLL does.

## Not modelled

What the hooks of game functions do, and the bindings, have their state in the game's binary.
`pw_item_desc.c` keeps a tree of texts that is read once and otherwise only looked up.  The
crash handler is a report written from system calls.  `csh`'s command lookup, completion and
number formatting, and all drawing, have no state beyond a call.
