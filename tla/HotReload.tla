----------------------------- MODULE HotReload -----------------------------
(***************************************************************************)
(* The daemon's dealings with the game process (daemon_gdb.c): starting    *)
(* it, and swapping the gamehook.dll loaded in it for the next copy.  The  *)
(* swap suspends the game's threads, runs FreeLibrary and LoadLibrary in   *)
(* threads of the game's process, and resumes the threads.  Meanwhile the  *)
(* game may exit, threads it started after the snapshot still run, any of  *)
(* them may hold the loader's lock, which both calls need, and a debugger  *)
(* may have stopped the process.  A game that no copy was loaded in before *)
(* it runs loads gamehook.dll itself; the daemon knows nothing of that one.*)
(***************************************************************************)
EXTENDS Integers

CONSTANTS
  Main, Extra,  \* the process's first thread, and those it may start later
  NoDll,        \* NULL, as g_game_dll
  Own,          \* the gamehook.dll that the game loads itself
  NoDebugger,   \* no gdb is attached
  MaxCopies     \* bound on the copies of the DLL made

Thread == {Main} \cup Extra

ASSUME HotReloadAssumption ==
  /\ Main \notin Extra /\ MaxCopies \in Nat
  /\ NoDll \notin Nat /\ Own \notin Nat /\ Own # NoDll

VARIABLES
  alive,     \* the process g_game_procid names is running
  handle,    \* g_game_handle is not NULL
  susp,      \* the suspend counts of the process's threads
  loaded,    \* copies of the DLL loaded in the process
  dll,       \* g_game_dll, the number of a copy
  copies,    \* g_hookcount
  paused,    \* g_game_mainthread is not NULL
  lock,      \* the loader's lock: "free", a thread, or "lost" with a killed thread
  debugger,  \* the debugger attached to the process
  broken,    \* it has stopped the process
  hook,      \* where game_hook is
  snap,      \* the threads in the snapshot of foreach_thread
  marked,    \* the bytes at 0x43abd9 keep the game from loading gamehook.dll
  own        \* the game's own load is "ahead" of the first thread, it is "calling"
             \* LoadLibrary, or is "past" it

selfload == <<marked, own>>
vars == <<alive, handle, susp, loaded, dll, copies, paused, lock,
          debugger, broken, hook, snap, selfload>>

Init ==
  /\ alive = FALSE /\ handle = FALSE
  /\ susp = [t \in {} |-> 0] /\ loaded = {} /\ dll = NoDll /\ copies = 0
  /\ paused = FALSE /\ lock = "free" /\ debugger = NoDebugger /\ broken = FALSE
  /\ hook = "idle" /\ snap = {}
  /\ marked = FALSE /\ own = "past"

Live       == DOMAIN susp
Runs(t)    == alive /\ ~broken /\ t \in Live /\ susp[t] = 0
WithThreads(new) == [t \in Live \cup new |-> IF t \in Live THEN susp[t] ELSE 0]
Running    == alive /\ handle
\* GetExitCodeProcess leaves its result unset for a NULL handle.
SaysAlive  == {Running} \cup (IF handle THEN {} ELSE {TRUE})
-----------------------------------------------------------------------------
(* start_game *)

\* The process starts suspended, inject() loads the DLL, and the first thread runs
\* unless a debugger is to be attached first; d is the one attached at once.
StartGame(start_paused, injected, d) ==
  /\ copies < MaxCopies /\ copies' = copies + 1
  /\ alive' = TRUE /\ handle' = TRUE
  /\ susp' = [t \in {Main} |-> IF start_paused THEN 1 ELSE 0]
  /\ loaded' = IF injected THEN {copies} ELSE {}
  /\ dll' = IF injected THEN copies ELSE NoDll
  /\ paused' = start_paused
  /\ lock' = "free" /\ debugger' = d /\ broken' = FALSE
  /\ marked' = injected /\ own' = "ahead"
  /\ UNCHANGED <<hook, snap>>

\* CreateProcess fails, or OpenProcess does and the process is left to itself.
StartFails ==
  /\ handle' \in {handle, FALSE}
  /\ UNCHANGED <<alive, susp, loaded, dll, copies, paused, lock, broken, hook, snap,
                 debugger, selfload>>
-----------------------------------------------------------------------------
(* game_hook *)

HookStarts ==
  /\ hook = "idle" /\ FALSE \in SaysAlive
  /\ StartFails \/ (\E injected \in BOOLEAN : StartGame(FALSE, injected, NoDebugger))

\* Without a handle an unset result would start a hook that can create no thread in the
\* process, and that leaves everything as it was.
HookReloads ==
  /\ hook = "idle" /\ Running /\ copies < MaxCopies
  /\ hook' = "suspend" /\ snap' = Live
  /\ UNCHANGED <<alive, handle, susp, loaded, dll, copies, paused, lock, broken,
                 debugger, selfload>>

Suspend ==
  /\ hook = "suspend" /\ hook' = "unload"
  /\ susp' = [t \in Live |-> IF t \in snap THEN susp[t] + 1 ELSE susp[t]]
  /\ UNCHANGED <<alive, handle, loaded, dll, copies, paused, lock, broken, snap,
                 debugger, selfload>>

\* detach_dll: FreeLibrary has returned, perhaps with an error, which nobody reads.
Unload ==
  /\ hook = "unload" /\ hook' = "load"
  /\ alive => lock = "free" /\ ~broken
  /\ loaded' = loaded \ {dll}
  /\ UNCHANGED <<alive, handle, susp, dll, copies, paused, lock, broken, snap, debugger,
                 selfload>>

\* Seeded faults: each replaces the action of the same stem when the properties are
\* tested for being able to fail.
UnloadFails_go_on ==
  /\ hook = "unload" /\ hook' = "load"
  /\ UNCHANGED <<alive, handle, susp, loaded, dll, copies, paused, lock, broken, snap,
                 debugger, selfload>>

UnloadFails_return ==
  /\ hook = "unload" /\ hook' = "idle"
  /\ UNCHANGED <<alive, handle, susp, loaded, dll, copies, paused, lock, broken, snap,
                 debugger, selfload>>

\* The remote thread cannot be created, or it is killed after 500 ms: before it ran,
\* in the middle with the lock in its hands, or when it had just finished.
UnloadFails ==
  /\ hook = "unload" /\ hook' = "resume"
  /\ \/ UNCHANGED <<loaded, lock>>
     \/ alive /\ lock = "free" /\ ~broken /\ lock' = "lost" /\ UNCHANGED loaded
     \/ alive /\ lock = "free" /\ ~broken /\ loaded' = loaded \ {dll} /\ UNCHANGED lock
  /\ UNCHANGED <<alive, handle, susp, dll, copies, paused, broken, snap, debugger,
                 selfload>>

\* inject: a new copy of the file, and LoadLibrary on it, without a time limit.  Code
\* of the DLL runs, which marks the game and may start threads.
Load ==
  /\ hook = "load" /\ hook' = "resume"
  /\ copies' = copies + 1
  /\ \/ /\ alive /\ lock = "free" /\ ~broken
        /\ loaded' = loaded \cup {copies} /\ dll' = copies
        /\ \E new \in SUBSET Extra : susp' = WithThreads(new)
        /\ marked' = TRUE
     \/ /\ alive => lock = "free" /\ ~broken
        /\ dll' = NoDll /\ UNCHANGED <<loaded, susp, marked>>
  /\ UNCHANGED <<alive, handle, paused, lock, broken, snap, debugger, own>>

\* Every thread in a new snapshot; resuming a thread that runs does nothing.
Resume ==
  /\ hook = "resume" /\ hook' = "idle"
  /\ susp' = [t \in Live |-> IF susp[t] > 0 THEN susp[t] - 1 ELSE 0]
  /\ UNCHANGED <<alive, handle, loaded, dll, copies, paused, lock, broken, snap,
                 debugger, selfload>>

HookStep == Suspend \/ Unload \/ UnloadFails \/ Load \/ Resume
-----------------------------------------------------------------------------
(* The game *)

Exit ==
  /\ alive /\ alive' = FALSE
  /\ susp' = [t \in {} |-> 0] /\ loaded' = {} /\ lock' = "free"
  /\ debugger' = NoDebugger /\ broken' = FALSE
  /\ marked' = FALSE /\ own' = "past"
  /\ UNCHANGED <<handle, dll, copies, paused, hook, snap>>

\* The first thread comes to where the game loads gamehook.dll unless it was patched.
OwnLoadBegins ==
  /\ Runs(Main) /\ own = "ahead"
  /\ own' = IF marked THEN "past" ELSE "calling"
  /\ UNCHANGED <<alive, handle, susp, loaded, dll, copies, paused, lock, broken, hook, snap,
                 debugger, marked>>

\* LoadLibrary in the game's first thread, which may fail.
OwnLoad ==
  /\ Runs(Main) /\ own = "calling" /\ lock \in {"free", Main}
  /\ own' = "past"
  /\ \/ /\ loaded' = loaded \cup {Own} /\ marked' = TRUE
        /\ \E new \in SUBSET Extra : susp' = WithThreads(new)
     \/ UNCHANGED <<loaded, marked, susp>>
  /\ UNCHANGED <<alive, handle, dll, copies, paused, lock, broken, hook, snap, debugger>>

Spawn ==
  /\ \E t \in Live : Runs(t)
  /\ \E t \in Extra \ Live : susp' = WithThreads({t})
  /\ UNCHANGED <<alive, handle, loaded, dll, copies, paused, lock, broken, hook, snap,
                 debugger, selfload>>

\* Who has it between two hooks makes no difference.
TakeLock ==
  /\ hook # "idle" /\ lock = "free" /\ \E t \in Live : Runs(t) /\ lock' = t
  /\ UNCHANGED <<alive, handle, susp, loaded, dll, copies, paused, broken, hook, snap,
                 debugger, selfload>>

ReleaseLock ==
  /\ \E t \in Live : Runs(t) /\ lock = t
  /\ lock' = "free"
  /\ UNCHANGED <<alive, handle, susp, loaded, dll, copies, paused, broken, hook, snap,
                 debugger, selfload>>

Break ==
  /\ debugger # NoDebugger /\ ~broken /\ broken' = TRUE
  /\ UNCHANGED <<alive, handle, susp, loaded, dll, copies, paused, lock, hook, snap,
                 debugger, selfload>>

Game == Exit \/ OwnLoadBegins \/ Spawn \/ TakeLock \/ ReleaseLock \/ Break
-----------------------------------------------------------------------------
(* Debugger sessions; the daemon handles them and hooks one after the other *)

\* handle_gdb_conn: gdb is started for a game that runs, and attaches to it unless it
\* fails or is not the first.  A first thread that waited for a debugger waits no more.
DebugRunning ==
  /\ hook = "idle" /\ TRUE \in SaysAlive
  /\ paused' = FALSE
  /\ susp' = IF paused /\ Main \in Live /\ susp[Main] > 0
             THEN [susp EXCEPT ![Main] = @ - 1] ELSE susp
  /\ debugger' \in IF alive /\ debugger = NoDebugger THEN {NoDebugger, "gdb"} ELSE {debugger}
  /\ UNCHANGED <<alive, handle, loaded, dll, copies, lock, broken, hook, snap, selfload>>

\* For a game that does not run: it is started, and resumed after gdb's start.  If the
\* DLL cannot be loaded there is no gdb, and nobody resumes the first thread.
DebugStarts ==
  /\ hook = "idle" /\ FALSE \in SaysAlive
  /\ \/ StartFails
     \/ StartGame(TRUE, FALSE, NoDebugger)
     \/ \E d \in {NoDebugger, "gdb"} : StartGame(FALSE, TRUE, d)

\* handle_gdb_input, "-exec-interrupt": DebugBreakProcess, of which a process without a
\* debugger dies.
Interrupt ==
  /\ hook = "idle"
  /\ Break \/ (debugger = NoDebugger /\ Exit)

\* The command "-exec-continue", written to gdb.
Continue ==
  /\ hook = "idle" /\ broken /\ broken' = FALSE
  /\ UNCHANGED <<alive, handle, susp, loaded, dll, copies, paused, lock, hook, snap,
                 debugger, selfload>>

\* terminate_gdb: the game goes on without its debugger, or goes down with it.
DebuggerKilled ==
  /\ hook = "idle" /\ debugger # NoDebugger
  /\ \/ Exit
     \/ /\ debugger' = NoDebugger /\ broken' = FALSE
        /\ UNCHANGED <<alive, handle, susp, loaded, dll, copies, paused, lock, hook,
                       snap, selfload>>

Session == DebugRunning \/ DebugStarts \/ Interrupt \/ Continue \/ DebuggerKilled

Next == HookStarts \/ HookReloads \/ HookStep \/ OwnLoad \/ Game \/ Session

Spec == Init /\ [][Next]_vars

\* The daemon and the threads of the game run; the loader's lock is given to who waits
\* for it.  Users, debuggers and the game's end are not fair.
FairSpec == Spec /\ WF_vars(HookStep) /\ SF_vars(Load) /\ WF_vars(ReleaseLock)
-----------------------------------------------------------------------------
(* Properties *)

\* Of the copies that the daemon makes, the game has none loaded but the one g_game_dll
\* names, which the next hook will unload: no two of them patch and hook the game at
\* once, however a hook fails and is tried again.  It says nothing of the copy that the
\* game loads itself when the one injected at its start failed: nobody unloads that one.
LoadedIsKnown == loaded \ {Own} \subseteq {dll}

\* The suspend count a thread has when no hook is under way: none is suspended but a
\* first thread that waits for a debugger.
Base(t) == IF t = Main /\ paused THEN 1 ELSE 0

\* Once a hook is over, also one that failed or that ran while new threads started,
\* every thread's suspend count is what it was.
ThreadsRunAgain == hook = "idle" /\ Running => \A t \in Live : susp[t] = Base(t)

\* A hook comes to an end, unless a debugger has stopped the game: LoadLibrary is
\* called only after a FreeLibrary that got the lock.
HookEnds == (hook # "idle") ~> (hook = "idle" \/ (hook = "load" /\ broken))
=============================================================================
