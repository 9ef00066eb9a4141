----------------------------- MODULE GameHooks -----------------------------
(***************************************************************************)
(* HotReload seen from inside the game: where the calls lead that copies   *)
(* of the DLL redirect.  restore_mem takes back only what patch_mem wrote. *)
(* The other redirections outlive the copy that made them and must be      *)
(* pointed at the next one, and what a copy needs from the one before it,  *)
(* such as the game's own window procedure, passes through libgamehook.dll *)
(* (main.c, d3d.c, window.c, extlib.c).                                    *)
(*                                                                         *)
(* A call that leads into a copy that is gone ends the process: Exit,      *)
(* which is always possible.  The same goes for a thread that was          *)
(* suspended inside a copy's code, and for a failed assertion.             *)
(***************************************************************************)
EXTENDS HotReload

CONSTANT OfGame  \* the game's own code, where no hook leads

ASSUME GameHooksAssumption == OfGame \notin Nat /\ OfGame # NoDll /\ OfGame # Own

\* Two copies are loaded at most, the game's own and one of the daemon's.
SideOf(c) == IF c = Own THEN "own" ELSE "copy"

VARIABLES
  stage,     \* of the game's first thread: "start", "configured", "window"
  early,     \* where calls go that only the first copy redirects: opening the
             \* configuration, and fseek
  tick,      \* where the call at 0x42bfa1 goes: OfGame or a copy
  reinit,    \* it goes to hooked_pw_game_tick_init
  frame,     \* where the ends of scenes and the device's resets go
  patched,   \* where the calls go that patch_mem redirects, the window's creation too
  under,     \* where they went when the daemon's copy redirected them
  report,    \* g_crash_cb of libgamehook
  wnd,       \* the procedure of the game's window
  queue,     \* for either side, its copy has made g_game_thr_queue
  device,    \* its g_device is not NULL
  orig,      \* its g_orig_event_handler
  handler,   \* the region "win_event_handler"
  regdev,    \* the region "d3d_device" is not NULL
  contexts,  \* calls of igCreateContext
  pinned     \* libgamehook stays loaded

targets == <<early, tick, reinit, frame, patched, under, report, wnd>>
statics == <<queue, device, orig>>
regions == <<handler, regdev, contexts, pinned>>
inside  == <<stage, targets, statics, regions>>
gvars   == <<vars, inside>>

FreshRegions == handler' = NoDll /\ regdev' = FALSE /\ contexts' = 0 /\ pinned' = FALSE
NoStatics(of) == [side \in {"own", "copy"} |-> of]
FreshStatics ==
  queue' = NoStatics(FALSE) /\ device' = NoStatics(FALSE) /\ orig' = NoStatics(NoDll)

GInit ==
  /\ Init
  /\ stage = "start"
  /\ early = OfGame /\ tick = OfGame /\ reinit = FALSE /\ frame = OfGame
  /\ patched = OfGame /\ under = OfGame /\ report = OfGame /\ wnd = OfGame
  /\ queue = NoStatics(FALSE) /\ device = NoStatics(FALSE) /\ orig = NoStatics(NoDll)
  /\ handler = NoDll /\ regdev = FALSE /\ contexts = 0 /\ pinned = FALSE
-----------------------------------------------------------------------------
(* What a copy does when it is loaded *)

InitPrehooks(c) == report' = c

\* patch_mem keeps what it overwrites first; the game's own copy never puts it back.
InitHooks(c) ==
  /\ queue' = [queue EXCEPT ![SideOf(c)] = TRUE]
  /\ patched' = c /\ under' = IF c \in {Own, patched} THEN under ELSE patched

\* Seeded fault: the regions are not read.
D3dHook_anew(c) == frame' = c /\ device' = [device EXCEPT ![SideOf(c)] = FALSE]

\* The copy takes over the device whose context an earlier one made.
D3dHook(c) == frame' = c /\ device' = [device EXCEPT ![SideOf(c)] = regdev]

\* DllMain in a game that no copy was loaded in before.
FirstAttach(c) ==
  /\ early' = c /\ tick' = c /\ reinit' = FALSE
  /\ FreshStatics
  /\ UNCHANGED <<frame, patched, under, report>>

\* Seeded fault: the tick is left to the copy before.
Reattach_no_tick(c) ==
  /\ InitPrehooks(c) /\ InitHooks(c) /\ D3dHook(c)
  /\ orig' = [orig EXCEPT ![SideOf(c)] = NoDll]
  /\ UNCHANGED <<early, tick, reinit>>

\* DllMain in a game that an earlier copy has marked.
Reattach(c) ==
  /\ InitPrehooks(c) /\ InitHooks(c) /\ D3dHook(c)
  /\ tick' = c /\ reinit' = TRUE /\ orig' = [orig EXCEPT ![SideOf(c)] = NoDll]
  /\ UNCHANGED early

\* DllMain of the copy c succeeds.
Attaches(c) ==
  /\ loaded' # loaded
  /\ IF marked THEN Reattach(c) ELSE FirstAttach(c)
  /\ UNCHANGED <<stage, wnd, regions>>

\* LoadLibrary finds no file, or init_prehooks or init_hooks fails and DllMain is called
\* again to detach.
AttachingFails(c) ==
  /\ loaded' = loaded
  /\ (marked /\ InitPrehooks(c)) \/ UNCHANGED report
  /\ UNCHANGED <<stage, early, tick, reinit, frame, patched, under, wnd, statics, regions>>

Attach      == Load /\ Attaches(copies)
AttachFails == Load /\ AttachingFails(copies)

\* restore_mem, and the end of libgamehook if only the copy kept it loaded.
Detach ==
  /\ Unload \/ UnloadFails
  /\ loaded' # loaded
  /\ patched' = under
  /\ IF pinned \/ Own \in loaded THEN UNCHANGED regions ELSE FreshRegions
  /\ UNCHANGED <<stage, early, tick, reinit, frame, under, report, wnd, statics>>

\* FreeLibrary is not called, fails, or is killed in the middle of DllMain.
DetachFails ==
  /\ Unload \/ UnloadFails
  /\ loaded' = loaded
  /\ \/ UNCHANGED patched
     \/ dll \in loaded /\ lock' # lock /\ patched' = under
  /\ UNCHANGED <<stage, early, tick, reinit, frame, under, report, wnd, statics, regions>>

GHookStep ==
  \/ Attach \/ AttachFails \/ Detach \/ DetachFails
  \/ (Suspend \/ Resume) /\ UNCHANGED inside
-----------------------------------------------------------------------------
(* The game's own copy *)

OwnAttach == OwnLoad /\ (Attaches(Own) \/ AttachingFails(Own))
-----------------------------------------------------------------------------
(* The process *)

FreshProcess ==
  /\ stage' = "start" /\ frame' = OfGame /\ patched' = OfGame /\ under' = OfGame
  /\ report' = OfGame
  /\ wnd' = OfGame /\ reinit' = FALSE
  /\ FreshStatics /\ FreshRegions

\* A start that fails makes no copy of the DLL.
Start ==
  /\ HookStarts \/ DebugStarts
  /\ IF copies' = copies THEN UNCHANGED inside
     ELSE /\ FreshProcess
          /\ \E t \in {IF loaded' = {} THEN OfGame ELSE dll'} : early' = t /\ tick' = t

\* Nothing is left of a process that ends.
Others ==
  /\ HookReloads \/ Game \/ DebugRunning \/ Interrupt \/ Continue \/ DebuggerKilled
  /\ IF alive /\ ~alive'
     THEN FreshProcess /\ early' = OfGame /\ tick' = OfGame
     ELSE UNCHANGED inside
-----------------------------------------------------------------------------
(* The game runs *)

\* hooked_open_local_cfg, if its copy is there still.
OpenLocalCfg ==
  /\ Runs(Main) /\ own = "past" /\ stage = "start" /\ stage' = "configured"
  /\ \/ /\ early \in loaded
        /\ InitPrehooks(early) /\ InitHooks(early) /\ D3dHook(early) /\ pinned' = TRUE
        /\ UNCHANGED <<tick, reinit, wnd, orig, handler, regdev, contexts>>
     \/ early = OfGame /\ UNCHANGED <<targets, statics, regions>>
  /\ UNCHANGED <<vars, early>>

\* window_hooked_init if a copy has patched its call, else the game's own function.
CreateWindow ==
  /\ Runs(Main) /\ stage = "configured" /\ stage' = "window"
  /\ \/ /\ patched \in loaded
        /\ wnd' = patched /\ orig' = [orig EXCEPT ![SideOf(patched)] = OfGame]
        /\ handler' = OfGame
     \/ patched = OfGame /\ UNCHANGED <<wnd, orig, handler>>
  /\ UNCHANGED <<vars, early, tick, reinit, frame, patched, under, report, queue, device,
                 regdev, contexts, pinned>>

\* Seeded fault: the handler passed on to is the one that is replaced.
WindowReinit_replaced(c) ==
  /\ handler # NoDll
  /\ orig' = [orig EXCEPT ![SideOf(c)] = wnd] /\ wnd' = c /\ UNCHANGED handler

\* window_reinit of the copy c.
WindowReinit(c) ==
  /\ handler # NoDll
  /\ orig' = [orig EXCEPT ![SideOf(c)] = handler] /\ wnd' = c /\ UNCHANGED handler

\* hooked_pw_game_tick_init; hooked_pw_game_tick changes nothing of this module.
TickInit ==
  /\ Runs(Main) /\ stage = "window" /\ tick \in loaded /\ reinit
  /\ reinit' = FALSE /\ WindowReinit(tick)
  /\ UNCHANGED <<vars, stage, early, tick, frame, patched, under, report, queue, device,
                 regdev, contexts, pinned>>

\* hooked_a3d_end_scene, the first time its copy has no device.
FirstFrame ==
  /\ \E t \in Live : Runs(t)
  /\ stage = "window" /\ frame \in loaded /\ ~device[SideOf(frame)]
  /\ device' = [device EXCEPT ![SideOf(frame)] = TRUE] /\ regdev' = TRUE /\ contexts' = contexts + 1
  /\ UNCHANGED <<vars, stage, targets, queue, orig, handler, pinned>>

GameRuns == OpenLocalCfg \/ CreateWindow \/ TickInit \/ FirstFrame

GNext == GHookStep \/ OwnAttach \/ Start \/ Others \/ GameRuns

GSpec == GInit /\ [][GNext]_gvars

\* The daemon and the loader's lock are as fair as in FairSpec.
GFairSpec == GSpec /\ WF_vars(HookStep) /\ SF_vars(Load) /\ WF_vars(ReleaseLock)
-----------------------------------------------------------------------------
(* Properties *)

Call(t) == t \in loaded \cup {OfGame}

\* Calls that patch_mem redirects never lead into a copy that is gone.  Where a copy of
\* the daemon's is loaded, the other redirected calls lead into a loaded copy too, the
\* last one that redirected them, whatever was loaded, lost or half unloaded before;
\* after the configuration was read the tick finds its queue made.  The window waits for
\* the first tick.  Not so `early`, nor the report of a crash after the game's own copy
\* could not be loaded beside another: see the README.
HooksEnterLoaded ==
  /\ Call(patched)
  /\ dll \in loaded => /\ Call(tick) /\ Call(frame)
                       /\ report = Own \/ Call(report)
                       /\ reinit \/ Call(wnd)
                       /\ pinned => queue[SideOf(tick)]

\* However often the DLL is reloaded, its window procedure passes messages on to the
\* game's own, never to that of another copy.
GameHandlerKept ==
  /\ handler \in {NoDll, OfGame}
  /\ wnd \in loaded => orig[SideOf(wnd)] = OfGame

\* The copies share the one context that the first of them to draw has made.
ContextOnce ==
  contexts <= 1 /\ (frame \in loaded /\ device[SideOf(frame)] => contexts = 1)
=============================================================================
