--------------------------- MODULE ConsoleQueues ---------------------------
(***************************************************************************)
(* A console command's round trip between the render thread and the game   *)
(* thread.  The render thread polls its queue once per frame, prints the   *)
(* response it finds, and then lets the user type a command; a command it  *)
(* does not handle itself travels through the game queue.  The game thread *)
(* polls that queue once per tick, runs the command and posts the          *)
(* response back.  Both queues are the bounded FIFO that SpScRing          *)
(* implements, so a post or a poll is one step here.                       *)
(*                                                                         *)
(* A command is the number of commands typed before it, plus one.  The     *)
(* command line and the response are heap strings that travel with the     *)
(* messages; cmdHeap and respHeap are the ones allocated and not yet freed. *)
(***************************************************************************)
EXTENDS Naturals, Sequences, SequencesExt

CONSTANTS
  QSize,     \* messages a queue holds, 32 in the build
  MaxCmds    \* bound on the number of commands typed

ASSUME QueueAssumption == QSize \in Nat \ {0} /\ MaxCmds \in Nat

VARIABLES
  gameQ, renderQ,      \* the two queues
  overlay,             \* ~g_disable_all_overlay
  frame,               \* the render thread: "idle", "polled" or "echoed"
  tick,                \* the command the game thread is running, or 0
  log,                 \* the console's lines since the last clear
  typed,               \* number of commands typed
  cleared,             \* the last command that cleared the log, or 0
  cmdHeap, respHeap,   \* strings allocated and not freed
  executed, printed,   \* history: commands run, responses printed
  refusedCmds, refusedResps  \* history: posts refused for want of room

queues == <<gameQ, renderQ>>
heap   == <<cmdHeap, respHeap>>
hist   == <<executed, printed, refusedCmds, refusedResps>>
vars   == <<queues, overlay, frame, tick, log, typed, cleared, heap, hist>>

Cmd      == 1 .. MaxCmds
Echo(n)  == <<"echo", n>>
Resp(n)  == <<"resp", n>>
Local(n) == <<"local", n>>
InQ(q)   == ToSet(q)
HasRoom(q) == Len(q) < QSize

Init ==
  /\ gameQ = <<>> /\ renderQ = <<>>
  /\ overlay = TRUE /\ frame = "idle" /\ tick = 0
  /\ log = <<>> /\ typed = 0 /\ cleared = 0
  /\ cmdHeap = {} /\ respHeap = {}
  /\ executed = <<>> /\ printed = <<>>
  /\ refusedCmds = {} /\ refusedResps = {}
-----------------------------------------------------------------------------
(* The render thread: hooked_a3d_end_scene, once per frame *)

\* Seeded faults (also below): each stands in for the action of the same stem when
\* the properties are tested for being able to fail.
FramePoll_discard ==
  /\ frame = "idle" /\ overlay
  /\ frame' = "polled"
  /\ renderQ' = IF renderQ = <<>> THEN <<>> ELSE Tail(renderQ)
  /\ respHeap' = IF renderQ = <<>> THEN respHeap ELSE respHeap \ {Head(renderQ)}
  /\ IF renderQ = <<>> \/ gameQ # <<>> THEN UNCHANGED <<log, printed>>
     ELSE log' = Append(log, Resp(Head(renderQ))) /\ printed' = Append(printed, Head(renderQ))
  /\ UNCHANGED <<gameQ, overlay, tick, typed, cleared, cmdHeap,
                 executed, refusedCmds, refusedResps>>

\* Polls one message; print_cmd_response prints the string and frees it.
FramePoll_no_free ==
  /\ frame = "idle" /\ overlay
  /\ frame' = "polled"
  /\ IF renderQ = <<>> THEN UNCHANGED <<renderQ, log, printed>>
     ELSE /\ renderQ' = Tail(renderQ)
          /\ log' = Append(log, Resp(Head(renderQ)))
          /\ printed' = Append(printed, Head(renderQ))
  /\ UNCHANGED <<gameQ, overlay, tick, typed, cleared, heap,
                 executed, refusedCmds, refusedResps>>

FramePoll ==
  /\ frame = "idle" /\ overlay
  /\ frame' = "polled"
  /\ \/ /\ renderQ = <<>>
        /\ UNCHANGED <<renderQ, log, printed, respHeap>>
     \/ /\ renderQ # <<>>
        /\ renderQ' = Tail(renderQ)
        /\ log' = Append(log, Resp(Head(renderQ)))
        /\ printed' = Append(printed, Head(renderQ))
        /\ respHeap' = respHeap \ {Head(renderQ)}
  /\ UNCHANGED <<gameQ, overlay, tick, typed, cleared, cmdHeap,
                 executed, refusedCmds, refusedResps>>

TypeCommand_no_echo ==
  /\ frame = "polled"
  /\ typed < MaxCmds
  /\ frame' = "echoed"
  /\ typed' = typed + 1
  /\ UNCHANGED <<queues, overlay, tick, log, cleared, heap, hist>>

\* The user confirms a line: console_exec_cmd first echoes it.
TypeCommand ==
  /\ frame = "polled"
  /\ typed < MaxCmds
  /\ frame' = "echoed"
  /\ typed' = typed + 1
  /\ log' = Append(log, Echo(typed + 1))
  /\ UNCHANGED <<queues, overlay, tick, cleared, heap, hist>>

\* "clear" empties the log at once, whatever is still on its way.
RunClear ==
  /\ frame = "echoed"
  /\ frame' = "idle"
  /\ log' = <<>> /\ cleared' = typed
  /\ UNCHANGED <<queues, overlay, tick, typed, heap, hist>>

\* "help" and "history" print what the render thread knows.
RunLocal ==
  /\ frame = "echoed"
  /\ frame' = "idle"
  /\ log' = Append(log, Local(typed))
  /\ UNCHANGED <<queues, overlay, tick, typed, cleared, heap, hist>>

\* Any other line is duplicated and posted; the post's result is ignored.
PostCommand ==
  /\ frame = "echoed"
  /\ frame' = "idle"
  /\ cmdHeap' = cmdHeap \cup {typed}
  /\ \/ /\ HasRoom(gameQ)
        /\ gameQ' = Append(gameQ, typed)
        /\ UNCHANGED refusedCmds
     \/ /\ ~HasRoom(gameQ)
        /\ refusedCmds' = refusedCmds \cup {typed}
        /\ UNCHANGED gameQ
  /\ UNCHANGED <<renderQ, overlay, tick, log, typed, cleared, respHeap,
                 executed, printed, refusedResps>>

FrameEnd ==
  /\ frame = "polled"
  /\ frame' = "idle"
  /\ UNCHANGED <<queues, overlay, tick, log, typed, cleared, heap, hist>>

\* The hot key that hides every overlay also stops the polling, from the next frame.
ToggleOverlay ==
  /\ overlay' = ~overlay
  /\ UNCHANGED <<queues, frame, tick, log, typed, cleared, heap, hist>>
-----------------------------------------------------------------------------
(* The game thread: hooked_pw_game_tick *)

TickPoll_last ==
  /\ tick = 0
  /\ gameQ # <<>>
  /\ tick' = Last(gameQ) /\ gameQ' = Front(gameQ)
  /\ UNCHANGED <<renderQ, overlay, frame, log, typed, cleared, heap, hist>>

TickPoll_when_quiet ==
  /\ tick = 0
  /\ gameQ # <<>> /\ renderQ # <<>>
  /\ tick' = Head(gameQ) /\ gameQ' = Tail(gameQ)
  /\ UNCHANGED <<renderQ, overlay, frame, log, typed, cleared, heap, hist>>

TickPoll ==
  /\ tick = 0
  /\ gameQ # <<>>
  /\ tick' = Head(gameQ) /\ gameQ' = Tail(gameQ)
  /\ UNCHANGED <<renderQ, overlay, frame, log, typed, cleared, heap, hist>>

\* A command the game itself takes, or whose csh_cmd answer is empty.
RunQuietly ==
  /\ tick # 0
  /\ tick' = 0
  /\ executed' = Append(executed, tick)
  /\ cmdHeap' = cmdHeap \ {tick}
  /\ UNCHANGED <<queues, overlay, frame, log, typed, cleared, respHeap,
                 printed, refusedCmds, refusedResps>>

\* A csh command with an answer: the answer is duplicated and posted, and that
\* post's result is ignored, too.
RunAndRespond ==
  /\ tick # 0
  /\ tick' = 0
  /\ executed' = Append(executed, tick)
  /\ cmdHeap' = cmdHeap \ {tick}
  /\ respHeap' = respHeap \cup {tick}
  /\ \/ /\ HasRoom(renderQ)
        /\ renderQ' = Append(renderQ, tick)
        /\ UNCHANGED refusedResps
     \/ /\ ~HasRoom(renderQ)
        /\ refusedResps' = refusedResps \cup {tick}
        /\ UNCHANGED renderQ
  /\ UNCHANGED <<gameQ, overlay, frame, log, typed, cleared, printed, refusedCmds>>

RenderThread ==
  FramePoll \/ TypeCommand \/ RunClear \/ RunLocal \/ PostCommand \/ FrameEnd
GameThread == TickPoll \/ RunQuietly \/ RunAndRespond

Next == RenderThread \/ GameThread \/ ToggleOverlay

Spec == Init /\ [][Next]_vars

\* Both threads run as long as the game does.  Neither the user's typing nor the
\* overlay key is fair.
FairSpec == Spec /\ WF_vars(RenderThread) /\ WF_vars(GameThread)
-----------------------------------------------------------------------------
(* Properties *)

TypeOK ==
  /\ gameQ \in Seq(Cmd) /\ Len(gameQ) <= QSize
  /\ renderQ \in Seq(Cmd) /\ Len(renderQ) <= QSize
  /\ overlay \in BOOLEAN /\ frame \in {"idle", "polled", "echoed"}
  /\ tick \in 0 .. MaxCmds /\ typed \in 0 .. MaxCmds /\ cleared \in 0 .. typed
  /\ log \in Seq({"echo", "resp", "local"} \X Cmd)
  /\ cmdHeap \subseteq Cmd /\ respHeap \subseteq Cmd
  /\ executed \in Seq(Cmd) /\ printed \in Seq(Cmd)
  /\ refusedCmds \subseteq Cmd /\ refusedResps \subseteq Cmd

Ascending(s) == \A i, j \in DOMAIN s : i < j => s[i] < s[j]

\* Commands run in the order they were typed and responses come back in the order
\* their commands ran, each at most once, even when some are refused in between.
RoundTripInOrder ==
  /\ TypeOK
  /\ Ascending(executed) /\ Ascending(printed)
  /\ ToSet(printed) \subseteq ToSet(executed)
  /\ \A n \in (InQ(gameQ) \cup {tick}) \ {0} : n \notin ToSet(executed)

\* The user sees a response below the line it answers, unless the log has been
\* cleared since that line was typed.
EchoFirst ==
  \A i \in DOMAIN log : \A n \in Cmd :
    log[i] = Resp(n) => n <= cleared \/ \E j \in 1 .. i - 1 : log[j] = Echo(n)

\* Every string has one owner that will free it: a queued message or the callback
\* that runs.  Only a refused post leaves a string nobody owns, and no owner is
\* left with a string that has been freed.
HeapOwned ==
  /\ cmdHeap = InQ(gameQ) \cup (IF tick = 0 THEN {} ELSE {tick}) \cup refusedCmds
  /\ respHeap = InQ(renderQ) \cup refusedResps

\* A command the game queue accepted is run, whether the overlay is shown or not.
AcceptedIsRun == \A n \in Cmd : (n \in InQ(gameQ)) ~> (n \in ToSet(executed))

\* A response the render queue accepted is printed, unless the overlay is hidden.
AcceptedIsPrinted ==
  \A n \in Cmd : (n \in InQ(renderQ)) ~> (n \in ToSet(printed) \/ ~overlay)
=============================================================================
