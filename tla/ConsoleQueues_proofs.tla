----------------------- MODULE ConsoleQueues_proofs ------------------------
(***************************************************************************)
(* Proofs about ConsoleQueues, for every queue size and any number of      *)
(* commands: commands run in the order they were typed, responses come     *)
(* back in the order their commands ran and below the line they answer,    *)
(* and every string has exactly one owner.                                 *)
(*                                                                         *)
(* That the two histories ascend is not inductive: it takes the order of   *)
(* the commands that are still on their way (CommandsInOrder), and that a  *)
(* command that is echoed but not yet handled is newer than all of them    *)
(* (NumbersTyped).  That a poll or a run frees no string of another        *)
(* message takes that a refused message is not in flight as well           *)
(* (RefusedIsGone), and a response is below its line because its command   *)
(* was typed, and what is typed is in the log until it is cleared          *)
(* (TypedIsEchoed).                                                        *)
(***************************************************************************)
EXTENDS ConsoleQueues, SequenceTheorems, TLAPS

\* The commands the game thread has yet to run or is running.
Underway == InQ(gameQ) \cup ({tick} \ {0})

CommandsInOrder ==
  /\ Ascending(executed) /\ Ascending(gameQ)
  /\ \A m \in ToSet(executed), n \in Underway : m < n
  /\ tick # 0 => \A n \in InQ(gameQ) : tick < n

ResponsesInOrder ==
  /\ Ascending(printed) /\ Ascending(renderQ)
  /\ \A m \in ToSet(printed), n \in InQ(renderQ) : m < n
  /\ ToSet(printed) \cup InQ(renderQ) \subseteq ToSet(executed)

\* Every number in use is that of a typed command; the one that is just echoed is new.
NumbersTyped ==
  /\ frame = "echoed" => typed > 0
  /\ \A n \in ToSet(executed) \cup Underway \cup refusedCmds :
       n <= typed /\ (frame = "echoed" => n < typed)

RefusedIsGone ==
  /\ refusedCmds \cap Underway = {}
  /\ refusedResps \cap InQ(renderQ) = {}
  /\ refusedResps \subseteq ToSet(executed)

TypedIsEchoed ==
  \A n \in 1 .. typed : n <= cleared \/ \E j \in DOMAIN log : log[j] = Echo(n)

IInv ==
  /\ TypeOK
  /\ CommandsInOrder
  /\ ResponsesInOrder
  /\ NumbersTyped
  /\ RefusedIsGone
  /\ HeapOwned
  /\ TypedIsEchoed
  /\ EchoFirst
-----------------------------------------------------------------------------
(* Sequences of numbers *)

\* A sequence has no other elements than those of its type.
LEMMA ToSetType ==
  ASSUME NEW S, NEW s \in Seq(S)
  PROVE  ToSet(s) \subseteq S
BY ElementOfSeq, LenProperties DEF ToSet

\* Appending adds the element.
LEMMA ToSetAppend ==
  ASSUME NEW S, NEW s \in Seq(S), NEW e \in S
  PROVE  ToSet(Append(s, e)) = ToSet(s) \cup {e}
<1>1. Len(s) \in Nat /\ DOMAIN s = 1 .. Len(s) /\ DOMAIN Append(s, e) = 1 .. Len(s) + 1
  BY AppendProperties, LenProperties
<1>2. \A i \in 1 .. Len(s) : Append(s, e)[i] = s[i]
  BY AppendProperties
<1>3. Append(s, e)[Len(s) + 1] = e
  BY AppendProperties
<1> QED  BY <1>1, <1>2, <1>3 DEF ToSet

\* The elements are the first one and those of the rest.
LEMMA ToSetHeadTail ==
  ASSUME NEW S, NEW s \in Seq(S), s # <<>>
  PROVE  ToSet(s) = {Head(s)} \cup ToSet(Tail(s))
<1> DEFINE t == Tail(s)
<1>1. /\ Len(s) \in Nat \ {0} /\ DOMAIN s = 1 .. Len(s)
      /\ t \in Seq(S) /\ Len(t) = Len(s) - 1 /\ DOMAIN t = 1 .. Len(s) - 1
  BY HeadTailProperties, LenProperties, EmptySeq
<1>2. Head(s) = s[1] /\ \A i \in 1 .. Len(s) - 1 : t[i] = s[i + 1]
  BY <1>1, HeadTailProperties
<1> HIDE DEF t
<1>3. \A i \in DOMAIN s : i = 1 \/ (i - 1 \in DOMAIN t /\ s[i] = t[i - 1])
  BY <1>1, <1>2
<1>4. \A i \in DOMAIN t : i + 1 \in DOMAIN s /\ t[i] = s[i + 1]
  BY <1>1, <1>2
<1>5. ToSet(s) \subseteq {Head(s)} \cup ToSet(t)
  BY <1>2, <1>3 DEF ToSet
<1>6. {Head(s)} \cup ToSet(t) \subseteq ToSet(s)
  BY <1>1, <1>2, <1>4 DEF ToSet
<1> QED  BY <1>5, <1>6 DEF t

\* An ascending sequence stays so with a larger number at its end.
LEMMA AscendingAppend ==
  ASSUME NEW s \in Seq(Cmd), NEW e \in Cmd, Ascending(s), \A m \in ToSet(s) : m < e
  PROVE  Ascending(Append(s, e))
<1>1. Len(s) \in Nat /\ DOMAIN s = 1 .. Len(s) /\ DOMAIN Append(s, e) = 1 .. Len(s) + 1
  BY AppendProperties, LenProperties
<1>2. \A i \in 1 .. Len(s) : Append(s, e)[i] = s[i] /\ s[i] \in ToSet(s)
  BY <1>1, AppendProperties DEF ToSet
<1>3. Append(s, e)[Len(s) + 1] = e
  BY AppendProperties
<1> QED  BY <1>1, <1>2, <1>3 DEF Ascending

\* The rest of an ascending sequence ascends, from above its first number.
LEMMA AscendingTail ==
  ASSUME NEW s \in Seq(Cmd), s # <<>>, Ascending(s)
  PROVE  Ascending(Tail(s)) /\ \A n \in ToSet(Tail(s)) : Head(s) < n
<1> DEFINE t == Tail(s)
<1>1. /\ Len(s) \in Nat \ {0} /\ DOMAIN s = 1 .. Len(s) /\ DOMAIN t = 1 .. Len(s) - 1
  BY HeadTailProperties, LenProperties, EmptySeq
<1>2. Head(s) = s[1] /\ \A i \in 1 .. Len(s) - 1 : t[i] = s[i + 1]
  BY <1>1, HeadTailProperties
<1> HIDE DEF t
<1>3. Ascending(t)
  BY <1>1, <1>2 DEF Ascending
<1>4. \A n \in ToSet(t) : Head(s) < n
  BY <1>1, <1>2 DEF Ascending, ToSet
<1> QED  BY <1>3, <1>4 DEF t
-----------------------------------------------------------------------------
(* The render thread's steps *)

LEMMA InitIInv == Init => IInv
<1> SUFFICES ASSUME Init PROVE IInv
  OBVIOUS
<1>1. QSize \in Nat \ {0} /\ MaxCmds \in Nat /\ \A S : ToSet(<<>>) = {} /\ <<>> \in Seq(S)
  BY QueueAssumption DEF ToSet
<1>2. TypeOK
  BY <1>1 DEF Init, TypeOK
<1>3. Ascending(<<>>)
  BY DEF Ascending
<1> QED
  BY <1>1, <1>2, <1>3 DEF Init, IInv, CommandsInOrder, ResponsesInOrder, NumbersTyped, RefusedIsGone,
     HeapOwned, TypedIsEchoed, EchoFirst, Underway, InQ

\* What an action leaves alone that changes neither the commands, nor the responses,
\* nor who owns a string.
LEMMA QuietStep ==
  ASSUME IInv, UNCHANGED <<queues, tick, heap, hist>>
  PROVE  CommandsInOrder' /\ ResponsesInOrder' /\ RefusedIsGone' /\ HeapOwned'
BY DEF IInv, queues, heap, hist, CommandsInOrder, ResponsesInOrder, RefusedIsGone, HeapOwned,
       Underway, InQ

\* A line added to the log, below every other, keeps what is said of the others.
LEMMA LogAppendStep ==
  ASSUME IInv, NEW e \in {"echo", "resp", "local"} \X Cmd, log' = Append(log, e),
         UNCHANGED <<typed, cleared>>,
         \A n \in Cmd : e = Resp(n) => n <= typed
  PROVE  log' \in Seq({"echo", "resp", "local"} \X Cmd) /\ TypedIsEchoed' /\ EchoFirst'
<1> DEFINE L == {"echo", "resp", "local"} \X Cmd
<1>1. /\ log \in Seq(L) /\ Len(log) \in Nat /\ DOMAIN log = 1 .. Len(log)
      /\ log' \in Seq(L) /\ DOMAIN log' = 1 .. Len(log) + 1
  BY AppendProperties, LenProperties DEF IInv, TypeOK
<1>2. log'[Len(log) + 1] = e /\ \A i \in DOMAIN log : log'[i] = log[i]
  BY <1>1, AppendProperties
<1>3. TypedIsEchoed'
  BY <1>1, <1>2 DEF IInv, TypedIsEchoed
<1>4. EchoFirst'
  <2> SUFFICES ASSUME NEW i \in DOMAIN log', NEW n \in Cmd, log'[i] = Resp(n)
               PROVE  n <= cleared \/ \E j \in 1 .. i - 1 : log'[j] = Echo(n)
    BY DEF EchoFirst
  <2>1. CASE i \in DOMAIN log
    <3>1. n <= cleared \/ \E j \in 1 .. i - 1 : log[j] = Echo(n)
      BY <1>2, <2>1 DEF IInv, EchoFirst
    <3>2. 1 .. i - 1 \subseteq DOMAIN log
      BY <1>1, <2>1
    <3> QED  BY <1>2, <3>1, <3>2
  <2>2. CASE i = Len(log) + 1
    <3>1. n \in 1 .. typed
      BY <1>2, <2>2, QueueAssumption DEF IInv, TypeOK, Cmd
    <3>2. n <= cleared \/ \E j \in DOMAIN log : log[j] = Echo(n)
      BY <3>1 DEF IInv, TypedIsEchoed
    <3> QED  BY <1>1, <1>2, <2>2, <3>2
  <2> QED  BY <1>1, <2>1, <2>2
<1> QED  BY <1>1, <1>3, <1>4

\* The response at the head of the queue is printed and freed.
LEMMA FramePollStep ==
  ASSUME IInv, FramePoll PROVE IInv'
<1>1. CASE renderQ = <<>> /\ UNCHANGED <<renderQ, log, printed, respHeap>>
  BY <1>1, QuietStep
  DEF FramePoll, IInv, queues, heap, hist, TypeOK, NumbersTyped, TypedIsEchoed, EchoFirst, Underway
<1>2. CASE /\ renderQ # <<>> /\ renderQ' = Tail(renderQ)
           /\ log' = Append(log, Resp(Head(renderQ))) /\ printed' = Append(printed, Head(renderQ))
           /\ respHeap' = respHeap \ {Head(renderQ)}
  <2> DEFINE h == Head(renderQ)
             t == Tail(renderQ)
  <2>1. UNCHANGED <<gameQ, overlay, tick, typed, cleared, cmdHeap, executed, refusedCmds, refusedResps>>
        /\ frame' = "polled"
    BY DEF FramePoll
  <2>2. /\ renderQ \in Seq(Cmd) /\ printed \in Seq(Cmd)
        /\ h \in Cmd /\ t \in Seq(Cmd) /\ Len(t) = Len(renderQ) - 1 /\ Len(renderQ) \in Nat
    BY <1>2, HeadTailProperties, LenProperties DEF IInv, TypeOK
  <2>3. InQ(renderQ) = {h} \cup ToSet(t) /\ ToSet(printed') = ToSet(printed) \cup {h}
    BY <1>2, <2>2, ToSetHeadTail, ToSetAppend DEF InQ
  <2>4. Ascending(t) /\ \A n \in ToSet(t) : h < n
    BY <1>2, <2>2, AscendingTail DEF IInv, ResponsesInOrder
  <2>5. printed' \in Seq(Cmd) /\ Ascending(printed')
    BY <1>2, <2>2, <2>3, AscendingAppend, AppendProperties DEF IInv, ResponsesInOrder
  <2>6. h \in ToSet(executed) /\ h <= typed
    BY <2>3 DEF IInv, ResponsesInOrder, NumbersTyped
  <2>7. log' \in Seq({"echo", "resp", "local"} \X Cmd) /\ TypedIsEchoed' /\ EchoFirst'
    BY <1>2, <2>1, <2>2, <2>6, LogAppendStep DEF Resp
  <2> HIDE DEF h, t
  <2>8. TypeOK'
    BY <1>2, <2>1, <2>2, <2>5, <2>7, QueueAssumption DEF IInv, TypeOK, h, t
  <2>9. CommandsInOrder' /\ NumbersTyped'
    BY <2>1 DEF IInv, CommandsInOrder, NumbersTyped, Underway
  <2>10. ResponsesInOrder'
    <3>1. \A m \in ToSet(printed'), n \in ToSet(t) : m < n
      BY <2>3, <2>4 DEF IInv, ResponsesInOrder
    <3> QED
      BY <1>2, <2>1, <2>3, <2>4, <2>5, <2>6, <3>1 DEF IInv, ResponsesInOrder, InQ, t
  <2>11. h \notin ToSet(t) /\ h \notin refusedResps
    BY <2>2, <2>3, <2>4 DEF IInv, RefusedIsGone, Cmd
  <2>12. RefusedIsGone' /\ HeapOwned'
    BY <1>2, <2>1, <2>3, <2>11 DEF IInv, RefusedIsGone, HeapOwned, Underway, InQ, h, t
  <2> QED  BY <2>7, <2>8, <2>9, <2>10, <2>12 DEF IInv
<1> QED  BY <1>1, <1>2 DEF FramePoll

\* A number that no message has, and the echo of its line.
LEMMA TypeCommandStep ==
  ASSUME IInv, TypeCommand PROVE IInv'
<1> DEFINE L == {"echo", "resp", "local"} \X Cmd
<1>1. UNCHANGED <<queues, overlay, tick, cleared, heap, hist>> /\ frame' = "echoed"
      /\ typed' = typed + 1 /\ log' = Append(log, Echo(typed + 1))
  BY DEF TypeCommand
<1>2. typed + 1 \in Cmd /\ typed \in Nat /\ cleared \in 0 .. typed
  BY QueueAssumption DEF IInv, TypeOK, TypeCommand, Cmd
<1>3. Echo(typed + 1) \in L /\ log \in Seq(L)
  BY <1>2 DEF IInv, TypeOK, Echo
<1>4. /\ Len(log) \in Nat /\ DOMAIN log = 1 .. Len(log)
      /\ log' \in Seq(L) /\ DOMAIN log' = 1 .. Len(log) + 1
      /\ log'[Len(log) + 1] = Echo(typed + 1) /\ \A i \in DOMAIN log : log'[i] = log[i]
  BY <1>1, <1>3, AppendProperties, LenProperties
<1>5. TypedIsEchoed'
  <2>1. \A n \in 1 .. typed : n <= cleared \/ \E j \in DOMAIN log : log[j] = Echo(n)
    BY DEF IInv, TypedIsEchoed
  <2>2. \A n \in 1 .. typed + 1 : n \in 1 .. typed \/ n = typed + 1
    BY <1>2
  <2> QED  BY <1>1, <1>4, <2>1, <2>2 DEF TypedIsEchoed
<1>6. EchoFirst'
  <2> SUFFICES ASSUME NEW i \in DOMAIN log', NEW n \in Cmd, log'[i] = Resp(n)
               PROVE  n <= cleared \/ \E j \in 1 .. i - 1 : log'[j] = Echo(n)
    BY <1>1 DEF EchoFirst
  <2>1. i \in DOMAIN log
    BY <1>4 DEF Echo, Resp
  <2>2. n <= cleared \/ \E j \in 1 .. i - 1 : log[j] = Echo(n)
    BY <1>4, <2>1 DEF IInv, EchoFirst
  <2>3. 1 .. i - 1 \subseteq DOMAIN log
    BY <1>4, <2>1
  <2> QED  BY <1>4, <2>2, <2>3
<1>7. NumbersTyped'
  <2>1. \A n \in ToSet(executed) \cup Underway \cup refusedCmds : n \in Nat /\ n <= typed
    <3>1. ToSet(executed) \subseteq Cmd /\ InQ(gameQ) \subseteq Cmd /\ refusedCmds \subseteq Cmd
      BY ToSetType DEF IInv, TypeOK, InQ
    <3>2. Underway \subseteq Cmd
      BY <3>1, QueueAssumption DEF IInv, TypeOK, Underway, Cmd
    <3>3. Cmd \subseteq Nat
      BY QueueAssumption DEF Cmd
    <3> QED  BY <3>1, <3>2, <3>3 DEF IInv, NumbersTyped
  <2> QED  BY <1>1, <1>2, <2>1 DEF NumbersTyped, Underway, queues, hist
<1>8. TypeOK'
  BY <1>1, <1>2, <1>4 DEF IInv, TypeOK, queues, heap, hist, Cmd
<1> QED  BY <1>1, <1>5, <1>6, <1>7, <1>8, QuietStep DEF IInv

\* The log is emptied: what is typed so far is excused.
LEMMA RunClearStep ==
  ASSUME IInv, RunClear PROVE IInv'
<1>1. UNCHANGED <<queues, overlay, tick, typed, heap, hist>> /\ frame' = "idle"
      /\ log' = <<>> /\ cleared' = typed
  BY DEF RunClear
<1>2. TypeOK' /\ typed \in Nat
  BY <1>1 DEF IInv, TypeOK, queues, heap, hist
<1>3. TypedIsEchoed' /\ EchoFirst'
  BY <1>1, <1>2 DEF TypedIsEchoed, EchoFirst
<1>4. NumbersTyped'
  BY <1>1 DEF IInv, NumbersTyped, Underway, queues, hist
<1> QED  BY <1>1, <1>2, <1>3, <1>4, QuietStep DEF IInv

\* A line that is not a response.
LEMMA RunLocalStep ==
  ASSUME IInv, RunLocal PROVE IInv'
<1>1. UNCHANGED <<queues, overlay, tick, typed, cleared, heap, hist>> /\ frame' = "idle"
      /\ log' = Append(log, Local(typed))
  BY DEF RunLocal
<1>2. typed \in Cmd
  BY QueueAssumption DEF IInv, TypeOK, NumbersTyped, RunLocal, Cmd
<1>3. Local(typed) \in {"echo", "resp", "local"} \X Cmd /\ \A n \in Cmd : Local(typed) # Resp(n)
  BY <1>2 DEF Local, Resp
<1>4. log' \in Seq({"echo", "resp", "local"} \X Cmd) /\ TypedIsEchoed' /\ EchoFirst'
  BY <1>1, <1>3, LogAppendStep
<1>5. TypeOK'
  BY <1>1, <1>4 DEF IInv, TypeOK, queues, heap, hist
<1>6. NumbersTyped'
  BY <1>1 DEF IInv, NumbersTyped, Underway, queues, hist
<1> QED  BY <1>1, <1>4, <1>5, <1>6, QuietStep DEF IInv

\* The command gets a place in the queue behind older ones, or its string is lost.
LEMMA PostCommandStep ==
  ASSUME IInv, PostCommand PROVE IInv'
<1>1. /\ UNCHANGED <<renderQ, overlay, tick, log, typed, cleared, respHeap, executed, printed,
                     refusedResps>>
      /\ frame = "echoed" /\ frame' = "idle" /\ cmdHeap' = cmdHeap \cup {typed}
  BY DEF PostCommand
<1>2. typed \in Cmd
  BY <1>1, QueueAssumption DEF IInv, TypeOK, NumbersTyped, Cmd
<1>3. \A n \in ToSet(executed) \cup Underway \cup refusedCmds : n < typed
  BY <1>1 DEF IInv, NumbersTyped
<1>4. typed \notin ToSet(executed) \cup Underway \cup refusedCmds
  BY <1>2, <1>3, QueueAssumption DEF Cmd
<1>5. TypedIsEchoed' /\ EchoFirst' /\ ResponsesInOrder'
  BY <1>1 DEF IInv, TypedIsEchoed, EchoFirst, ResponsesInOrder, InQ
<1>6. CASE HasRoom(gameQ) /\ gameQ' = Append(gameQ, typed) /\ UNCHANGED refusedCmds
  <2>1. gameQ \in Seq(Cmd) /\ gameQ' \in Seq(Cmd) /\ Len(gameQ') = Len(gameQ) + 1 /\ Len(gameQ) \in Nat
    BY <1>2, <1>6, AppendProperties, LenProperties DEF IInv, TypeOK
  <2>2. InQ(gameQ') = InQ(gameQ) \cup {typed}
    BY <1>2, <1>6, <2>1, ToSetAppend DEF InQ
  <2>3. Underway' = Underway \cup {typed} /\ InQ(gameQ) \subseteq Underway /\ (tick # 0 => tick \in Underway)
    BY <1>1, <1>2, <2>2 DEF Underway, InQ
  <2>4. Ascending(gameQ')
    BY <1>2, <1>3, <1>6, <2>1, <2>3, AscendingAppend DEF IInv, CommandsInOrder, InQ
  <2>5. CommandsInOrder'
    BY <1>1, <1>3, <2>2, <2>3, <2>4 DEF IInv, CommandsInOrder
  <2>6. TypeOK'
    BY <1>1, <1>2, <1>6, <2>1, QueueAssumption DEF IInv, TypeOK, HasRoom
  <2>7. NumbersTyped'
    BY <1>1, <1>2, <1>3, <1>6, <2>3, QueueAssumption DEF IInv, NumbersTyped, Cmd
  <2>8. RefusedIsGone'
    BY <1>1, <1>4, <1>6, <2>3 DEF IInv, RefusedIsGone, InQ
  <2>9. HeapOwned'
    BY <1>1, <1>6, <2>2 DEF IInv, HeapOwned, InQ
  <2> QED  BY <1>5, <2>5, <2>6, <2>7, <2>8, <2>9 DEF IInv
<1>7. CASE refusedCmds' = refusedCmds \cup {typed} /\ UNCHANGED gameQ
  <2>1. CommandsInOrder' /\ Underway' = Underway
    BY <1>1, <1>7 DEF IInv, CommandsInOrder, Underway, InQ
  <2>2. TypeOK'
    BY <1>1, <1>2, <1>7 DEF IInv, TypeOK
  <2>3. NumbersTyped'
    BY <1>1, <1>2, <1>3, <1>7, <2>1, QueueAssumption DEF IInv, NumbersTyped, Cmd
  <2>4. RefusedIsGone' /\ HeapOwned'
    BY <1>1, <1>4, <1>7, <2>1 DEF IInv, RefusedIsGone, HeapOwned, InQ
  <2> QED  BY <1>5, <2>1, <2>2, <2>3, <2>4 DEF IInv
<1> QED  BY <1>6, <1>7 DEF PostCommand

\* The overlay key and a frame in which nothing was typed.
LEMMA NothingMovesStep ==
  ASSUME IInv, FrameEnd \/ ToggleOverlay \/ UNCHANGED vars PROVE IInv'
<1>1. /\ UNCHANGED <<queues, tick, log, typed, cleared, heap, hist>>
      /\ (frame' = frame \/ frame' = "idle") /\ overlay' \in BOOLEAN
  BY DEF FrameEnd, ToggleOverlay, vars, IInv, TypeOK
<1>2. TypeOK' /\ TypedIsEchoed' /\ EchoFirst' /\ NumbersTyped'
  BY <1>1 DEF IInv, TypeOK, TypedIsEchoed, EchoFirst, NumbersTyped, Underway, queues, heap, hist
<1> QED  BY <1>1, <1>2, QuietStep DEF IInv
-----------------------------------------------------------------------------
(* The game thread's steps *)

\* The oldest command leaves the queue and is run: nothing is older but what has run.
LEMMA TickPollStep ==
  ASSUME IInv, TickPoll PROVE IInv'
<1> DEFINE h == Head(gameQ)
           t == Tail(gameQ)
<1>1. /\ UNCHANGED <<renderQ, overlay, frame, log, typed, cleared, heap, hist>>
      /\ tick = 0 /\ gameQ # <<>> /\ tick' = h /\ gameQ' = t
  BY DEF TickPoll
<1>2. /\ gameQ \in Seq(Cmd) /\ Len(gameQ) \in Nat
      /\ h \in Cmd /\ t \in Seq(Cmd) /\ Len(t) = Len(gameQ) - 1
  BY <1>1, HeadTailProperties, LenProperties DEF IInv, TypeOK
<1>3. InQ(gameQ) = {h} \cup InQ(t)
  BY <1>1, <1>2, ToSetHeadTail DEF InQ
<1>4. Ascending(t) /\ \A n \in InQ(t) : h < n
  BY <1>1, <1>2, AscendingTail DEF IInv, CommandsInOrder, InQ
<1> HIDE DEF h, t
<1>5. h # 0 /\ Underway = InQ(gameQ) /\ Underway' = InQ(t) \cup {h}
  BY <1>1, <1>2, QueueAssumption DEF Underway, InQ, Cmd
<1>6. Underway' = Underway
  BY <1>3, <1>5
<1>7. TypeOK'
  BY <1>1, <1>2, QueueAssumption DEF IInv, TypeOK, heap, hist, Cmd
<1>8. CommandsInOrder'
  <2>1. \A m \in ToSet(executed)', n \in Underway' : m < n
    BY <1>1, <1>6 DEF IInv, CommandsInOrder, hist
  <2>2. \A n \in InQ(gameQ)' : tick' < n
    BY <1>1, <1>4 DEF InQ
  <2> QED  BY <1>1, <1>4, <2>1, <2>2 DEF IInv, CommandsInOrder, hist
<1>9. NumbersTyped'
  BY <1>1, <1>6 DEF IInv, NumbersTyped, hist
<1>10. HeapOwned'
  BY <1>1, <1>3, <1>5 DEF IInv, HeapOwned, heap, hist, InQ
<1>11. RefusedIsGone' /\ ResponsesInOrder' /\ TypedIsEchoed' /\ EchoFirst'
  BY <1>1, <1>6 DEF IInv, RefusedIsGone, ResponsesInOrder, TypedIsEchoed, EchoFirst, hist, InQ
<1> QED  BY <1>7, <1>8, <1>9, <1>10, <1>11 DEF IInv

\* A command has run: it is the newest that has, and its string is nobody else's.
LEMMA RunStep ==
  ASSUME IInv, tick # 0, tick' = 0, executed' = Append(executed, tick), cmdHeap' = cmdHeap \ {tick},
         UNCHANGED <<gameQ, overlay, frame, log, typed, cleared, printed, refusedCmds>>
  PROVE  /\ tick \in Cmd /\ tick \notin ToSet(executed)
         /\ \A m \in ToSet(executed) : m < tick
         /\ executed' \in Seq(Cmd) /\ ToSet(executed') = ToSet(executed) \cup {tick}
         /\ CommandsInOrder' /\ NumbersTyped' /\ TypedIsEchoed' /\ EchoFirst'
         /\ refusedCmds' \cap Underway' = {}
         /\ cmdHeap' = InQ(gameQ)' \cup refusedCmds'
<1>1. tick \in Cmd /\ executed \in Seq(Cmd)
  BY QueueAssumption DEF IInv, TypeOK, Cmd
<1>2. executed' \in Seq(Cmd) /\ ToSet(executed') = ToSet(executed) \cup {tick}
  BY <1>1, ToSetAppend, AppendProperties
<1>3. /\ tick \in Underway /\ tick \notin refusedCmds
      /\ Underway = InQ(gameQ) \cup {tick} /\ Underway' = InQ(gameQ)
  BY DEF IInv, RefusedIsGone, Underway, InQ
<1>4. (\A m \in ToSet(executed) : m < tick) /\ (\A n \in InQ(gameQ) : tick < n)
  BY <1>3 DEF IInv, CommandsInOrder
<1>5. tick \notin ToSet(executed) /\ tick \notin InQ(gameQ)
  BY <1>1, <1>4, QueueAssumption DEF Cmd
<1>6. CommandsInOrder'
  <2>1. Ascending(executed')
    BY <1>1, <1>4, AscendingAppend DEF IInv, CommandsInOrder
  <2>2. \A m \in ToSet(executed'), n \in Underway' : m < n
    BY <1>2, <1>3, <1>4 DEF IInv, CommandsInOrder
  <2> QED  BY <2>1, <2>2 DEF IInv, CommandsInOrder
<1>7. NumbersTyped'
  BY <1>2, <1>3 DEF IInv, NumbersTyped
<1>8. cmdHeap' = InQ(gameQ)' \cup refusedCmds' /\ refusedCmds' \cap Underway' = {}
  BY <1>3, <1>5 DEF IInv, HeapOwned, RefusedIsGone, InQ
<1>9. TypedIsEchoed' /\ EchoFirst'
  BY DEF IInv, TypedIsEchoed, EchoFirst
<1> QED  BY <1>1, <1>2, <1>4, <1>5, <1>6, <1>7, <1>8, <1>9

\* No answer.
LEMMA RunQuietlyStep ==
  ASSUME IInv, RunQuietly PROVE IInv'
<1>1. /\ UNCHANGED <<gameQ, renderQ, overlay, frame, log, typed, cleared, respHeap, printed,
                     refusedCmds, refusedResps>>
      /\ tick # 0 /\ tick' = 0 /\ executed' = Append(executed, tick) /\ cmdHeap' = cmdHeap \ {tick}
  BY DEF RunQuietly, queues
<1>2. /\ executed' \in Seq(Cmd) /\ ToSet(executed') = ToSet(executed) \cup {tick}
      /\ CommandsInOrder' /\ NumbersTyped' /\ TypedIsEchoed' /\ EchoFirst'
      /\ refusedCmds' \cap Underway' = {} /\ cmdHeap' = InQ(gameQ)' \cup refusedCmds'
  BY <1>1, RunStep
<1>3. TypeOK'
  BY <1>1, <1>2, QueueAssumption DEF IInv, TypeOK
<1>4. ResponsesInOrder' /\ RefusedIsGone' /\ HeapOwned'
  BY <1>1, <1>2 DEF IInv, ResponsesInOrder, RefusedIsGone, HeapOwned, InQ
<1> QED  BY <1>2, <1>3, <1>4 DEF IInv

\* The answer gets a place in the queue behind those of older commands, or is lost.
LEMMA RunAndRespondStep ==
  ASSUME IInv, RunAndRespond PROVE IInv'
<1>1. /\ UNCHANGED <<gameQ, overlay, frame, log, typed, cleared, printed, refusedCmds>>
      /\ tick # 0 /\ tick' = 0 /\ executed' = Append(executed, tick) /\ cmdHeap' = cmdHeap \ {tick}
      /\ respHeap' = respHeap \cup {tick}
  BY DEF RunAndRespond
<1>2. /\ tick \in Cmd /\ tick \notin ToSet(executed) /\ \A m \in ToSet(executed) : m < tick
      /\ executed' \in Seq(Cmd) /\ ToSet(executed') = ToSet(executed) \cup {tick}
      /\ CommandsInOrder' /\ NumbersTyped' /\ TypedIsEchoed' /\ EchoFirst'
      /\ refusedCmds' \cap Underway' = {} /\ cmdHeap' = InQ(gameQ)' \cup refusedCmds'
  BY <1>1, RunStep
<1>3. ToSet(printed) \cup InQ(renderQ) \cup refusedResps \subseteq ToSet(executed)
  BY DEF IInv, ResponsesInOrder, RefusedIsGone
<1>4. CASE HasRoom(renderQ) /\ renderQ' = Append(renderQ, tick) /\ UNCHANGED refusedResps
  <2>1. renderQ \in Seq(Cmd) /\ renderQ' \in Seq(Cmd) /\ Len(renderQ') = Len(renderQ) + 1 /\ Len(renderQ) \in Nat
    BY <1>2, <1>4, AppendProperties, LenProperties DEF IInv, TypeOK
  <2>2. InQ(renderQ') = InQ(renderQ) \cup {tick}
    BY <1>2, <1>4, <2>1, ToSetAppend DEF InQ
  <2>3. TypeOK'
    BY <1>1, <1>2, <1>4, <2>1, QueueAssumption DEF IInv, TypeOK, HasRoom
  <2>4. ResponsesInOrder'
    <3>1. Ascending(renderQ')
      BY <1>2, <1>3, <1>4, <2>1, AscendingAppend DEF IInv, ResponsesInOrder, InQ
    <3>2. \A m \in ToSet(printed), n \in InQ(renderQ') : m < n
      BY <1>2, <1>3, <2>2 DEF IInv, ResponsesInOrder
    <3> QED  BY <1>1, <1>2, <1>3, <2>2, <3>1, <3>2 DEF IInv, ResponsesInOrder, InQ
  <2>5. RefusedIsGone'
    BY <1>2, <1>3, <1>4, <2>2 DEF IInv, RefusedIsGone, InQ
  <2>6. HeapOwned'
    BY <1>1, <1>2, <1>4, <2>2 DEF IInv, HeapOwned, InQ
  <2> QED  BY <1>2, <2>3, <2>4, <2>5, <2>6 DEF IInv
<1>5. CASE refusedResps' = refusedResps \cup {tick} /\ UNCHANGED renderQ
  <2>1. TypeOK'
    BY <1>1, <1>2, <1>5, QueueAssumption DEF IInv, TypeOK
  <2>2. ResponsesInOrder' /\ RefusedIsGone' /\ HeapOwned'
    BY <1>1, <1>2, <1>3, <1>5 DEF IInv, ResponsesInOrder, RefusedIsGone, HeapOwned, InQ
  <2> QED  BY <1>2, <2>1, <2>2 DEF IInv
<1> QED  BY <1>4, <1>5 DEF RunAndRespond
-----------------------------------------------------------------------------
(* Theorems *)

LEMMA NextIInv == IInv /\ [Next]_vars => IInv'
BY FramePollStep, TypeCommandStep, RunClearStep, RunLocalStep, PostCommandStep, NothingMovesStep,
   TickPollStep, RunQuietlyStep, RunAndRespondStep DEF Next, RenderThread, GameThread

\* What the commands and responses in flight are, however the two threads interleave.
THEOREM QueuesInvariant == Spec => []IInv
BY InitIInv, NextIInv, PTL DEF Spec

\* Commands run in the order they were typed and responses come back in the order their
\* commands ran, each at most once, also when some are refused in between.
THEOREM CommandsRoundTrip == Spec => []RoundTripInOrder
<1>1. IInv => RoundTripInOrder
  <2> SUFFICES ASSUME IInv PROVE RoundTripInOrder
    OBVIOUS
  <2>1. \A n \in Underway : n \notin ToSet(executed)
    <3>1. ToSet(executed) \subseteq Cmd
      BY ToSetType DEF IInv, TypeOK
    <3>2. \A n \in ToSet(executed) : n \in Nat
      BY <3>1, QueueAssumption DEF Cmd
    <3> QED  BY <3>2 DEF IInv, CommandsInOrder
  <2>2. \A n \in (InQ(gameQ) \cup {tick}) \ {0} : n \in Underway
    BY DEF Underway
  <2> QED
    BY <2>1, <2>2 DEF IInv, RoundTripInOrder, CommandsInOrder, ResponsesInOrder
<1> QED  BY <1>1, QueuesInvariant, PTL

\* A response stands below the line it answers, unless that line has been cleared.
THEOREM ResponseBelowCommand == Spec => []EchoFirst
<1>1. IInv => EchoFirst
  BY DEF IInv
<1> QED  BY <1>1, QueuesInvariant, PTL

\* Every string in flight has one owner that will free it; only a refused post leaves a
\* string nobody owns.
THEOREM StringsOwned == Spec => []HeapOwned
<1>1. IInv => HeapOwned
  BY DEF IInv
<1> QED  BY <1>1, QueuesInvariant, PTL
=============================================================================
