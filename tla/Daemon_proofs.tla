--------------------------- MODULE Daemon_proofs ---------------------------
(***************************************************************************)
(* Proofs about the daemon's loop (Daemon), and about what its hooks do to *)
(* the game (HotReload, and GameHooks, which implements it).               *)
(***************************************************************************)
EXTENDS Daemon, GameHooks, WellFoundedInduction, TLAPS
-----------------------------------------------------------------------------
(***************************************************************************)
(* Proofs about Daemon, for a table of any size, any socket numbers and    *)
(* any number of debugger sessions: what select() has reported is served   *)
(* in the round, and the first socket opened in a round is not.            *)
(*                                                                         *)
(* The first follows from what is left to do (WaitingIsAhead).  The second *)
(* needs to know where the numbers go: as long as nothing has been opened, *)
(* the slot of a connection that was closed is still free, before the one  *)
(* the loop has come to (ClosedLeftRoom), so a socket that gets its number *)
(* gets such a slot (OpenedIsBehind); and it stays open, so the number is  *)
(* not given out again (OpenedIsHeld).                                     *)
(***************************************************************************)
\* The sockets that are open, but for the one handle_ipc_sockfd reads.
Held == {table[i].fd : i \in Slots} \cup lost

\* The parts of the types, and of what the loop is doing, that the argument needs.
DTypes ==
  /\ table = [i \in Slots |-> table[i]]
  /\ at \in 0 .. MaxSockets
  /\ busy # "no" => at < MaxSockets
  /\ busy = "ipc" <=> waitFd # NoFd
  /\ NoFd \notin ready

\* The loop has come to a slot that select() has reported.
EntryIsReady == at < MaxSockets => Entry.fd \in ready

\* Nobody else has the connection that is being accepted.
AcceptedIsNew == waitFd # NoFd => waitFd \notin Held

\* A client that waits has a slot the loop has not left.
WaitingIsAhead ==
  \A f \in waiting : f \in ready /\ \E j \in Slots : j >= at /\ table[j].fd = f

\* A socket of the round that is no longer open has left a free slot behind.
ClosedLeftRoom ==
  at < MaxSockets /\ fresh = {} /\ ~(ready \subseteq Held) =>
    \E i \in Slots : i < at /\ table[i] = Unused

OpenedIsBehind ==
  \A f \in ready : fresh = {f} => \A i \in Slots : table[i].fd = f => i < at

OpenedIsHeld ==
  NoFd \notin fresh /\ \A f \in fresh : fresh = {f} => f \in Held /\ f # waitFd

NothingFresh == at = MaxSockets => fresh = {}

DIInv ==
  /\ DTypes
  /\ EntryIsReady
  /\ AcceptedIsNew
  /\ WaitingIsAhead
  /\ ClosedLeftRoom
  /\ OpenedIsBehind
  /\ OpenedIsHeld
  /\ NothingFresh
-----------------------------------------------------------------------------
(* What the table's operators compute *)

\* The smallest number of a set that is not empty.
LEMMA MinOfNats ==
  ASSUME NEW S \in SUBSET Nat, S # {}
  PROVE  Min(S) \in S /\ \A n \in S : Min(S) <= n
<1>1. PICK x \in S : \A y \in S : ~(<<y, x>> \in OpToRel(<, Nat))
  BY NatLessThanWellFounded, WFMin
<1>2. \A y \in S : <<y, x>> \in Nat \X Nat /\ ~(y < x)
  BY <1>1 DEF OpToRel
<1>3. \A y \in S : x <= y
  <2> SUFFICES ASSUME NEW y \in S PROVE x <= y
    OBVIOUS
  <2>1. x \in Nat /\ y \in Nat /\ ~(y < x)
    BY <1>2
  <2> QED  BY <2>1
<1> QED  BY <1>3 DEF Min

\* The loop goes on to the first reported slot from i on.
LEMMA NextReadyIs ==
  ASSUME NEW t, NEW r, NEW i \in 0 .. MaxSockets
  PROVE  /\ NextReady(t, r, i) \in i .. MaxSockets
         /\ NextReady(t, r, i) < MaxSockets => t[NextReady(t, r, i)].fd \in r
         /\ \A j \in Slots : j >= i /\ t[j].fd \in r => NextReady(t, r, i) <= j
<1> DEFINE S == {j \in Slots : j >= i /\ t[j].fd \in r}
           m == NextReady(t, r, i)
<1>1. MaxSockets \in Nat /\ S \cup {MaxSockets} \in SUBSET Nat /\ m = Min(S \cup {MaxSockets})
  BY DaemonAssumption DEF Slots, NextReady
<1>2. m \in S \cup {MaxSockets} /\ \A n \in S \cup {MaxSockets} : m <= n
  BY <1>1, MinOfNats
<1>3. \A n \in S : n \in i .. MaxSockets /\ n < MaxSockets /\ t[n].fd \in r
  BY <1>1 DEF Slots
<1> HIDE DEF m
<1>4. m \in i .. MaxSockets /\ (m < MaxSockets => t[m].fd \in r)
  BY <1>1, <1>2, <1>3
<1>5. \A j \in Slots : j >= i /\ t[j].fd \in r => m <= j
  BY <1>2
<1> QED  BY <1>4, <1>5 DEF m

\* listen_sockfd takes a free slot with none before it, or changes nothing.
LEMMA ListenIs ==
  ASSUME NEW f, NEW fn
  PROVE  \/ Listen(f, fn) = table /\ (f = NoFd \/ FreeSlots = {})
         \/ \E k \in FreeSlots : /\ f # NoFd /\ \A i \in FreeSlots : k <= i
                                 /\ Listen(f, fn) = [table EXCEPT ![k] = [fd |-> f, fn |-> fn]]
<1>1. CASE FreeSlots = {} \/ f = NoFd
  BY <1>1 DEF Listen
<1>2. CASE FreeSlots # {} /\ f # NoFd
  <2>1. FreeSlots \in SUBSET Nat
    BY DaemonAssumption DEF FreeSlots, Slots
  <2> QED  BY <1>2, <2>1, MinOfNats DEF Listen
<1> QED  BY <1>1, <1>2
-----------------------------------------------------------------------------
(* The steps *)

LEMMA DInitIInv == DaemonInit => DIInv
<1> SUFFICES ASSUME DaemonInit PROVE DIInv
  OBVIOUS
<1>1. MaxSockets \in Nat /\ at = MaxSockets
  BY DaemonAssumption DEF DaemonInit
<1>2. table = [i \in Slots |-> table[i]]
  BY DEF DaemonInit
<1> QED
  BY <1>1, <1>2 DEF DaemonInit, DIInv, DTypes, EntryIsReady, AcceptedIsNew, WaitingIsAhead, ClosedLeftRoom,
     OpenedIsBehind, OpenedIsHeld, NothingFresh

\* A round begins with what the slots hold.
LEMMA SelectStep ==
  ASSUME DIInv, Select PROVE DIInv'
<1>1. /\ at = MaxSockets /\ ready' \subseteq Readable /\ waiting' = ready' \cap HasFn("conn")
      /\ at' = NextReady(table, ready', 0)
      /\ UNCHANGED <<running, fresh, busy, waitFd, table, lost>>
  BY DEF Select, socketVars
<1>2. MaxSockets \in Nat /\ 0 \in 0 .. MaxSockets /\ busy = "no" /\ waitFd = NoFd /\ fresh = {}
  BY <1>1, DaemonAssumption DEF DIInv, DTypes, NothingFresh
<1>3. ready' \subseteq Held /\ NoFd \notin ready' /\ Held' = Held
  BY <1>1, <1>2 DEF Readable, Open, Held
<1>4. /\ at' \in 0 .. MaxSockets /\ (at' < MaxSockets => table[at'].fd \in ready')
      /\ \A j \in Slots : j >= 0 /\ table[j].fd \in ready' => at' <= j
  BY <1>1, <1>2, NextReadyIs
<1>5. DTypes'
  BY <1>1, <1>2, <1>3, <1>4 DEF DIInv, DTypes
<1>6. EntryIsReady' /\ AcceptedIsNew' /\ NothingFresh'
  BY <1>1, <1>2, <1>4 DEF EntryIsReady, AcceptedIsNew, NothingFresh, Entry
<1>7. WaitingIsAhead'
  <2> SUFFICES ASSUME NEW f \in waiting'
               PROVE  f \in ready' /\ \E j \in Slots : j >= at' /\ table[j].fd = f
    BY <1>1 DEF WaitingIsAhead
  <2>1. f \in ready' /\ \E j \in Slots : table[j].fd = f
    BY <1>1 DEF HasFn
  <2>2. PICK j \in Slots : table[j].fd = f
    BY <2>1
  <2>3. at' <= j /\ j \in Nat /\ at' \in Nat
    BY <1>2, <1>4, <2>1, <2>2 DEF Slots
  <2> QED  BY <2>1, <2>2, <2>3
<1>8. ClosedLeftRoom' /\ OpenedIsBehind' /\ OpenedIsHeld'
  BY <1>1, <1>2, <1>3 DEF ClosedLeftRoom, OpenedIsBehind, OpenedIsHeld
<1> QED  BY <1>5, <1>6, <1>7, <1>8 DEF DIInv

\* A handler returns that has opened f, which nobody had, or nothing.
LEMMA ReturnStep ==
  ASSUME DIInv, at < MaxSockets, NEW f, NEW fn, NEW closes \in BOOLEAN, Return(f, fn, closes),
         f # NoFd => f \notin Held /\ \A g \in fresh : fresh = {g} => f # g,
         waitFd' = NoFd
  PROVE  DIInv'
<1>1. MaxSockets \in Nat /\ at \in Slots /\ at + 1 \in 0 .. MaxSockets
  BY DaemonAssumption DEF DIInv, DTypes, Slots
<1>2. Entry.fd \in ready /\ Entry.fd # NoFd /\ table[at] # Unused /\ NoFd \notin ready
  BY DEF DIInv, DTypes, EntryIsReady, Entry, Unused
<1>3. /\ at' = NextReady(table', ready, at + 1) /\ busy' = "no"
      /\ fresh' = IF at' = MaxSockets THEN {} ELSE fresh \cup ({f} \ {NoFd})
      /\ ready' = IF at' = MaxSockets THEN {} ELSE ready
      /\ waiting' = waiting \ {Entry.fd}
  BY DEF Return
<1>4. /\ at' \in at + 1 .. MaxSockets /\ (at' < MaxSockets => table'[at'].fd \in ready)
      /\ \A j \in Slots : j >= at + 1 /\ table'[j].fd \in ready => at' <= j
  BY <1>1, <1>3, NextReadyIs
\* Slot by slot: what was in use stays, but for the one that is closed.
<1>5. /\ table' = [i \in Slots |-> table'[i]]
      /\ \A i \in Slots : table[i] # Unused /\ i # at => table'[i] = table[i]
      /\ table'[at] = IF closes THEN Unused ELSE table[at]
      /\ \A i \in Slots : table'[i].fd \in {table[i].fd, f, NoFd}
      /\ f = NoFd => \A i \in Slots \ {at} : table'[i] = table[i]
      /\ \A i, j \in Slots : table[i] = Unused /\ table[j].fd # f /\ table'[j].fd = f /\ f # NoFd => j <= i
      /\ f # NoFd => f \in Held'
  <2> DEFINE L == Listen(f, fn)
  <2>1. table' = IF closes THEN [L EXCEPT ![at] = Unused] ELSE L
    BY DEF Return
  <2>2. lost' = IF FreeSlots = {} /\ f # NoFd THEN lost \cup {f} ELSE lost
    BY DEF Return
  <2>3. CASE L = table /\ (f = NoFd \/ FreeSlots = {})
    <3>1. \A i \in Slots : table'[i] = IF closes /\ i = at THEN Unused ELSE table[i]
      BY <1>1, <2>1, <2>3 DEF DIInv, DTypes
    <3>2. table' = [i \in Slots |-> table'[i]]
      BY <1>1, <2>1, <2>3 DEF DIInv, DTypes
    <3>3. f # NoFd => f \in Held'
      BY <2>2, <2>3 DEF Held
    <3>4. \A j \in Slots : table[j].fd # f /\ table'[j].fd = f => f = NoFd
      BY <3>1 DEF Unused
    <3> QED  BY <1>1, <3>1, <3>2, <3>3, <3>4 DEF Unused
  <2>4. CASE \E k \in FreeSlots : /\ f # NoFd /\ \A i \in FreeSlots : k <= i
                                  /\ L = [table EXCEPT ![k] = [fd |-> f, fn |-> fn]]
    <3>1. PICK k \in FreeSlots : /\ f # NoFd /\ \A i \in FreeSlots : k <= i
                                 /\ L = [table EXCEPT ![k] = [fd |-> f, fn |-> fn]]
      BY <2>4
    <3>2. k \in Slots /\ table[k] = Unused /\ k # at
      BY <1>2, <3>1 DEF FreeSlots
    <3>3. \A i \in Slots : table'[i] = IF closes /\ i = at THEN Unused
                                       ELSE IF i = k THEN [fd |-> f, fn |-> fn] ELSE table[i]
      BY <1>1, <2>1, <3>1, <3>2 DEF DIInv, DTypes
    <3>4. table' = [i \in Slots |-> table'[i]]
      BY <1>1, <2>1, <3>1, <3>2 DEF DIInv, DTypes
    <3>5. table'[k].fd = f
      BY <3>2, <3>3
    <3>6. f \in Held'
      BY <3>2, <3>5 DEF Held
    <3>7. \A j \in Slots : table[j].fd # f /\ table'[j].fd = f => j = k
      BY <3>1, <3>3 DEF Unused
    <3>8. \A i \in Slots : table[i] = Unused => k <= i
      BY <3>1 DEF FreeSlots
    <3> QED  BY <1>1, <3>1, <3>2, <3>3, <3>4, <3>6, <3>7, <3>8 DEF Unused
  <2> QED  BY <2>3, <2>4, ListenIs
<1>6. lost \subseteq lost' /\ lost' \subseteq lost \cup {f}
  BY DEF Return
<1>7. \A g \in Held : g # Entry.fd /\ g # NoFd => g \in Held'
  <2> SUFFICES ASSUME NEW g \in Held, g # Entry.fd, g # NoFd, g \notin lost PROVE g \in Held'
    BY <1>6 DEF Held
  <2>1. PICK i \in Slots : table[i].fd = g
    BY DEF Held
  <2>2. table'[i] = table[i]
    BY <1>5, <2>1 DEF Entry, Unused
  <2> QED  BY <2>1, <2>2 DEF Held
<1>8. ~closes => Entry.fd \in Held'
  BY <1>1, <1>5 DEF Held, Entry
<1>9. DTypes' /\ EntryIsReady' /\ AcceptedIsNew' /\ NothingFresh'
  BY <1>1, <1>2, <1>3, <1>4, <1>5 DEF DTypes, EntryIsReady, AcceptedIsNew, NothingFresh, Entry
<1>10. WaitingIsAhead'
  <2> SUFFICES ASSUME NEW g \in waiting, g # Entry.fd
               PROVE  g \in ready' /\ \E j \in Slots : j >= at' /\ table'[j].fd = g
    BY <1>3 DEF WaitingIsAhead
  <2>1. PICK j \in Slots : g \in ready /\ j >= at /\ table[j].fd = g
    BY DEF DIInv, WaitingIsAhead
  <2>2. j # at /\ table'[j] = table[j]
    BY <1>2, <1>5, <2>1 DEF Entry, Unused
  <2>3. j >= at + 1 /\ j < MaxSockets /\ j \in Nat
    BY <1>1, <2>1, <2>2 DEF Slots
  <2>4. j >= at' /\ at' # MaxSockets
    BY <1>1, <1>4, <2>1, <2>2, <2>3
  <2> QED  BY <1>3, <2>1, <2>2, <2>4
<1>11. ClosedLeftRoom'
  <2> SUFFICES ASSUME at' < MaxSockets, fresh' = {}, NEW g \in ready', g \notin Held'
               PROVE  \E i \in Slots : i < at' /\ table'[i] = Unused
    BY DEF ClosedLeftRoom
  <2>1. at' # MaxSockets /\ at < at' /\ fresh = {} /\ f = NoFd /\ g \in ready
    <3>1. at' # MaxSockets /\ at < at'
      BY <1>1, <1>4 DEF Slots
    <3> QED  BY <1>3, <3>1
  <2>2. CASE g = Entry.fd
    <3>1. table'[at] = Unused
      BY <1>5, <1>8, <2>2
    <3> QED  BY <1>1, <2>1, <3>1
  <2>3. CASE g # Entry.fd
    <3>1. g \notin Held
      BY <1>2, <1>7, <2>1, <2>3
    <3>2. PICK i \in Slots : i < at /\ table[i] = Unused
      BY <2>1, <3>1 DEF DIInv, ClosedLeftRoom
    <3>3. i # at /\ table'[i] = Unused
      BY <1>2, <1>5, <2>1, <3>2
    <3> QED  BY <1>1, <1>4, <3>2, <3>3 DEF Slots
  <2> QED  BY <2>2, <2>3
<1>12. OpenedIsBehind'
  <2> SUFFICES ASSUME NEW g \in ready', fresh' = {g}, NEW i \in Slots, table'[i].fd = g
               PROVE  i < at'
    BY DEF OpenedIsBehind
  <2>1. fresh' = fresh \cup ({f} \ {NoFd}) /\ g \in ready /\ at < at' /\ i \in Nat /\ at' \in Nat
    BY <1>1, <1>3, <1>4 DEF Slots
  <2>2. CASE f = NoFd
    <3>1. fresh = {g}
      BY <2>1, <2>2
    <3>2. i = at \/ table[i].fd = g
      BY <1>5, <2>2
    <3>3. i = at \/ i < at
      BY <2>1, <3>1, <3>2 DEF DIInv, OpenedIsBehind
    <3> QED  BY <1>1, <2>1, <3>3 DEF Slots
  <2>3. CASE f # NoFd
    <3>1. g = f /\ fresh = {}
      BY <2>1, <2>3
    <3>2. PICK k \in Slots : k < at /\ table[k] = Unused
      BY <2>1, <2>3, <3>1 DEF DIInv, ClosedLeftRoom
    <3>3. table[i].fd # f
      BY <2>3 DEF Held
    <3>4. i <= k
      BY <1>5, <2>3, <3>1, <3>2, <3>3
    <3> QED  BY <1>1, <2>1, <3>2, <3>4 DEF Slots
  <2> QED  BY <2>2, <2>3
<1>13. OpenedIsHeld'
  <2>1. NoFd \notin fresh'
    BY <1>3 DEF DIInv, OpenedIsHeld
  <2> SUFFICES ASSUME NEW g \in fresh', fresh' = {g} PROVE g \in Held'
    BY <2>1 DEF OpenedIsHeld
  <2>2. fresh' = fresh \cup ({f} \ {NoFd})
    BY <1>3
  <2>3. CASE f = NoFd
    <3>1. fresh = {g} /\ g \in Held /\ g # NoFd
      BY <2>1, <2>2, <2>3 DEF DIInv, OpenedIsHeld
    <3>2. g # Entry.fd
      BY <1>1, <1>2, <3>1 DEF DIInv, OpenedIsBehind, Entry, Slots
    <3> QED  BY <1>7, <3>1, <3>2
  <2>4. CASE f # NoFd
    BY <1>5, <2>2, <2>4
  <2> QED  BY <2>3, <2>4
<1> QED  BY <1>9, <1>10, <1>11, <1>12, <1>13 DEF DIInv

\* A socket that a handler opens is nobody's.
LEMMA NewIs ==
  ASSUME DIInv
  PROVE  \A f \in New : f # NoFd /\ f \notin Held /\ \A g \in fresh : fresh = {g} => f # g
<1>1. \A f \in New : f # NoFd /\ f \notin Held
  BY DaemonAssumption DEF New, Open, Held
<1>2. \A g \in fresh : fresh = {g} => g \in Held
  BY DEF DIInv, OpenedIsHeld
<1> QED  BY <1>1, <1>2

\* A handler that returns at once, with a new socket or none.
LEMMA HandlerStep ==
  ASSUME DIInv, at < MaxSockets, busy = "no", UNCHANGED waitFd,
         NEW f \in New \cup {NoFd}, NEW fn, Stays(f, fn) \/ Closes(f, fn)
  PROVE  DIInv'
<1>1. waitFd' = NoFd
  BY DEF DIInv, DTypes
<1>2. f # NoFd => f \notin Held /\ \A g \in fresh : fresh = {g} => f # g
  BY NewIs
<1>3. CASE Stays(f, fn)
  BY <1>1, <1>2, <1>3, ReturnStep DEF Stays
<1>4. CASE Closes(f, fn)
  BY <1>1, <1>2, <1>4, ReturnStep DEF Closes
<1> QED  BY <1>3, <1>4

LEMMA ServeStep ==
  ASSUME DIInv, \/ ServeMaster \/ ServeOther \/ ServeStartDebug \/ ServeGdbConn
               \/ ServeGdbConnFails \/ ServeInput \/ ServeInputEnds \/ ServeOutput \/ AcceptFails
  PROVE  DIInv'
<1>1. at < MaxSockets /\ busy = "no" /\ UNCHANGED waitFd
  BY DEF Serves, ServeMaster, ServeOther, ServeStartDebug, ServeGdbConn, ServeGdbConnFails,
         ServeInput, ServeInputEnds, ServeOutput, AcceptFails
<1>2. CASE ServeMaster
  BY <1>1, <1>2, HandlerStep DEF ServeMaster
<1>3. CASE ServeOther
  BY <1>1, <1>3, HandlerStep DEF ServeOther
<1>4. CASE ServeStartDebug
  BY <1>1, <1>4, HandlerStep DEF ServeStartDebug
<1>5. CASE ServeGdbConn
  BY <1>1, <1>5, HandlerStep DEF ServeGdbConn
<1>6. CASE ServeGdbConnFails
  BY <1>1, <1>6, HandlerStep DEF ServeGdbConnFails
<1>7. CASE ServeInput
  BY <1>1, <1>7, HandlerStep DEF ServeInput
<1>8. CASE ServeInputEnds
  BY <1>1, <1>8, HandlerStep DEF ServeInputEnds
<1>9. CASE ServeOutput
  BY <1>1, <1>9, HandlerStep DEF ServeOutput
<1>10. CASE AcceptFails
  BY <1>1, <1>10, HandlerStep DEF AcceptFails
<1> QED  BY <1>2, <1>3, <1>4, <1>5, <1>6, <1>7, <1>8, <1>9, <1>10

\* The handlers that keep the loop waiting, for a hook or for the message of a thread.
LEMMA BeginStep ==
  ASSUME DIInv, ServeHook \/ ServeIpc PROVE DIInv'
<1>1. UNCHANGED <<at, ready, fresh, waiting, table, lost>> /\ Held' = Held
  BY DEF ServeHook, ServeIpc, socketVars, Held
<1>2. at < MaxSockets /\ waitFd = NoFd /\ busy = "no"
  BY DEF ServeHook, ServeIpc, Serves, DIInv, DTypes
<1>3. \/ busy' = "hook" /\ waitFd' = waitFd
      \/ busy' = "ipc" /\ waitFd' \in New
  BY DEF ServeHook, ServeIpc
<1>4. \A f \in New : f # NoFd /\ f \notin Held /\ \A g \in fresh : fresh = {g} => f # g
  BY NewIs
<1>5. DTypes' /\ AcceptedIsNew'
  BY <1>1, <1>2, <1>3, <1>4 DEF DIInv, DTypes, AcceptedIsNew
<1>6. OpenedIsHeld'
  BY <1>1, <1>2, <1>3, <1>4 DEF DIInv, OpenedIsHeld
<1>7. EntryIsReady' /\ WaitingIsAhead' /\ ClosedLeftRoom' /\ OpenedIsBehind' /\ NothingFresh'
  BY <1>1 DEF DIInv, EntryIsReady, WaitingIsAhead, ClosedLeftRoom, OpenedIsBehind, NothingFresh, Entry
<1> QED  BY <1>5, <1>6, <1>7 DEF DIInv

\* And their ends.
LEMMA DoneStep ==
  ASSUME DIInv, HookDone \/ IpcInit PROVE DIInv'
<1>1. CASE HookDone
  <2>1. at < MaxSockets /\ waitFd' = NoFd /\ Return(NoFd, "none", TRUE)
    BY <1>1 DEF HookDone, DIInv, DTypes, Closes
  <2> QED  BY <2>1, ReturnStep
<1>2. CASE IpcInit
  <2>1. /\ at < MaxSockets /\ waitFd' = NoFd /\ Return(waitFd, "output", FALSE)
        /\ waitFd \notin Held
    BY <1>2 DEF IpcInit, DIInv, DTypes, AcceptedIsNew, Stays
  <2>2. \A g \in fresh : fresh = {g} => waitFd # g
    BY DEF DIInv, OpenedIsHeld
  <2> QED  BY <2>1, <2>2, ReturnStep
<1> QED  BY <1>1, <1>2

\* The threads of the sessions do not touch the table.
LEMMA ThreadsStep ==
  ASSUME DIInv, Threads \/ UNCHANGED daemonVars PROVE DIInv'
<1>1. UNCHANGED <<loopVars, socketVars>>
  BY DEF Threads, ThreadConnect, ThreadSend, daemonVars
<1>2. UNCHANGED <<running, at, ready, fresh, waiting, busy, waitFd, table, lost>> /\ Held' = Held
  BY <1>1 DEF loopVars, socketVars, Held
<1> QED
  BY <1>2 DEF DIInv, DTypes, EntryIsReady, AcceptedIsNew, WaitingIsAhead, ClosedLeftRoom,
     OpenedIsBehind, OpenedIsHeld, NothingFresh, Entry
-----------------------------------------------------------------------------
(* Theorems *)

LEMMA DNextIInv == DIInv /\ [DaemonNext]_daemonVars => DIInv'
BY SelectStep, ServeStep, BeginStep, DoneStep, ThreadsStep DEF DaemonNext, MainLoop

\* Where the round's sockets are, whatever the handlers do to the table.
THEOREM RoundInvariant == DaemonSpec => []DIInv
BY DInitIInv, DNextIInv, PTL DEF DaemonSpec

\* The first socket opened in a round is not served in it, whatever number it gets.
THEOREM OpenedWaitsForSelect == DaemonSpec => []ServedIsReady
<1>1. DIInv => ServedIsReady
  <2> SUFFICES ASSUME DIInv, at < MaxSockets PROVE fresh # {Entry.fd}
    BY DEF ServedIsReady
  <2>1. MaxSockets \in Nat /\ at \in Slots /\ ~(at < at)
    BY DaemonAssumption DEF DIInv, DTypes, Slots
  <2> QED  BY <2>1 DEF DIInv, EntryIsReady, OpenedIsBehind, Entry
<1> QED  BY <1>1, RoundInvariant, PTL

\* Every client that select() has reported is served in the round.
THEOREM ReportedIsServed == DaemonSpec => []ServedInRound
<1>1. DIInv => ServedInRound
  BY DaemonAssumption DEF DIInv, WaitingIsAhead, ServedInRound, Slots
<1> QED  BY <1>1, RoundInvariant, PTL
-----------------------------------------------------------------------------
(***************************************************************************)
(* Proofs about HotReload and about GameHooks, which implements it and     *)
(* inherits its theorems, for any threads and any number of copies of the  *)
(* DLL.                                                                    *)
(*                                                                         *)
(* HotReload: at most the copy g_game_dll names is loaded beside the       *)
(* game's own, and no hook leaves a thread suspended.  Neither is          *)
(* inductive alone.  LoadLibrary adds a copy, so no other copy of the      *)
(* daemon's may be loaded when it is called (LoadsIntoNothing).  Resume takes one from every suspended thread of a  *)
(* snapshot that is not the one Suspend used; this is right because the    *)
(* only thread that may have been suspended before, the first one, is in   *)
(* every snapshot of a process that lives (FirstThreadSeen), and the       *)
(* others run unless Suspend stopped them (SuspendCounts).                 *)
(*                                                                         *)
(* GameHooks: redirected calls enter the loaded copy, messages reach the   *)
(* game's own procedure, and the copies share one drawing context.  What a *)
(* copy does when it is loaded depends on whether one was loaded before    *)
(* it, so the invariant says what a game without a mark cannot have        *)
(* (NothingBeforeMark) and that a loaded copy has left the mark            *)
(* (LoadedHasMarked).  That a copy continues with the device of the one    *)
(* before it needs DeviceIsRegion, and that the window's procedure is not  *)
(* the new copy's before its first tick needs the copies to be new         *)
(* (CopiesAreNew), and the game's own to come before the window            *)
(* (BeforeWindow).  What a copy puts back when it goes may be a jump into  *)
(* the game's own copy, which never goes (RestoredIsThere); and which of   *)
(* two copies makes the queue of the tick is in TickHasQueue.              *)
(***************************************************************************)
-----------------------------------------------------------------------------
(* HotReload *)

\* The daemon calls LoadLibrary only when no copy of its own making is loaded.
LoadsIntoNothing == hook = "load" => loaded \subseteq {Own}

\* What Suspend adds to a thread's count and Resume has not taken back yet.
Stopped(t) == IF hook \in {"unload", "load", "resume"} /\ t \in snap THEN 1 ELSE 0

\* Every thread's count, also in the middle of a hook.
SuspendCounts == \A t \in Live : susp[t] = Base(t) + Stopped(t)

\* The first thread lives as long as the process, so every snapshot has it.
FirstThreadSeen ==
  alive => Main \in Live /\ (hook # "idle" => Main \in snap /\ snap \subseteq Live)

\* A process that has ended has neither threads nor DLLs.
GoneIsEmpty == ~alive => Live = {} /\ loaded = {}

\* The parts of the types that the argument needs.
Types ==
  /\ susp = [t \in Live |-> susp[t]]
  /\ paused \in BOOLEAN
  /\ hook \in {"idle", "suspend", "unload", "load", "resume"}

IInv ==
  /\ Types
  /\ LoadedIsKnown
  /\ LoadsIntoNothing
  /\ GoneIsEmpty
  /\ FirstThreadSeen
  /\ SuspendCounts

\* Before the first hook there is no process.
LEMMA InitIInv == Init => IInv
<1> SUFFICES ASSUME Init PROVE IInv
  OBVIOUS
<1>1. Live = {}
  BY DEF Init, Live
<1> QED
  BY <1>1 DEF Init, IInv, Types, LoadedIsKnown, LoadsIntoNothing, GoneIsEmpty,
              FirstThreadSeen, SuspendCounts

\* A process that start_game has just made has one thread, and at most the new copy.
LEMMA StartGameStep ==
  ASSUME IInv, hook = "idle", NEW p \in BOOLEAN, NEW i \in BOOLEAN, NEW d,
         StartGame(p, i, d)
  PROVE  IInv'
<1>1. Live' = {Main} /\ susp' = [t \in {Main} |-> IF p THEN 1 ELSE 0]
  BY DEF StartGame, Live
<1>2. hook' = "idle" /\ snap' = snap /\ paused' = p /\ alive' = TRUE
  BY DEF StartGame
<1>3. Types'
  BY <1>1, <1>2 DEF Types
<1>4. LoadedIsKnown'
  BY DEF StartGame, LoadedIsKnown
<1>5. SuspendCounts'
  BY <1>1, <1>2 DEF SuspendCounts, Base, Stopped
<1> QED
  BY <1>1, <1>2, <1>3, <1>4, <1>5
  DEF IInv, LoadsIntoNothing, GoneIsEmpty, FirstThreadSeen

\* A failed start changes no more than the handle.
LEMMA StartFailsStep ==
  ASSUME IInv, StartFails PROVE IInv'
BY DEF IInv, StartFails, Types, LoadedIsKnown, LoadsIntoNothing, GoneIsEmpty,
       FirstThreadSeen, SuspendCounts, Base, Stopped, Live

\* The end of the process.
LEMMA ExitStep ==
  ASSUME IInv, Exit PROVE IInv'
<1>1. Live' = {}
  BY DEF Exit, Live
<1> QED
  BY <1>1 DEF Exit, IInv, Types, LoadedIsKnown, LoadsIntoNothing, GoneIsEmpty,
              FirstThreadSeen, SuspendCounts

\* Steps of the debugger, the lock and the commands that touch neither threads nor DLLs.
LEMMA QuietStep ==
  ASSUME IInv, UNCHANGED <<alive, susp, loaded, dll, paused, hook, snap>>
  PROVE  IInv'
BY DEF IInv, Types, LoadedIsKnown, LoadsIntoNothing, GoneIsEmpty,
       FirstThreadSeen, SuspendCounts, Base, Stopped, Live

\* Threads that start run: they are not in the snapshot, and not the first thread.
LEMMA WithThreadsStep ==
  ASSUME IInv, NEW new \in SUBSET Extra, susp' = WithThreads(new),
         alive, alive' = alive, paused' = paused, snap' = snap, hook' \in {hook, "resume"},
         hook' # hook => hook = "load"
  PROVE  Types' /\ FirstThreadSeen' /\ SuspendCounts'
<1>1. Live' = Live \cup new
  BY DEF WithThreads, Live
<1>2. \A t \in Live' : susp'[t] = IF t \in Live THEN susp[t] ELSE 0
  BY <1>1 DEF WithThreads
<1>3. Types'
  BY <1>1, <1>2 DEF IInv, Types, WithThreads
<1>4. FirstThreadSeen'
  BY <1>1 DEF IInv, FirstThreadSeen
<1>5. SuspendCounts'
  <2> SUFFICES ASSUME NEW t \in Live' PROVE susp'[t] = Base(t)' + Stopped(t)'
    BY DEF SuspendCounts
  <2>1. CASE t \in Live
    BY <1>2, <2>1 DEF IInv, SuspendCounts, Base, Stopped
  <2>2. CASE t \notin Live
    <3>1. t # Main /\ susp'[t] = 0
      BY <1>1, <1>2, <2>2, HotReloadAssumption
    <3>2. Stopped(t)' = 0
      BY <2>2 DEF IInv, FirstThreadSeen, Types, Stopped
    <3> QED  BY <3>1, <3>2 DEF Base
  <2> QED  BY <2>1, <2>2
<1> QED  BY <1>3, <1>4, <1>5

\* A hook begins with a snapshot of a process that runs, its first thread included.
LEMMA HookReloadsStep ==
  ASSUME IInv, HookReloads PROVE IInv'
BY DEF IInv, HookReloads, Running, Types, LoadedIsKnown, LoadsIntoNothing, GoneIsEmpty,
       FirstThreadSeen, SuspendCounts, Base, Stopped, Live

\* Suspend adds one to the threads of the snapshot.
LEMMA SuspendStep ==
  ASSUME IInv, Suspend PROVE IInv'
<1>1. Live' = Live
  BY DEF Suspend, Live
<1>2. SuspendCounts'
  BY <1>1 DEF IInv, Suspend, SuspendCounts, Base, Stopped
<1> QED
  BY <1>1, <1>2 DEF IInv, Suspend, Types, LoadedIsKnown, LoadsIntoNothing, GoneIsEmpty,
                    FirstThreadSeen

\* Either the named copy is gone when the hook goes on to load, or the hook gives up.
LEMMA UnloadStep ==
  ASSUME IInv, Unload \/ UnloadFails PROVE IInv'
<1>1. UNCHANGED <<alive, susp, Live, paused, snap, dll>> /\ hook = "unload" /\ hook' \in {"load", "resume"}
  BY DEF Unload, UnloadFails, Live
<1>2. SuspendCounts' /\ Types' /\ FirstThreadSeen'
  BY <1>1 DEF IInv, Types, FirstThreadSeen, SuspendCounts, Base, Stopped
<1>3. loaded' \subseteq loaded
  BY DEF Unload, UnloadFails
<1>4. LoadsIntoNothing'
  BY DEF IInv, Unload, UnloadFails, LoadedIsKnown, LoadsIntoNothing
<1> QED
  BY <1>1, <1>2, <1>3, <1>4 DEF IInv, LoadedIsKnown, GoneIsEmpty

\* LoadLibrary: the new copy is the only one of the daemon's, and g_game_dll names it.
LEMMA LoadStep ==
  ASSUME IInv, Load PROVE IInv'
<1>1. /\ UNCHANGED <<alive, paused, snap>> /\ hook = "load" /\ hook' = "resume"
      /\ loaded \subseteq {Own}
  BY DEF Load, IInv, LoadsIntoNothing
<1>2. CASE loaded' = loaded \cup {copies} /\ dll' = copies /\ alive
           /\ \E new \in SUBSET Extra : susp' = WithThreads(new)
  <2>1. PICK new \in SUBSET Extra : susp' = WithThreads(new)
    BY <1>2
  <2>2. Types' /\ FirstThreadSeen' /\ SuspendCounts'
    BY <1>1, <1>2, <2>1, WithThreadsStep
  <2> QED
    BY <1>1, <1>2, <2>2 DEF IInv, LoadedIsKnown, LoadsIntoNothing, GoneIsEmpty
<1>3. CASE UNCHANGED <<loaded, susp>>
  <2>1. Live' = Live
    BY <1>3 DEF Live
  <2> QED
    BY <1>1, <1>3, <2>1 DEF IInv, Types, LoadedIsKnown, LoadsIntoNothing, GoneIsEmpty,
                            FirstThreadSeen, SuspendCounts, Base, Stopped
<1> QED  BY <1>2, <1>3 DEF Load

\* Resume takes back what Suspend added: a thread that is not in Suspend's snapshot is
\* not the first one, so it runs and is left alone.
LEMMA ResumeStep ==
  ASSUME IInv, Resume PROVE IInv'
<1>1. Live' = Live
  BY DEF Resume, Live
<1>2. SuspendCounts'
  <2> SUFFICES ASSUME NEW t \in Live PROVE susp'[t] = Base(t)' + Stopped(t)'
    BY <1>1 DEF SuspendCounts
  <2>1. alive
    BY DEF IInv, GoneIsEmpty
  <2>2. t \notin snap => Base(t) = 0
    BY <2>1 DEF IInv, FirstThreadSeen, Resume, Base
  <2>3. susp[t] = Base(t) + Stopped(t) /\ Base(t) \in {0, 1}
    BY DEF IInv, SuspendCounts, Base
  <2>4. Base(t)' = Base(t) /\ Stopped(t)' = 0
    BY DEF Resume, Base, Stopped
  <2>5. susp'[t] = IF susp[t] > 0 THEN susp[t] - 1 ELSE 0
    BY DEF Resume
  <2>6. Stopped(t) = IF t \in snap THEN 1 ELSE 0
    BY DEF Resume, Stopped
  <2> QED  BY <2>2, <2>3, <2>4, <2>5, <2>6
<1>3. Types'
  BY <1>1 DEF IInv, Resume, Types
<1> QED
  BY <1>1, <1>2, <1>3 DEF IInv, Resume, LoadedIsKnown, LoadsIntoNothing, GoneIsEmpty,
                          FirstThreadSeen

\* The game loads its own copy, beside what the daemon has loaded.
LEMMA OwnLoadStep ==
  ASSUME IInv, OwnLoad PROVE IInv'
<1>1. UNCHANGED <<alive, paused, snap, hook, dll>> /\ alive
  BY DEF OwnLoad, Runs
<1>2. CASE loaded' = loaded \cup {Own} /\ \E new \in SUBSET Extra : susp' = WithThreads(new)
  <2>1. PICK new \in SUBSET Extra : susp' = WithThreads(new)
    BY <1>2
  <2>2. Types' /\ FirstThreadSeen' /\ SuspendCounts'
    BY <1>1, <2>1, WithThreadsStep
  <2> QED
    BY <1>1, <1>2, <2>2 DEF IInv, LoadedIsKnown, LoadsIntoNothing, GoneIsEmpty
<1>3. CASE UNCHANGED <<loaded, susp>>
  BY <1>1, <1>3, QuietStep
<1> QED  BY <1>2, <1>3 DEF OwnLoad

\* A thread of the game starts another.
LEMMA SpawnStep ==
  ASSUME IInv, Spawn PROVE IInv'
<1>1. UNCHANGED <<alive, paused, snap, hook, loaded, dll>> /\ alive
  BY DEF Spawn, Runs
<1>2. PICK t \in Extra \ Live : susp' = WithThreads({t})
  BY DEF Spawn
<1>3. Types' /\ FirstThreadSeen' /\ SuspendCounts'
  BY <1>1, <1>2, WithThreadsStep
<1> QED
  BY <1>1, <1>3 DEF IInv, LoadedIsKnown, LoadsIntoNothing, GoneIsEmpty

\* A first thread that waited for a debugger waits no more.
LEMMA DebugRunningStep ==
  ASSUME IInv, DebugRunning PROVE IInv'
<1>1. /\ hook = "idle" /\ UNCHANGED <<alive, loaded, dll, hook, snap>> /\ paused' = FALSE
      /\ Live' = Live
  BY DEF DebugRunning, Live
<1>2. SuspendCounts'
  <2> SUFFICES ASSUME NEW t \in Live PROVE susp'[t] = 0
    BY <1>1 DEF SuspendCounts, Base, Stopped
  <2>1. susp[t] = Base(t)
    BY <1>1 DEF IInv, SuspendCounts, Stopped, Base
  <2>2. CASE paused /\ Main \in Live /\ susp[Main] > 0
    <3>1. susp' = [susp EXCEPT ![Main] = @ - 1]
      BY <2>2 DEF DebugRunning
    <3> QED  BY <2>1, <2>2, <3>1 DEF Base, Live
  <2>3. CASE ~(paused /\ Main \in Live /\ susp[Main] > 0)
    BY <2>1, <2>3 DEF DebugRunning, Base
  <2> QED  BY <2>2, <2>3
<1>3. Types'
  BY <1>1 DEF IInv, DebugRunning, Types
<1> QED
  BY <1>1, <1>2, <1>3 DEF IInv, LoadedIsKnown, LoadsIntoNothing, GoneIsEmpty, FirstThreadSeen

\* Every step of the daemon, the game and the debugger keeps the invariant.
LEMMA NextIInv == IInv /\ [Next]_vars => IInv'
<1> SUFFICES ASSUME IInv, [Next]_vars PROVE IInv'
  OBVIOUS
<1>1. CASE HookStarts
  <2>1. CASE StartFails
    BY <2>1, StartFailsStep
  <2>2. CASE \E i \in BOOLEAN : StartGame(FALSE, i, NoDebugger)
    BY <1>1, <2>2, StartGameStep DEF HookStarts
  <2> QED  BY <1>1, <2>1, <2>2 DEF HookStarts
<1>2. CASE HookReloads
  BY <1>2, HookReloadsStep
<1>3. CASE HookStep
  BY <1>3, SuspendStep, UnloadStep, LoadStep, ResumeStep DEF HookStep
<1>4. CASE Game
  <2>1. CASE TakeLock \/ ReleaseLock \/ Break \/ OwnLoadBegins
    BY <2>1, QuietStep DEF TakeLock, ReleaseLock, Break, OwnLoadBegins
  <2> QED  BY <1>4, <2>1, ExitStep, SpawnStep DEF Game
<1>5. CASE Session
  <2>1. CASE DebugStarts
    <3>1. CASE StartFails
      BY <3>1, StartFailsStep
    <3>2. CASE StartGame(TRUE, FALSE, NoDebugger)
      BY <2>1, <3>2, StartGameStep DEF DebugStarts
    <3>3. CASE \E d \in {NoDebugger, "gdb"} : StartGame(FALSE, TRUE, d)
      BY <2>1, <3>3, StartGameStep DEF DebugStarts
    <3> QED  BY <2>1, <3>1, <3>2, <3>3 DEF DebugStarts
  <2>2. CASE Interrupt
    BY <2>2, QuietStep, ExitStep DEF Interrupt, Break
  <2>3. CASE Continue
    BY <2>3, QuietStep DEF Continue
  <2>4. CASE DebuggerKilled
    BY <2>4, QuietStep, ExitStep DEF DebuggerKilled
  <2> QED  BY <1>5, <2>1, <2>2, <2>3, <2>4, DebugRunningStep DEF Session
<1>6. CASE UNCHANGED vars
  BY <1>6, QuietStep DEF vars
<1> QED  BY <1>1, <1>2, <1>3, <1>4, <1>5, <1>6, OwnLoadStep DEF Next

\* What a hook relies on between its steps holds whenever the game exits, starts threads
\* or stops.
THEOREM ReloadInvariant == Spec => []IInv
BY InitIInv, NextIInv, PTL DEF Spec

\* Whatever fails, the game has no copy of the daemon's loaded but the one that the next
\* hook unloads.
THEOREM OneDllLoaded == Spec => []LoadedIsKnown
<1>1. IInv => LoadedIsKnown
  BY DEF IInv
<1> QED  BY <1>1, ReloadInvariant, PTL

\* Whatever fails, a hook that is over has left no thread of the game suspended.
THEOREM HookResumesThreads == Spec => []ThreadsRunAgain
<1>1. IInv => ThreadsRunAgain
  BY DEF IInv, SuspendCounts, ThreadsRunAgain, Stopped, Base
<1> QED  BY <1>1, ReloadInvariant, PTL
-----------------------------------------------------------------------------
(* GameHooks *)

\* The parts of the types that the argument needs.
GTypes ==
  /\ marked \in BOOLEAN /\ reinit \in BOOLEAN
  /\ regdev \in BOOLEAN /\ pinned \in BOOLEAN
  /\ queue \in [{"own", "copy"} -> BOOLEAN] /\ device \in [{"own", "copy"} -> BOOLEAN]
  /\ DOMAIN orig = {"own", "copy"}

\* The next copy has a number that no earlier copy has.
CopiesAreNew ==
  /\ copies \in Nat
  /\ loaded \subseteq {Own} \cup 0 .. (copies - 1)
  /\ dll \in {NoDll} \cup 0 .. (copies - 1)
  /\ wnd \in {OfGame, Own} \cup 0 .. (copies - 1)

\* A copy that is loaded has marked the game.
LoadedHasMarked == loaded # {} => marked

\* Only copies leave the mark, redirections or regions behind.
NothingBeforeMark ==
  ~marked => /\ frame = OfGame /\ report = OfGame /\ wnd = OfGame
             /\ patched = OfGame /\ under = OfGame
             /\ ~regdev /\ ~pinned

\* What the daemon's copy puts back leads to the game or to its own copy, which stays.
RestoredIsThere == under \in {OfGame} \cup (loaded \cap {Own})

\* The copy that draws knows the device if any of them does.
DeviceIsRegion == frame \in loaded => device[SideOf(frame)] = regdev

\* The window is created after the configuration was opened, and that after the game's
\* own load.
BeforeWindow == (own # "past" => stage = "start") /\ (stage = "start" => wnd = OfGame)

\* A tick that leads into a copy finds its queue, unless the copy makes it when the
\* configuration is opened.
TickHasQueue ==
  /\ marked => tick # OfGame
  /\ tick \in loaded => SideOf(tick) = SideOf(early) \/ queue[SideOf(tick)]

\* There is a context once the region has a device.
ContextWithDevice == contexts = IF regdev THEN 1 ELSE 0

Inside ==
  /\ GTypes
  /\ CopiesAreNew
  /\ LoadedHasMarked
  /\ NothingBeforeMark
  /\ RestoredIsThere
  /\ DeviceIsRegion
  /\ BeforeWindow
  /\ TickHasQueue
  /\ ContextWithDevice
  /\ HooksEnterLoaded
  /\ GameHandlerKept

GIInv == IInv /\ Inside

\* Before the first start.
LEMMA GInitInside == GInit => Inside
<1> SUFFICES ASSUME GInit PROVE Inside
  OBVIOUS
<1>1. loaded = {} /\ copies = 0 /\ dll = NoDll /\ marked = FALSE /\ own = "past"
  BY DEF GInit, Init
<1>2. GTypes /\ NothingBeforeMark /\ ContextWithDevice
  BY <1>1 DEF GInit, GTypes, NoStatics, NothingBeforeMark, ContextWithDevice
<1>3. CopiesAreNew /\ RestoredIsThere /\ BeforeWindow /\ TickHasQueue
  BY <1>1 DEF GInit, CopiesAreNew, RestoredIsThere, BeforeWindow, TickHasQueue
<1> QED
  BY <1>1, <1>2, <1>3, HotReloadAssumption
  DEF GInit, Inside, LoadedHasMarked, DeviceIsRegion, HooksEnterLoaded, GameHandlerKept, Call

\* A step inside the game is none of HotReload's, any other is one of its steps.
LEMMA GNextIsNext == [GNext]_gvars => [Next]_vars
<1>1. GameRuns => UNCHANGED vars
  BY DEF GameRuns, OpenLocalCfg, CreateWindow, TickInit, FirstFrame
<1>2. GHookStep => HookStep
  BY DEF GHookStep, HookStep, Attach, AttachFails, Detach, DetachFails
<1>3. Start \/ Others \/ OwnAttach => Next
  BY DEF Start, Others, OwnAttach, Next, Session
<1>4. UNCHANGED gvars => UNCHANGED vars
  BY DEF gvars
<1> QED  BY <1>1, <1>2, <1>3, <1>4 DEF GNext, Next

\* What the actions on calls and copies are about.
LEMMA NoneIsLoaded == ASSUME CopiesAreNew PROVE OfGame \notin loaded /\ NoDll \notin loaded
BY HotReloadAssumption, GameHooksAssumption DEF CopiesAreNew

\* Where neither calls nor copies change, all stays as it is.
LEMMA StillInside ==
  ASSUME Inside, UNCHANGED inside, UNCHANGED <<loaded, copies, dll, marked>>,
         own' = own \/ own = "ahead"
  PROVE  Inside'
BY DEF Inside, inside, targets, statics, regions, GTypes, CopiesAreNew, LoadedHasMarked,
       NothingBeforeMark, RestoredIsThere, DeviceIsRegion, BeforeWindow, TickHasQueue,
       ContextWithDevice, HooksEnterLoaded, GameHandlerKept, Call

\* A copy that is loaded redirects the calls, and takes over what the regions keep.  It
\* is either the game's own, while the window is not there, or the daemon's only one.
LEMMA AttachesStep ==
  ASSUME Inside, NEW c, Attaches(c), loaded' = loaded \cup {c}, marked' = TRUE,
         CopiesAreNew', own' # "past" => own # "past",
         \/ c = Own /\ wnd = OfGame
         \/ c = copies /\ loaded \subseteq {Own}
  PROVE  Inside'
<1>1. UNCHANGED <<stage, wnd, regions>> /\ OfGame \notin loaded' /\ c \in loaded'
  BY GameHooksAssumption DEF Attaches, CopiesAreNew
<1>2. wnd = c => c = Own /\ wnd = OfGame
  BY HotReloadAssumption, GameHooksAssumption DEF Inside, CopiesAreNew
<1>3. wnd \in loaded' => wnd = Own /\ Own \in loaded /\ c # Own
  BY <1>1, <1>2 DEF Inside, CopiesAreNew
<1>4. SideOf(c) \in {"own", "copy"}
  BY DEF SideOf
<1>5. CASE marked /\ Reattach(c)
  <2> USE <1>1, <1>4, <1>5 DEF Reattach, InitPrehooks, InitHooks, D3dHook, regions
  <2>1. GTypes' /\ LoadedHasMarked' /\ NothingBeforeMark'
    BY DEF Inside, GTypes, LoadedHasMarked, NothingBeforeMark
  <2>2. DeviceIsRegion' /\ ContextWithDevice' /\ BeforeWindow'
    BY DEF Inside, GTypes, DeviceIsRegion, ContextWithDevice, BeforeWindow
  <2>3. RestoredIsThere'
    BY DEF Inside, RestoredIsThere, HooksEnterLoaded, Call
  <2>4. queue'[SideOf(tick')] = TRUE
    BY DEF Inside, GTypes
  <2>5. HooksEnterLoaded' /\ TickHasQueue'
    BY <2>4 DEF HooksEnterLoaded, TickHasQueue, Call
  <2>6. GameHandlerKept'
    BY <1>3 DEF Inside, GTypes, CopiesAreNew, GameHandlerKept, SideOf
  <2> QED  BY <2>1, <2>2, <2>3, <2>5, <2>6 DEF Inside
<1>6. CASE ~marked /\ FirstAttach(c)
  <2> USE <1>1, <1>6 DEF FirstAttach, FreshStatics, NoStatics, regions
  <2>1. /\ frame = OfGame /\ report = OfGame /\ wnd = OfGame /\ patched = OfGame
        /\ under = OfGame /\ ~regdev /\ ~pinned
    BY DEF Inside, NothingBeforeMark
  <2>2. GTypes' /\ LoadedHasMarked' /\ NothingBeforeMark' /\ RestoredIsThere'
    BY <2>1 DEF Inside, GTypes, LoadedHasMarked, NothingBeforeMark, RestoredIsThere
  <2>3. DeviceIsRegion' /\ ContextWithDevice' /\ BeforeWindow' /\ TickHasQueue'
    BY <2>1 DEF Inside, DeviceIsRegion, ContextWithDevice, BeforeWindow, TickHasQueue
  <2>4. HooksEnterLoaded' /\ GameHandlerKept'
    BY <2>1 DEF Inside, HooksEnterLoaded, GameHandlerKept, Call
  <2> QED  BY <2>2, <2>3, <2>4 DEF Inside
<1> QED  BY <1>5, <1>6 DEF Attaches

\* The daemon's copy is the only one of its making.
LEMMA AttachStep ==
  ASSUME GIInv, Attach PROVE Inside'
<1>1. /\ loaded \subseteq {Own} /\ loaded' = loaded \cup {copies} /\ marked' = TRUE
      /\ copies' = copies + 1 /\ dll' = copies /\ own' = own
  BY DEF GIInv, IInv, LoadsIntoNothing, Attach, Attaches, Load
<1>2. wnd' = wnd
  BY DEF Attach, Attaches
<1>3. CopiesAreNew'
  BY <1>1, <1>2 DEF GIInv, Inside, CopiesAreNew
<1> QED  BY <1>1, <1>3, AttachesStep DEF GIInv, Attach

\* The game's own copy is loaded before the window is there, or is not loaded: then it
\* may leave its crash callback behind.
LEMMA OwnAttachStep ==
  ASSUME GIInv, OwnAttach PROVE Inside'
<1> USE DEF GIInv, Inside
<1>1. UNCHANGED <<copies, dll>> /\ own = "calling" /\ own' = "past" /\ stage = "start"
      /\ wnd = OfGame /\ wnd' = wnd /\ stage' = stage
  BY DEF OwnAttach, OwnLoad, Attaches, AttachingFails, BeforeWindow
<1>2. CASE Attaches(Own)
  <2>1. loaded' = loaded \cup {Own} /\ marked' = TRUE
    BY <1>2 DEF OwnAttach, OwnLoad, Attaches
  <2>2. CopiesAreNew'
    BY <1>1, <2>1 DEF CopiesAreNew
  <2> QED  BY <1>1, <1>2, <2>1, <2>2, AttachesStep
<1>3. CASE AttachingFails(Own)
  <2>1. loaded' = loaded /\ marked' \in {marked, TRUE}
    BY <1>3 DEF OwnAttach, OwnLoad, AttachingFails
  <2>2. marked' # marked => FALSE
    <3> SUFFICES ASSUME marked' # marked PROVE FALSE
      OBVIOUS
    <3>1. Own \in loaded
      BY <2>1 DEF OwnAttach, OwnLoad
    <3> QED  BY <2>1, <3>1 DEF LoadedHasMarked
  <2>3. report' = report \/ (marked /\ report' = Own)
    BY <1>3 DEF AttachingFails, InitPrehooks
  <2> QED
    BY <1>1, <1>3, <2>1, <2>2, <2>3 DEF AttachingFails, statics, regions, GTypes, CopiesAreNew,
       LoadedHasMarked, NothingBeforeMark, RestoredIsThere, DeviceIsRegion, BeforeWindow,
       TickHasQueue, ContextWithDevice, HooksEnterLoaded, GameHandlerKept, Call
<1> QED  BY <1>2, <1>3 DEF OwnAttach

\* A LoadLibrary that fails may leave the crash handler's callback behind, no more.
LEMMA AttachFailsStep ==
  ASSUME GIInv, AttachFails PROVE Inside'
<1> USE DEF GIInv, Inside
<1>1. loaded' = loaded /\ copies' = copies + 1 /\ copies \notin loaded
  BY HotReloadAssumption DEF AttachFails, AttachingFails, Load, CopiesAreNew
<1>2. dll' = NoDll /\ marked' = marked /\ own' = own
  BY <1>1 DEF AttachFails, Load
<1>3. CopiesAreNew' /\ dll' \notin loaded'
  BY <1>1, <1>2, NoneIsLoaded DEF CopiesAreNew, AttachFails, AttachingFails
<1>4. NothingBeforeMark'
  BY <1>2 DEF NothingBeforeMark, AttachFails, AttachingFails, regions
<1> QED
  BY <1>1, <1>2, <1>3, <1>4 DEF AttachFails, AttachingFails, statics, regions, GTypes,
     LoadedHasMarked, RestoredIsThere, DeviceIsRegion, BeforeWindow, TickHasQueue,
     ContextWithDevice, HooksEnterLoaded, GameHandlerKept, Call

\* What patch_mem redirected leads to the game again, or to the game's own copy.
LEMMA DetachStep ==
  ASSUME GIInv, Detach PROVE Inside'
<1> USE DEF GIInv, Inside
<1>1. /\ loaded' = loaded \ {dll} /\ dll \notin loaded' /\ dll # Own
      /\ UNCHANGED <<copies, dll, marked, own>>
  BY HotReloadAssumption DEF Detach, Unload, UnloadFails, CopiesAreNew, selfload
<1>2. loaded' \subseteq {Own}
  BY <1>1 DEF IInv, LoadedIsKnown
<1>3. RestoredIsThere' /\ patched' = under /\ Call(patched)'
  BY <1>1 DEF Detach, RestoredIsThere, Call
<1>4. CASE UNCHANGED regions
  BY <1>1, <1>3, <1>4 DEF Detach, regions, statics, GTypes, CopiesAreNew, LoadedHasMarked,
     NothingBeforeMark, DeviceIsRegion, BeforeWindow, TickHasQueue, ContextWithDevice,
     HooksEnterLoaded, GameHandlerKept, Call
<1>5. CASE FreshRegions /\ Own \notin loaded
  <2>1. loaded' = {}
    BY <1>1, <1>2, <1>5
  <2> QED
    BY <1>1, <1>3, <1>5, <2>1 DEF Detach, FreshRegions, statics, GTypes, CopiesAreNew,
       LoadedHasMarked, NothingBeforeMark, DeviceIsRegion, BeforeWindow, TickHasQueue,
       ContextWithDevice, HooksEnterLoaded, GameHandlerKept, Call
<1> QED  BY <1>4, <1>5 DEF Detach

\* FreeLibrary has not come to its end.
LEMMA DetachFailsStep ==
  ASSUME GIInv, DetachFails PROVE Inside'
<1> USE DEF GIInv, Inside
<1>1. UNCHANGED <<loaded, copies, dll, marked, own>> /\ patched' \in {patched, under}
  BY DEF DetachFails, Unload, UnloadFails, selfload
<1>2. Call(patched)' /\ (~marked => patched' = OfGame)
  BY <1>1 DEF DetachFails, HooksEnterLoaded, Call, RestoredIsThere, NothingBeforeMark
<1> QED
  BY <1>1, <1>2 DEF DetachFails, statics, regions, GTypes, CopiesAreNew, LoadedHasMarked,
     NothingBeforeMark, RestoredIsThere, DeviceIsRegion, BeforeWindow, TickHasQueue,
     ContextWithDevice, HooksEnterLoaded, GameHandlerKept, Call

\* A process that is gone, or has not run yet.
LEMMA FreshInside ==
  ASSUME FreshProcess, marked' \in BOOLEAN, copies' \in Nat, loaded' \subseteq 0 .. (copies' - 1),
         dll' \in {NoDll} \cup 0 .. (copies' - 1), marked' <=> loaded' # {},
         marked' => tick' \in loaded' /\ early' = tick'
  PROVE  Inside'
<1>1. OfGame \notin loaded'
  <2>1. \A n \in 0 .. (copies' - 1) : n \in Nat
    OBVIOUS
  <2> QED  BY <2>1, GameHooksAssumption
<1> USE DEF FreshProcess, FreshStatics, NoStatics, FreshRegions
<1>2. GTypes' /\ NothingBeforeMark' /\ ContextWithDevice' /\ RestoredIsThere'
  BY DEF GTypes, NothingBeforeMark, ContextWithDevice, RestoredIsThere
<1>3. LoadedHasMarked' /\ DeviceIsRegion' /\ CopiesAreNew' /\ BeforeWindow' /\ TickHasQueue'
  BY <1>1 DEF LoadedHasMarked, DeviceIsRegion, CopiesAreNew, BeforeWindow, TickHasQueue
<1>4. HooksEnterLoaded' /\ GameHandlerKept'
  BY <1>1 DEF HooksEnterLoaded, GameHandlerKept, Call
<1> QED  BY <1>2, <1>3, <1>4 DEF Inside

\* The daemon starts the game, with or without a copy.
LEMMA StartStep ==
  ASSUME GIInv, Start PROVE Inside'
<1> USE DEF GIInv, Inside, CopiesAreNew
<1>1. CASE StartFails
  <2>1. UNCHANGED <<loaded, copies, dll, marked, own>>
    BY <1>1 DEF StartFails, selfload
  <2> QED  BY <2>1, StillInside DEF Start
<1>2. CASE \E p, i \in BOOLEAN, d \in {NoDebugger, "gdb"} : StartGame(p, i, d)
  <2>1. /\ copies' = copies + 1 /\ loaded' \subseteq {copies} /\ dll' \in {NoDll, copies}
        /\ marked' \in BOOLEAN /\ (marked' <=> loaded' # {}) /\ (marked' => dll' = copies)
    BY <1>2 DEF StartGame
  <2>2. FreshProcess /\ (marked' => tick' \in loaded' /\ early' = tick')
    <3>1. copies' # copies
      BY <2>1
    <3>2. CASE loaded' = {}
      BY <2>1, <3>1, <3>2 DEF Start
    <3>3. CASE loaded' # {}
      BY <2>1, <3>1, <3>3 DEF Start
    <3> QED  BY <3>2, <3>3
  <2>3. /\ copies' \in Nat /\ loaded' \subseteq 0 .. (copies' - 1)
        /\ dll' \in {NoDll} \cup 0 .. (copies' - 1)
    BY <2>1
  <2> QED  BY <2>1, <2>2, <2>3, FreshInside
<1> QED  BY <1>1, <1>2 DEF Start, HookStarts, DebugStarts

\* The game, its debugger and the beginning of a hook leave calls and copies alone unless
\* the process ends.
LEMMA OthersStep ==
  ASSUME GIInv, Others PROVE Inside'
<1>1. CASE Exit
  <2>1. /\ loaded' = {} /\ copies' = copies /\ dll' = dll /\ marked' = FALSE
        /\ alive /\ ~alive'
    BY <1>1 DEF Exit
  <2>2. FreshProcess
    BY <2>1 DEF Others
  <2> QED  BY <2>1, <2>2, FreshInside DEF GIInv, Inside, CopiesAreNew
<1>2. CASE ~Exit
  <2>1. UNCHANGED <<alive, loaded, copies, dll, marked>> /\ (own' = own \/ own = "ahead")
    BY <1>2 DEF Others, HookReloads, Game, OwnLoadBegins, Spawn, TakeLock, ReleaseLock, Break,
                DebugRunning, Interrupt, Continue, DebuggerKilled, selfload
  <2>2. UNCHANGED inside
    BY <2>1 DEF Others
  <2> QED  BY <2>1, <2>2, StillInside DEF GIInv
<1> QED  BY <1>1, <1>2

\* The configuration is opened: the first copy redirects the calls it had left alone.
LEMMA OpenLocalCfgStep ==
  ASSUME GIInv, OpenLocalCfg PROVE Inside'
<1> USE DEF GIInv, Inside
<1>1. UNCHANGED <<loaded, copies, dll, marked, own>> /\ own = "past" /\ stage' = "configured"
      /\ early' = early
  BY DEF OpenLocalCfg, vars, selfload
<1>2. CASE UNCHANGED <<targets, statics, regions>>
  BY <1>1, <1>2 DEF targets, statics, regions, GTypes, CopiesAreNew, LoadedHasMarked,
     NothingBeforeMark, RestoredIsThere, DeviceIsRegion, BeforeWindow, TickHasQueue,
     ContextWithDevice, HooksEnterLoaded, GameHandlerKept, Call
<1>3. CASE early \in loaded /\ InitPrehooks(early) /\ InitHooks(early) /\ D3dHook(early)
           /\ pinned' = TRUE /\ UNCHANGED <<tick, reinit, wnd, orig, handler, regdev, contexts>>
  <2> USE <1>1, <1>3 DEF InitPrehooks, InitHooks, D3dHook
  <2>1. SideOf(early) \in {"own", "copy"} /\ SideOf(tick) \in {"own", "copy"}
    BY DEF SideOf
  <2>2. marked
    BY DEF LoadedHasMarked
  <2>3. /\ queue'[SideOf(early)] = TRUE
        /\ queue'[SideOf(tick)] = (queue[SideOf(tick)] \/ SideOf(tick) = SideOf(early))
        /\ device'[SideOf(early)] = regdev
    BY <2>1 DEF GTypes
  <2>4. RestoredIsThere'
    <3>1. patched \in loaded \cup {OfGame} /\ loaded \subseteq {dll, Own}
      BY DEF HooksEnterLoaded, Call, IInv, LoadedIsKnown
    <3>2. CASE early \in {Own, patched}
      BY <3>2 DEF RestoredIsThere
    <3>3. CASE early \notin {Own, patched}
      BY <3>1, <3>3 DEF RestoredIsThere
    <3> QED  BY <3>2, <3>3
  <2>5. GTypes' /\ CopiesAreNew' /\ LoadedHasMarked' /\ NothingBeforeMark' /\ BeforeWindow'
    BY <2>1, <2>2 DEF GTypes, CopiesAreNew, LoadedHasMarked, NothingBeforeMark, BeforeWindow
  <2>6. TickHasQueue' /\ DeviceIsRegion' /\ ContextWithDevice' /\ GameHandlerKept'
    BY <2>1, <2>3 DEF TickHasQueue, DeviceIsRegion, ContextWithDevice, GameHandlerKept
  <2>7. HooksEnterLoaded'
    BY <2>2, <2>3 DEF HooksEnterLoaded, Call, TickHasQueue
  <2> QED  BY <2>4, <2>5, <2>6, <2>7
<1> QED  BY <1>2, <1>3 DEF OpenLocalCfg

\* The window is created, with the procedure of the copy that redirected the call.
LEMMA CreateWindowStep ==
  ASSUME GIInv, CreateWindow PROVE Inside'
<1> USE DEF GIInv, Inside
<1>1. /\ UNCHANGED <<loaded, copies, dll, marked, own>> /\ own = "past" /\ stage' = "window"
      /\ UNCHANGED <<early, tick, reinit, frame, patched, under, report, queue, device, regdev,
                     contexts, pinned>>
  BY DEF CreateWindow, vars, selfload, BeforeWindow
<1>2. CASE patched \in loaded /\ wnd' = patched /\ handler' = OfGame
           /\ orig' = [orig EXCEPT ![SideOf(patched)] = OfGame]
  <2>1. SideOf(patched) \in {"own", "copy"}
    BY DEF SideOf
  <2>2. marked
    BY <1>2 DEF LoadedHasMarked
  <2> QED
    BY <1>1, <1>2, <2>1, <2>2 DEF GTypes, CopiesAreNew, LoadedHasMarked, NothingBeforeMark,
       RestoredIsThere, DeviceIsRegion, BeforeWindow, TickHasQueue, ContextWithDevice,
       HooksEnterLoaded, GameHandlerKept, Call
<1>3. CASE UNCHANGED <<wnd, orig, handler>>
  BY <1>1, <1>3 DEF GTypes, CopiesAreNew, LoadedHasMarked, NothingBeforeMark, RestoredIsThere,
     DeviceIsRegion, BeforeWindow, TickHasQueue, ContextWithDevice, HooksEnterLoaded,
     GameHandlerKept, Call
<1> QED  BY <1>2, <1>3 DEF CreateWindow

\* The first tick of a copy.
LEMMA TickInitStep ==
  ASSUME GIInv, TickInit PROVE Inside'
<1> USE DEF GIInv, Inside
<1>1. /\ UNCHANGED <<loaded, copies, dll, marked, own>> /\ stage = "window" /\ tick \in loaded
      /\ UNCHANGED <<stage, early, tick, frame, patched, under, report, queue, device, regdev,
                     contexts, pinned, handler>>
      /\ wnd' = tick /\ reinit' = FALSE /\ orig' = [orig EXCEPT ![SideOf(tick)] = handler]
      /\ handler # NoDll
  BY DEF TickInit, WindowReinit, vars, selfload
<1>2. SideOf(tick) \in {"own", "copy"} /\ handler = OfGame /\ marked
  BY <1>1 DEF SideOf, GameHandlerKept, LoadedHasMarked
<1> QED
  BY <1>1, <1>2 DEF GTypes, CopiesAreNew, LoadedHasMarked, NothingBeforeMark, RestoredIsThere,
     DeviceIsRegion, BeforeWindow, TickHasQueue, ContextWithDevice, HooksEnterLoaded,
     GameHandlerKept, Call

\* The first frame of a copy that has no device.
LEMMA FirstFrameStep ==
  ASSUME GIInv, FirstFrame PROVE Inside'
<1> USE DEF GIInv, Inside
<1>1. /\ UNCHANGED <<loaded, copies, dll, marked, own>>
      /\ UNCHANGED <<stage, targets, queue, orig, handler, pinned>>
      /\ frame \in loaded /\ ~device[SideOf(frame)] /\ regdev' = TRUE
      /\ contexts' = contexts + 1 /\ device' = [device EXCEPT ![SideOf(frame)] = TRUE]
  BY DEF FirstFrame, vars, selfload
<1>2. SideOf(frame) \in {"own", "copy"} /\ marked /\ ~regdev
  BY <1>1 DEF SideOf, LoadedHasMarked, DeviceIsRegion, GTypes
<1>3. GTypes'
  BY <1>1, <1>2 DEF GTypes, targets
<1>4. device'[SideOf(frame)] = TRUE /\ frame' = frame
  BY <1>1, <1>2 DEF GTypes, targets
<1>5. ContextWithDevice'
  BY <1>1, <1>2 DEF ContextWithDevice
<1>6. DeviceIsRegion'
  BY <1>1, <1>4 DEF DeviceIsRegion
<1> QED
  BY <1>1, <1>2, <1>3, <1>5, <1>6 DEF targets, CopiesAreNew, LoadedHasMarked, NothingBeforeMark,
     RestoredIsThere, BeforeWindow, TickHasQueue, HooksEnterLoaded, GameHandlerKept, Call

\* Every step of the daemon and the game keeps the invariant.
LEMMA GNextInside == GIInv /\ [GNext]_gvars => Inside'
<1> SUFFICES ASSUME GIInv, [GNext]_gvars PROVE Inside'
  OBVIOUS
<1>1. CASE GHookStep
  <2>1. CASE (Suspend \/ Resume) /\ UNCHANGED inside
    BY <2>1, StillInside DEF GIInv, Suspend, Resume, selfload
  <2> QED  BY <1>1, <2>1, AttachStep, AttachFailsStep, DetachStep, DetachFailsStep DEF GHookStep
<1>2. CASE GameRuns
  BY <1>2, OpenLocalCfgStep, CreateWindowStep, TickInitStep, FirstFrameStep DEF GameRuns
<1>3. CASE UNCHANGED gvars
  BY <1>3, StillInside DEF GIInv, gvars, vars, selfload
<1> QED  BY <1>1, <1>2, <1>3, OwnAttachStep, StartStep, OthersStep DEF GNext

\* Seen from the daemon, the game with its redirected calls behaves as in HotReload.
THEOREM HooksImplementReload == GSpec => Spec
<1>1. GInit => Init
  BY DEF GInit
<1> QED  BY <1>1, GNextIsNext, PTL DEF GSpec, Spec

\* What the steps of a reload rely on inside the game.
THEOREM HooksInvariant == GSpec => []GIInv
<1>1. GInit => GIInv
  BY GInitInside, InitIInv DEF GInit, GIInv
<1>2. GIInv /\ [GNext]_gvars => GIInv'
  BY GNextInside, GNextIsNext, NextIInv DEF GIInv
<1> QED  BY <1>1, <1>2, PTL DEF GSpec

\* Redirected calls enter the loaded copy, after any number of reloads and failures.
THEOREM CallsEnterLoaded == GSpec => []HooksEnterLoaded
<1>1. GIInv => HooksEnterLoaded
  BY DEF GIInv, Inside
<1> QED  BY <1>1, HooksInvariant, PTL

\* The window's messages reach the game's own procedure past one copy at most.
THEOREM MessagesReachGame == GSpec => []GameHandlerKept
<1>1. GIInv => GameHandlerKept
  BY DEF GIInv, Inside
<1> QED  BY <1>1, HooksInvariant, PTL

\* One context is made, and every copy that draws has it.
THEOREM OneContext == GSpec => []ContextOnce
<1>1. GIInv => ContextOnce
  BY DEF GIInv, Inside, ContextOnce, ContextWithDevice, DeviceIsRegion, GTypes
<1> QED  BY <1>1, HooksInvariant, PTL
=============================================================================
