------------------------------- MODULE Daemon -------------------------------
(***************************************************************************)
(* The daemon: one thread that waits in select() for the sockets of a      *)
(* fixed table and calls the handler of each that has something to read,   *)
(* slot by slot.  A client's connection is closed after its first message. *)
(* A debugging session adds a server socket, a connection for gdb's input, *)
(* and a thread that forwards gdb's output through a socket of the daemon  *)
(* itself.  The daemon takes the first two slots to be its own servers.    *)
(* What the handlers do to the game is in HotReload; here a hook and the   *)
(* start of a session end at some time, well or not.                       *)
(***************************************************************************)
EXTENDS Naturals, FiniteSetsExt, SequencesExt

CONSTANTS
  MaxSockets,   \* slots of the table, 16 in the build
  MasterFd, IpcFd, NoFd,    \* the two servers' sockets, and -1
  ClientFd,     \* other socket numbers, which are used again once closed
  MaxSessions   \* bound on the debugger's connections

Fd == {MasterFd, IpcFd} \cup ClientFd

ASSUME DaemonAssumption ==
  MaxSockets \in Nat /\ MaxSockets > 1 /\ MaxSessions \in Nat /\ NoFd \notin Fd

Slots    == 0 .. MaxSockets - 1
Sessions == 1 .. MaxSessions
Unused   == [fd |-> NoFd, fn |-> "none"]

VARIABLES
  table,     \* g_conn_sockfds
  lost,      \* open sockets that found no slot
  running,   \* main() has not returned
  at,        \* the slot the loop has come to; MaxSockets: select()
  ready,     \* readfds, after select()
  fresh,     \* history: sockets opened since
  waiting,   \* history: clients whose message select() has reported, not yet served
  busy,      \* "no", or the handler that has not returned: "hook" or "ipc"
  waitFd,    \* the connection that handle_ipc_sockfd reads
  sessions,  \* debugger sessions so far
  gdb,       \* g_debug: the session whose process and thread it names, or 0
  thr,       \* gdb_output_thr_fn, of each session
  ipcq       \* sessions whose thread has connected to the ipc server

loopVars    == <<running, at, ready, fresh, waiting, busy, waitFd>>
socketVars  == <<table, lost>>
sessionVars == <<sessions, gdb, thr, ipcq>>
daemonVars == <<loopVars, socketVars, sessionVars>>

Open     == ({table[i].fd : i \in Slots} \cup lost \cup {waitFd}) \ {NoFd}
New      == Fd \ Open      \* the numbers accept() and socket() may give
Entry    == table[at]
HasFn(fn) == {table[i].fd : i \in {j \in Slots : table[j].fn = fn}}
\* Clients may send, or end the connection, at any time.
Readable == (Open \ lost) \ {f \in HasFn("ipc") : ipcq = <<>>}

\* Whether the ipc server's port is free is up to the machine, and not looked at.
DaemonInit ==
  /\ \E ipc \in {Unused, [fd |-> IpcFd, fn |-> "ipc"]} :
       table = [i \in Slots |-> IF i = 0 THEN [fd |-> MasterFd, fn |-> "master"]
                                ELSE IF i = 1 THEN ipc ELSE Unused]
  /\ lost = {}
  /\ running = TRUE /\ at = MaxSockets /\ ready = {} /\ fresh = {} /\ waiting = {} /\ busy = "no" /\ waitFd = NoFd
  /\ sessions = 0 /\ gdb = 0 /\ thr = [s \in Sessions |-> "none"] /\ ipcq = <<>>
-----------------------------------------------------------------------------
(* The table *)

FreeSlots == {i \in Slots : table[i] = Unused}

\* Seeded fault: the last free slot.
Listen_last(f, fn) ==
  IF FreeSlots = {} \/ f = NoFd THEN table ELSE [table EXCEPT ![Max(FreeSlots)] = [fd |-> f, fn |-> fn]]

\* listen_sockfd: the first free slot, if there is one.
Listen(f, fn) ==
  IF FreeSlots = {} \/ f = NoFd THEN table ELSE [table EXCEPT ![Min(FreeSlots)] = [fd |-> f, fn |-> fn]]

\* Seeded fault: one handler per select().
NextReady_one(t, r, i) ==
  IF i > 0 THEN MaxSockets ELSE Min({j \in Slots : t[j].fd \in r} \cup {MaxSockets})

\* The next slot whose number select() has reported.
NextReady(t, r, i) == Min({j \in Slots : j >= i /\ t[j].fd \in r} \cup {MaxSockets})

\* A handler has opened the socket f, or NoFd, and returned: whether listen_sockfd
\* had a slot was not looked at.  In the first two slots an end is taken for that of
\* the daemon's own sockets.
Return(f, fn, closes) ==
  /\ table' = IF closes THEN [Listen(f, fn) EXCEPT ![at] = Unused] ELSE Listen(f, fn)
  /\ lost' = IF FreeSlots = {} /\ f # NoFd THEN lost \cup {f} ELSE lost
  /\ at' = NextReady(table', ready, at + 1) /\ busy' = "no"
  /\ fresh' = IF at' = MaxSockets THEN {} ELSE fresh \cup ({f} \ {NoFd})
  /\ running' = ~(closes /\ at \in {0, 1})
  /\ ready' = IF at' = MaxSockets THEN {} ELSE ready
  /\ waiting' = waiting \ {Entry.fd}

Stays(f, fn)  == Return(f, fn, FALSE)
Closes(f, fn) == Return(f, fn, TRUE)
-----------------------------------------------------------------------------
(* main(): the loop *)

Select ==
  /\ running /\ at = MaxSockets
  /\ ready' \in SUBSET Readable \ {{}}
  /\ waiting' = ready' \cap HasFn("conn")
  /\ at' = NextReady(table, ready', 0)
  /\ UNCHANGED <<running, fresh, busy, waitFd, socketVars, sessionVars>>

Serves(fn) == running /\ at < MaxSockets /\ busy = "no" /\ Entry.fn = fn

\* handle_master_sockfd
ServeMaster ==
  /\ Serves("master")
  /\ \E f \in New : Stays(f, "conn")
  /\ UNCHANGED <<waitFd, sessionVars>>

\* handle_conn_sockfd: after a shell command, an end of the connection or a bad
\* message nothing is left but to close the connection.
ServeOther ==
  /\ Serves("conn")
  /\ Closes(NoFd, "none")
  /\ UNCHANGED <<waitFd, sessionVars>>

\* start_debug, unless init_sock fails.
ServeStartDebug ==
  /\ Serves("conn")
  /\ \E f \in New : Closes(f, "server")
  /\ UNCHANGED <<waitFd, sessionVars>>

ServeHook ==
  /\ Serves("conn")
  /\ busy' = "hook"
  /\ UNCHANGED <<running, at, ready, fresh, waiting, waitFd, socketVars, sessionVars>>

HookDone ==
  /\ busy = "hook"
  /\ Closes(NoFd, "none")
  /\ UNCHANGED <<waitFd, sessionVars>>
-----------------------------------------------------------------------------
(* Debugger sessions *)

\* terminate_gdb, with the output thread wherever it is.
KilledThr == IF gdb = 0 THEN thr
             ELSE [thr EXCEPT ![gdb] = IF @ = "connected" THEN "mute" ELSE "killed"]
TerminateGdb == gdb' = 0 /\ thr' = KilledThr

\* handle_gdb_conn.  A session overwrites what g_debug knew of another.
ServeGdbConn ==
  /\ Serves("server") /\ sessions < MaxSessions
  /\ sessions' = sessions + 1
  /\ gdb' = sessions'
  /\ thr' = [thr EXCEPT ![sessions'] = "created"]
  /\ \E f \in New : Stays(f, "input")
  /\ UNCHANGED <<waitFd, ipcq>>

\* The same when the pipes, the game, the DLL, gdb or the thread cannot be had: the
\* server socket is closed and the connection stays.
ServeGdbConnFails ==
  /\ Serves("server")
  /\ TerminateGdb
  /\ \E f \in New : Closes(f, "input")
  /\ UNCHANGED <<waitFd, sessions, ipcq>>

\* handle_gdb_input: a command is written to the gdb that g_debug names.
ServeInput ==
  /\ Serves("input") /\ gdb # 0
  /\ Stays(NoFd, "none")
  /\ UNCHANGED <<waitFd, sessionVars>>

\* The connection, or gdb's end of the pipe, is closed.
ServeInputEnds ==
  /\ Serves("input")
  /\ TerminateGdb
  /\ Closes(NoFd, "none")
  /\ UNCHANGED <<waitFd, sessions, ipcq>>

\* handle_gdb_output: forwarded as it is.  Nothing ever closes the other end.
ServeOutput ==
  /\ Serves("output") /\ Stays(NoFd, "none")
  /\ UNCHANGED <<waitFd, sessionVars>>

\* handle_ipc_sockfd accepts, and waits for the first message.
ServeIpc ==
  /\ Serves("ipc")
  /\ \E f \in New : waitFd' = f /\ busy' = "ipc"
  /\ UNCHANGED <<running, at, ready, fresh, waiting, socketVars, sessionVars>>

IpcInit ==
  /\ busy = "ipc" /\ thr[Head(ipcq)] \notin {"connected", "mute"}
  /\ ipcq' = Tail(ipcq)
  /\ Stays(waitFd, "output")
  /\ waitFd' = NoFd
  /\ UNCHANGED <<sessions, gdb, thr>>

\* accept() fails when there are no socket numbers left.
AcceptFails ==
  /\ \E fn \in {"master", "server", "ipc"} : Serves(fn)
  /\ New = {}
  /\ Stays(NoFd, "none")
  /\ ipcq' \in IF Entry.fn = "ipc" THEN {ipcq, Tail(ipcq)} ELSE {ipcq}
  /\ UNCHANGED <<waitFd, sessions, gdb, thr>>

\* gdb_output_thr_fn; start_ipc's error 1 is taken for a socket.
ThreadConnect(s) ==
  /\ thr[s] = "created"
  /\ IF HasFn("ipc") # {} THEN thr' = [thr EXCEPT ![s] = "connected"] /\ ipcq' = Append(ipcq, s)
     ELSE thr' = [thr EXCEPT ![s] = "sent"] /\ UNCHANGED ipcq
  /\ UNCHANGED <<loopVars, socketVars, sessions, gdb>>

ThreadSend(s) ==
  /\ thr[s] = "connected" /\ thr' = [thr EXCEPT ![s] = "sent"]
  /\ UNCHANGED <<loopVars, socketVars, sessions, gdb, ipcq>>
-----------------------------------------------------------------------------
(* All together *)

MainLoop ==
  \/ Select \/ ServeMaster \/ ServeOther \/ ServeStartDebug
  \/ ServeHook \/ HookDone \/ ServeGdbConn \/ ServeGdbConnFails
  \/ ServeInput \/ ServeInputEnds \/ ServeOutput \/ ServeIpc \/ IpcInit \/ AcceptFails

Threads == \E s \in Sessions : ThreadConnect(s) \/ ThreadSend(s)

DaemonNext == MainLoop \/ Threads

DaemonSpec == DaemonInit /\ [][DaemonNext]_daemonVars
-----------------------------------------------------------------------------
(* Properties *)

\* A handler is called on no socket but one that has something to read, though numbers
\* are used again while the round goes on: the first socket opened in a round gets no
\* slot the round has still to visit under the number of one closed before.  The second
\* one may, when the first has taken the slot of the closed one but not its number.
ServedIsReady == running /\ at < MaxSockets => fresh # {Entry.fd}

\* Every command that select() has reported is carried out, and its connection closed,
\* before the next select(), whatever the handlers before it have done to the table.
ServedInRound == running /\ at = MaxSockets => waiting = {}
=============================================================================
