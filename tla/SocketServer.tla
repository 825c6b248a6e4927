----------------------------- MODULE SocketServer -----------------------------
(***************************************************************************)
(* The C++ class SocketServer (embedded_app/socket_server.cpp): the listen *)
(* thread, one detached handler thread per accepted connection, the        *)
(* threads that broadcast log lines through it, and stop().                *)
(*                                                                         *)
(* What makes it hard is the descriptor table of the process: a descriptor *)
(* closed by one thread is the first one accept() hands out again, while   *)
(* the handler of the old connection still holds its number.  The table is *)
(* therefore part of the state.  A thread blocked in recv() or accept()    *)
(* keeps the socket it entered with, whatever happens to the number.       *)
(*                                                                         *)
(* Command lines have no content: a line is answered directly (status) or  *)
(* after the log line it causes was broadcast (reboot, inject_failure).    *)
(*                                                                         *)
(* Every thread also prints to std::cout.  A print blocks while the pipe   *)
(* behind stdout is full, and log_write prints with log_mutex_ held; who   *)
(* reads the pipe, if anybody does, is not the server's affair             *)
(* (tests/conftest.py:121 opens it and does not read it).                  *)
(***************************************************************************)
EXTENDS Integers, Sequences, FiniteSets, SequencesExt, FiniteSetsExt

CONSTANTS
  Conns,       \* connections the peers make
  MaxFd,       \* size of the descriptor table left for connections
  MaxLines,    \* bound: command lines sent per connection
  MaxLogs,     \* bound: log lines of the telemetry and boot threads
  MaxStalls,   \* bound: times a peer stops reading
  PipeCap,     \* bound: lines that the pipe behind stdout holds
  CloseWakes,  \* closing a listening socket wakes accept() (Winsock, not Linux)
  NoConn       \* a free descriptor

Device == "device"  \* the simulator threads that log on their own account
Nobody == "nobody"

ASSUME ConnAssumption  == Conns \cap {NoConn, Device, Nobody} = {} /\ IsFiniteSet(Conns)
ASSUME BoundAssumption == MaxFd \in Nat /\ MaxLines \in Nat /\ MaxLogs \in Nat /\ MaxStalls \in Nat
ASSUME PipeAssumption  == PipeCap \in Nat \ {0}
ASSUME CloseAssumption == CloseWakes \in BOOLEAN

Fds     == 1..MaxFd
Threads == Conns \cup {Device}

VARIABLES
  running,     \* running_
  listening,   \* server_fd_ is valid
  clients,     \* client_sockets_
  lock,        \* who holds clients_mutex_
  fdConn,      \* the descriptor table
  backlog,     \* connections waiting for accept()
  lpc, lconn, lfd,       \* listen thread: control, connection accepted, its fd
  hpc, hfd, entered,     \* handlers: control, client_socket, the socket in recv()
  logger,      \* who is in log_write (holds log_mutex_)
  printed,     \* its line is on stdout
  bpos,        \* how far its broadcast is in client_sockets_
  pipe,        \* lines in the pipe behind stdout
  mpc,         \* main thread, in stop()
  peer,        \* the other ends: "new", "open", "stalled" or "closed"
  unread,      \* lines sent and not yet received
  lines,       \* lines sent
  stalls,      \* times a peer has stopped reading
  answers,     \* answers that arrived at each peer
  logs,        \* log lines broadcast by Device so far
  dropped      \* history: a broadcast has closed a descriptor

listenVars  == <<lpc, lconn, lfd>>
handlerVars == <<hpc, hfd, entered>>
castVars    == <<logger, printed, bpos, logs, dropped>>
peerVars    == <<peer, lines, stalls>>
wireVars    == <<unread, answers>>
tableVars   == <<clients, fdConn>>
stopVars    == <<running, listening, mpc>>
vars == <<listenVars, handlerVars, castVars, peerVars, wireVars, tableVars, stopVars,
          lock, backlog, pipe>>

\* start() has bound the socket and started the listen thread.
Init ==
  /\ running = TRUE /\ listening = TRUE /\ mpc = "run"
  /\ clients = <<>> /\ lock = Nobody
  /\ fdConn = [f \in Fds |-> NoConn]
  /\ backlog = <<>>
  /\ lpc = "top" /\ lconn = NoConn /\ lfd = 0
  /\ hpc = [c \in Conns |-> "none"]
  /\ hfd = [c \in Conns |-> 0]
  /\ entered = [c \in Conns |-> NoConn]
  /\ logger = Nobody /\ printed = FALSE /\ bpos = 0 /\ logs = 0 /\ dropped = FALSE
  /\ pipe = 0
  /\ peer = [c \in Conns |-> "new"]
  /\ unread = [c \in Conns |-> 0]
  /\ lines = [c \in Conns |-> 0] /\ stalls = 0
  /\ answers = [c \in Conns |-> 0]

Connected(c) == peer[c] \in {"open", "stalled"}
FreeFds == {f \in Fds : fdConn[f] = NoConn}

\* std::cout << ... << std::endl: it waits for room in the pipe.
Prints == pipe < PipeCap /\ pipe' = pipe + 1

-----------------------------------------------------------------------------
(* The peers.  A connection enters the backlog while the listening socket  *)
(* exists, which a blocked accept() keeps alive.                           *)

Connect(c) ==
  /\ peer[c] = "new"
  /\ listening \/ lpc = "blocked"
  /\ peer' = [peer EXCEPT ![c] = "open"]
  /\ backlog' = Append(backlog, c)
  /\ UNCHANGED <<listenVars, handlerVars, castVars, lines, stalls, wireVars, tableVars,
                 stopVars, lock, pipe>>

SendLine(c) ==
  /\ Connected(c)
  /\ lines[c] < MaxLines
  /\ lines' = [lines EXCEPT ![c] = @ + 1]
  /\ unread' = [unread EXCEPT ![c] = @ + 1]
  /\ UNCHANGED <<listenVars, handlerVars, castVars, peer, stalls, answers, tableVars,
                 stopVars, lock, backlog, pipe>>

\* A peer that stops reading until its buffers are full, and one that reads on.
Stall(c) ==
  /\ peer[c] = "open"
  /\ stalls < MaxStalls
  /\ stalls' = stalls + 1
  /\ peer' = [peer EXCEPT ![c] = "stalled"]
  /\ UNCHANGED <<listenVars, handlerVars, castVars, lines, wireVars, tableVars,
                 stopVars, lock, backlog, pipe>>

Resume(c) ==
  /\ peer[c] = "stalled"
  /\ peer' = [peer EXCEPT ![c] = "open"]
  /\ UNCHANGED <<listenVars, handlerVars, castVars, lines, stalls, wireVars, tableVars,
                 stopVars, lock, backlog, pipe>>

Close(c) ==
  /\ Connected(c)
  /\ peer' = [peer EXCEPT ![c] = "closed"]
  /\ UNCHANGED <<listenVars, handlerVars, castVars, lines, stalls, wireVars, tableVars,
                 stopVars, lock, backlog, pipe>>

Peer(c) == Connect(c) \/ SendLine(c) \/ Stall(c) \/ Resume(c) \/ Close(c)

\* Whoever started the emulator reads a line of its output.
Drain ==
  /\ pipe > 0
  /\ pipe' = pipe - 1
  /\ UNCHANGED <<listenVars, handlerVars, castVars, peerVars, wireVars, tableVars, stopVars,
                 lock, backlog>>

-----------------------------------------------------------------------------
(* listen_loop.                                                            *)

\* The loop test, then accept(), which fails on a descriptor already closed.
ListenTop ==
  /\ lpc = "top"
  /\ lpc' = IF running /\ listening THEN "blocked" ELSE "exited"
  /\ UNCHANGED <<lconn, lfd, handlerVars, castVars, peerVars, wireVars, tableVars,
                 stopVars, lock, backlog, pipe>>

\* accept() returns the lowest free descriptor.
Accept ==
  /\ lpc = "blocked"
  /\ backlog # <<>>
  /\ FreeFds # {}
  /\ lconn' = Head(backlog)
  /\ lfd' = Min(FreeFds)
  /\ backlog' = Tail(backlog)
  /\ fdConn' = [fdConn EXCEPT ![lfd'] = lconn']
  /\ lpc' = "push"
  /\ UNCHANGED <<handlerVars, castVars, peerVars, wireVars, clients, stopVars, lock, pipe>>

\* No descriptor is left, or the closed socket wakes accept(): the loop ends.
AcceptFails ==
  /\ lpc = "blocked"
  /\ \/ backlog # <<>> /\ FreeFds = {}
     \/ ~listening /\ CloseWakes
  /\ lpc' = "exited"
  /\ UNCHANGED <<lconn, lfd, handlerVars, castVars, peerVars, wireVars, tableVars,
                 stopVars, lock, backlog, pipe>>

Push ==
  /\ lpc = "push"
  /\ lock = Nobody
  /\ clients' = Append(clients, lfd)
  /\ lpc' = "spawn"
  /\ UNCHANGED <<lconn, lfd, handlerVars, castVars, peerVars, wireVars, fdConn,
                 stopVars, lock, backlog, pipe>>

\* The connection is announced before its thread starts.
SpawnHandler ==
  /\ lpc = "spawn"
  /\ Prints
  /\ hpc' = [hpc EXCEPT ![lconn] = "top"]
  /\ hfd' = [hfd EXCEPT ![lconn] = lfd]
  /\ lpc' = "top" /\ lconn' = NoConn /\ lfd' = 0
  /\ UNCHANGED <<entered, castVars, peerVars, wireVars, tableVars, stopVars, lock,
                 backlog>>

Listen == ListenTop \/ Accept \/ AcceptFails \/ Push \/ SpawnHandler

-----------------------------------------------------------------------------
(* client_loop, one handler per connection.                                *)

\* The loop test, then recv() on the number: a free one is an error.
EnterRecv(c) ==
  /\ hpc[c] = "top"
  /\ entered' = [entered EXCEPT ![c] = IF running THEN fdConn[hfd[c]] ELSE NoConn]
  /\ hpc' = [hpc EXCEPT ![c] = IF entered'[c] = NoConn THEN "cleanup" ELSE "recv"]
  /\ UNCHANGED <<listenVars, hfd, castVars, peerVars, wireVars, tableVars, stopVars,
                 lock, backlog, pipe>>

\* Mutant: recv() returns a line that was not sent.
LeaveRecvUnchecked(c) ==
  /\ hpc[c] = "recv"
  /\ unread' = [unread EXCEPT ![entered[c]] = @ - 1]
  /\ hpc' = [hpc EXCEPT ![c] = "got"]
  /\ entered' = [entered EXCEPT ![c] = NoConn]
  /\ UNCHANGED <<listenVars, hfd, castVars, peerVars, answers, tableVars, stopVars,
                 lock, backlog, pipe>>

\* Mutant: a line is executed and not erased from the buffer.
LeaveRecvKeeps(c) ==
  /\ hpc[c] = "recv"
  /\ unread[entered[c]] > 0
  /\ hpc' = [hpc EXCEPT ![c] = "got"]
  /\ entered' = [entered EXCEPT ![c] = NoConn]
  /\ UNCHANGED <<listenVars, hfd, castVars, peerVars, wireVars, tableVars, stopVars,
                 lock, backlog, pipe>>

\* recv() returns a line (of several at once, those behind it are left unread), the
\* end of the stream, or, where closing a socket wakes its readers, an error.
LeaveRecv(c) ==
  /\ hpc[c] = "recv"
  /\ \/ /\ unread[entered[c]] > 0
        /\ unread' = [unread EXCEPT ![entered[c]] = @ - 1]
        /\ hpc' = [hpc EXCEPT ![c] = "got"]
     \/ /\ unread[entered[c]] = 0
        /\ peer[entered[c]] = "closed"
        /\ hpc' = [hpc EXCEPT ![c] = "cleanup"]
        /\ UNCHANGED unread
     \/ /\ CloseWakes /\ fdConn[hfd[c]] # entered[c]
        /\ hpc' = [hpc EXCEPT ![c] = "cleanup"]
        /\ UNCHANGED unread
  /\ entered' = [entered EXCEPT ![c] = NoConn]
  /\ UNCHANGED <<listenVars, hfd, castVars, peerVars, answers, tableVars, stopVars,
                 lock, backlog, pipe>>

\* The line is echoed on stdout and executed, which for some commands means to log.
PrintCommand(c) ==
  /\ hpc[c] = "got"
  /\ Prints
  /\ \E next \in {"respond", "log"} : hpc' = [hpc EXCEPT ![c] = next]
  /\ UNCHANGED <<listenVars, hfd, entered, castVars, peerVars, wireVars, tableVars,
                 stopVars, lock, backlog>>

\* send() reaches whatever connection has the number by now, without the lock.
Respond(c) ==
  /\ hpc[c] = "respond"
  /\ LET d == fdConn[hfd[c]]
     IN  IF d = NoConn \/ (d # NoConn /\ peer[d] = "closed")
         THEN UNCHANGED answers
         ELSE /\ peer[d] # "stalled"
              /\ answers' = [answers EXCEPT ![d] = @ + 1]
  /\ hpc' = [hpc EXCEPT ![c] = "top"]
  /\ UNCHANGED <<listenVars, hfd, entered, castVars, peerVars, unread, tableVars,
                 stopVars, lock, backlog, pipe>>

\* The number listed at place i is free again and no longer listed.
Drop(i) == /\ fdConn' = [fdConn EXCEPT ![clients[i]] = NoConn]
           /\ clients' = RemoveAt(clients, i)

\* What std::find answers: the first place of f.
FirstPlace(i, f) == clients[i] = f /\ \A j \in 1..(i - 1) : clients[j] # f

\* Mutant: the connection is left to the next broadcast.
CleanupForgets(c) ==
  /\ hpc[c] = "cleanup"
  /\ hpc' = [hpc EXCEPT ![c] = "bye"]
  /\ UNCHANGED <<listenVars, hfd, entered, castVars, peerVars, wireVars, tableVars,
                 stopVars, lock, backlog, pipe>>

\* Mutant: the number is closed whether it is listed or not.
CleanupAlways(c) ==
  /\ hpc[c] = "cleanup"
  /\ lock = Nobody
  /\ fdConn' = [fdConn EXCEPT ![hfd[c]] = NoConn]
  /\ clients' = Remove(clients, hfd[c])
  /\ hpc' = [hpc EXCEPT ![c] = "bye"]
  /\ UNCHANGED <<listenVars, hfd, entered, castVars, peerVars, wireVars, stopVars,
                 lock, backlog, pipe>>

\* A number still listed is closed and erased.
Cleanup(c) ==
  /\ hpc[c] = "cleanup"
  /\ lock = Nobody
  /\ IF Contains(clients, hfd[c])
     THEN \E i \in DOMAIN clients : FirstPlace(i, hfd[c]) /\ Drop(i)
     ELSE UNCHANGED tableVars
  /\ hpc' = [hpc EXCEPT ![c] = "bye"]
  /\ UNCHANGED <<listenVars, hfd, entered, castVars, peerVars, wireVars, stopVars,
                 lock, backlog, pipe>>

Leave(c) ==
  /\ hpc[c] = "bye"
  /\ Prints
  /\ hpc' = [hpc EXCEPT ![c] = "done"]
  /\ UNCHANGED <<listenVars, hfd, entered, castVars, peerVars, wireVars, tableVars,
                 stopVars, lock, backlog>>

-----------------------------------------------------------------------------
(* log_write, and broadcast_log in it.                                     *)

\* log_mutex_ is taken.
BeginLog(t) ==
  /\ logger = Nobody
  /\ \/ t = Device /\ logs < MaxLogs /\ logs' = logs + 1
     \/ t \in Conns /\ hpc[t] = "log" /\ UNCHANGED logs
  /\ logger' = t
  /\ UNCHANGED <<listenVars, handlerVars, printed, bpos, dropped, peerVars, wireVars,
                 tableVars, stopVars, lock, backlog, pipe>>

\* The line goes to stdout with log_mutex_ held, and to the file.
WriteLog ==
  /\ logger # Nobody /\ ~printed
  /\ Prints
  /\ printed' = TRUE
  /\ UNCHANGED <<listenVars, handlerVars, logger, bpos, logs, dropped, peerVars, wireVars,
                 tableVars, stopVars, lock, backlog>>

LockClients ==
  /\ printed
  /\ bpos = 0
  /\ lock = Nobody
  /\ lock' = logger
  /\ bpos' = 1
  /\ UNCHANGED <<listenVars, handlerVars, logger, printed, logs, dropped, peerVars, wireVars,
                 tableVars, stopVars, backlog, pipe>>

\* The connection the next send() goes to.
Target == fdConn[clients[bpos]]

\* Sending to a peer that has gone succeeds until its reset has come back.
CastSent ==
  /\ bpos \in DOMAIN clients
  /\ peer[Target] # "stalled"
  /\ bpos' = bpos + 1
  /\ UNCHANGED <<listenVars, handlerVars, logger, printed, logs, dropped, peerVars, wireVars,
                 tableVars, stopVars, lock, backlog, pipe>>

CastFailed ==
  /\ bpos \in DOMAIN clients
  /\ peer[Target] = "closed"
  /\ Drop(bpos)
  /\ dropped' = TRUE
  /\ UNCHANGED <<listenVars, handlerVars, logger, printed, bpos, logs, peerVars, wireVars,
                 stopVars, lock, backlog, pipe>>

\* Mutant: a command that logs is not answered.
EndLogForgets ==
  /\ bpos > Len(clients)
  /\ lock' = Nobody
  /\ logger' = Nobody /\ printed' = FALSE
  /\ bpos' = 0
  /\ hpc' = IF logger \in Conns THEN [hpc EXCEPT ![logger] = "top"] ELSE hpc
  /\ UNCHANGED <<listenVars, hfd, entered, logs, dropped, peerVars, wireVars, tableVars,
                 stopVars, backlog, pipe>>

\* Both mutexes are released; a handler goes on to its answer.
EndLog ==
  /\ bpos > Len(clients)
  /\ lock' = Nobody
  /\ logger' = Nobody /\ printed' = FALSE
  /\ bpos' = 0
  /\ hpc' = IF logger \in Conns THEN [hpc EXCEPT ![logger] = "respond"] ELSE hpc
  /\ UNCHANGED <<listenVars, hfd, entered, logs, dropped, peerVars, wireVars, tableVars,
                 stopVars, backlog, pipe>>

Broadcast == WriteLog \/ LockClients \/ CastSent \/ CastFailed \/ EndLog

Handler(c) == \/ EnterRecv(c) \/ LeaveRecv(c) \/ PrintCommand(c) \/ BeginLog(c)
              \/ Respond(c) \/ Cleanup(c) \/ Leave(c)

-----------------------------------------------------------------------------
(* stop.                                                                   *)

\* The signal has come that ends the loop of main().
Signal ==
  /\ mpc = "run"
  /\ mpc' = "signalled"
  /\ UNCHANGED <<listenVars, handlerVars, castVars, peerVars, wireVars, tableVars,
                 running, listening, lock, backlog, pipe>>

\* main() announces what it does (main.cpp:67; so does the handler of the signal, :12),
\* then calls stop().
StopBegin ==
  /\ mpc = "signalled"
  /\ Prints
  /\ running' = FALSE
  /\ mpc' = "closeServer"
  /\ UNCHANGED <<listenVars, handlerVars, castVars, peerVars, wireVars, tableVars,
                 listening, lock, backlog>>

\* Mutant: the listening socket is left open.
CloseServerNot ==
  /\ mpc = "closeServer"
  /\ mpc' = "closeClients"
  /\ UNCHANGED <<listenVars, handlerVars, castVars, peerVars, wireVars, tableVars,
                 running, listening, lock, backlog, pipe>>

CloseServer ==
  /\ mpc = "closeServer"
  /\ listening' = FALSE
  /\ mpc' = "closeClients"
  /\ UNCHANGED <<listenVars, handlerVars, castVars, peerVars, wireVars, tableVars,
                 running, lock, backlog, pipe>>

\* Mutant: the mutex is held until stop() ends (the braces around the loop are gone).
CloseClientsKeepsLock ==
  /\ mpc = "closeClients"
  /\ lock = Nobody
  /\ lock' = "main"
  /\ fdConn' = [f \in Fds |-> IF Contains(clients, f) THEN NoConn ELSE fdConn[f]]
  /\ clients' = <<>>
  /\ mpc' = "join"
  /\ UNCHANGED <<listenVars, handlerVars, castVars, peerVars, wireVars, running,
                 listening, backlog, pipe>>

CloseClients ==
  /\ mpc = "closeClients"
  /\ lock = Nobody
  /\ fdConn' = [f \in Fds |-> IF Contains(clients, f) THEN NoConn ELSE fdConn[f]]
  /\ clients' = <<>>
  /\ mpc' = "join"
  /\ UNCHANGED <<listenVars, handlerVars, castVars, peerVars, wireVars, running,
                 listening, lock, backlog, pipe>>

JoinListener ==
  /\ mpc = "join"
  /\ lpc = "exited"
  /\ mpc' = "stopped"
  /\ UNCHANGED <<listenVars, handlerVars, castVars, peerVars, wireVars, tableVars,
                 running, listening, lock, backlog, pipe>>

Stopping == StopBegin \/ CloseServer \/ CloseClients \/ JoinListener

-----------------------------------------------------------------------------
Next == \/ Listen
        \/ \E c \in Conns : Peer(c) \/ Handler(c)
        \/ BeginLog(Device)
        \/ Broadcast
        \/ Signal
        \/ Stopping
        \/ Drain

Spec == Init /\ [][Next]_vars

\* The server's own threads run, none is starved of a mutex, and a peer that
\* stalls reads on at last; nothing else is obliged to happen.  That stdout is read
\* is the premise of each property that needs it.
Fairness == /\ WF_vars(Listen)
            /\ \A c \in Conns : WF_vars(Handler(c)) /\ WF_vars(Resume(c))
            /\ WF_vars(Broadcast)
            /\ WF_vars(Stopping)

FairSpec == Spec /\ Fairness

-----------------------------------------------------------------------------
(* Type invariant.                                                         *)

HandlerStates ==
  {"none", "top", "recv", "got", "log", "respond", "cleanup", "bye", "done"}

\* Descriptors, positions and thread states keep their types (socket_server.hpp).
TypeOK ==
  /\ running \in BOOLEAN /\ listening \in BOOLEAN
  /\ mpc \in {"run", "signalled", "closeServer", "closeClients", "join", "stopped"}
  /\ clients \in Seq(Fds)
  /\ lock \in Threads \cup {Nobody}
  /\ fdConn \in [Fds -> Conns \cup {NoConn}]
  /\ backlog \in Seq(Conns)
  /\ lpc \in {"top", "blocked", "push", "spawn", "exited"}
  /\ lconn \in Conns \cup {NoConn} /\ lfd \in 0..MaxFd
  /\ hpc \in [Conns -> HandlerStates]
  /\ hfd \in [Conns -> 0..MaxFd]
  /\ entered \in [Conns -> Conns \cup {NoConn}]
  /\ logger \in Threads \cup {Nobody} /\ bpos \in Nat /\ logs \in 0..MaxLogs
  /\ printed \in BOOLEAN /\ dropped \in BOOLEAN
  /\ pipe \in 0..PipeCap
  /\ peer \in [Conns -> {"new", "open", "stalled", "closed"}]
  /\ unread \in [Conns -> Nat] /\ lines \in [Conns -> Nat]
  /\ stalls \in 0..MaxStalls /\ answers \in [Conns -> Nat]

-----------------------------------------------------------------------------
(* Safety.                                                                 *)

\* Every open descriptor is in client_sockets_, once, or in the hands of the
\* listen thread about to put it there; nothing closed is listed.  No thread can
\* close a descriptor twice or leak one, whatever the handlers, the broadcasts
\* and stop() do to each other.
FdsAccounted ==
  /\ ToSet(clients) \cup (IF lpc = "push" THEN {lfd} ELSE {}) = Fds \ FreeFds
  /\ IsInjective(clients)
  /\ lpc = "push" => ~Contains(clients, lfd)

Serving(c) == hpc[c] \notin {"none", "bye", "done"}

\* Until a broadcast has closed the descriptor of a dead client, or stop() has
\* begun, every handler works on its own connection (client_loop).
HandlersOwnFds ==
  running /\ ~dropped => \A c \in Conns : Serving(c) => fdConn[hfd[c]] = c

\* Under the same condition a peer gets at most one answer for each of its lines,
\* counting those unread and those being executed.
OneAnswerPerLine ==
  running /\ ~dropped =>
    \A c \in Conns :
       answers[c] + unread[c] + (IF hpc[c] \in {"got", "log", "respond"} THEN 1 ELSE 0)
         <= lines[c]

-----------------------------------------------------------------------------
(* Liveness.                                                               *)

Holds(c) == \E f \in Fds : fdConn[f] = c

\* The output of the emulator goes on being read: the pipe is full for good at no time.
OutputRead == []<>(pipe < PipeCap)

\* If the output is read, the descriptor of a connection whose peer has gone is
\* eventually closed, by its handler, by a broadcast or by stop(), although handlers
\* and loggers wait for the pipe and for each other on the way (client_loop,
\* broadcast_log).
DeadClientsClosed ==
  OutputRead => \A c \in Conns : Holds(c) /\ peer[c] = "closed" ~> ~Holds(c)

\* If the output is read, every line of a connection being served is answered at last,
\* or its peer goes or the emulator is stopped; of the server's own doing, only a
\* descriptor closed by a broadcast can prevent it (client_loop).
LinesAnswered ==
  OutputRead =>
    \A c \in Conns :
       Serving(c) ~> answers[c] = lines[c] \/ peer[c] = "closed" \/ ~running \/ dropped

\* If the output is read, a signal makes stop() come back, unless main() waits for ever
\* for a listen thread that accept() does not let go.  It waits so only where closing a
\* listening socket does not wake accept(), which is so on Linux (stop).
StopReturns ==
  OutputRead /\ <>(mpc # "run") =>
    <>(mpc = "stopped") \/ <>[](~CloseWakes /\ mpc = "join" /\ lpc = "blocked")
=============================================================================
