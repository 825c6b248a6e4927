----------------------------- MODULE DeviceClient -----------------------------
(***************************************************************************)
(* One DeviceClient object (automation/device_client.py) as the tests use  *)
(* it (tests/conftest.py): its owner, the test's thread, connects it,      *)
(* calls it and closes it, while the collector thread calls it too and the *)
(* listener thread copies the console to a file.                           *)
(*                                                                         *)
(* A call sends its command on the console socket, spends its timeout, and *)
(* sends the command again on a socket of its own, where it waits for the  *)
(* answer.  The emulator answers every copy on the socket it came from and *)
(* sends each log line to all of them.  It can exit at any time, and it    *)
(* can hang: then it still accepts connections, and nothing more.          *)
(***************************************************************************)
EXTENDS Integers, Sequences

CONSTANTS
  Callers,    \* threads that call send_command
  Owner,      \* the one that connects and closes
  Commands,   \* what they send
  MaxCalls,   \* bound: calls per thread
  Retries,    \* attempts to connect
  MaxQueue,   \* bound: lines under way on one connection
  NoCaller    \* not a thread

NoCommand == "none"

ASSUME OwnerAssumption   == Owner \in Callers /\ NoCaller \notin Callers
ASSUME CommandAssumption == NoCommand \notin Commands
ASSUME BoundAssumption   == /\ MaxCalls \in Nat
                            /\ Retries \in Nat \ {0}
                            /\ MaxQueue \in Nat \ {0}

Console == NoCaller                   \* the console socket's connection
Chans   == Callers \cup {Console}     \* and one for each caller's own socket

CallIds == Callers \X (1..MaxCalls)
Log     == <<NoCaller, 0>>            \* a line that starts with "["
Empty   == <<NoCaller, 1>>            \* the answer ""

VARIABLES
  emu,        \* the emulator: "starting", "up", "hung" or "down"
  attempt,    \* failed attempts to connect
  opc,        \* owner: "connect", "failed", "use", "closing", "closed"
  sock,       \* socket_conn is connected
  listening,  \* listening
  file,       \* log_stream: "open" or "closed"
  lpc,        \* listener thread
  pc,         \* callers: "idle", "wait" or "recv"
  made,       \* calls made
  cmd,        \* the command of the call under way
  ret,        \* what the last call returned
  req,        \* per connection, commands the emulator has not read
  out,        \* per connection, lines the client has not read
  ran         \* how often each call was carried out

ownVars == <<attempt, opc, sock, listening, file>>
callVars == <<pc, made, cmd, ret>>
wireVars == <<req, out>>
vars == <<emu, ownVars, lpc, callVars, wireVars, ran>>

Init ==
  /\ emu \in {"starting", "up"}
  /\ attempt = 0 /\ opc = "connect" /\ sock = FALSE /\ listening = FALSE
  /\ file = "open"
  /\ lpc = "none"
  /\ pc = [t \in Callers |-> "idle"]
  /\ made = [t \in Callers |-> 0]
  /\ cmd = [t \in Callers |-> NoCommand]
  /\ ret = [t \in Callers |-> Empty]
  /\ req = [ch \in Chans |-> <<>>]
  /\ out = [ch \in Chans |-> <<>>]
  /\ ran = [id \in CallIds |-> 0]

Accepting == emu \in {"up", "hung"}

\* A connection lasts until its owner closes it and nobody is blocked on it.
Alive(ch) == IF ch = Console THEN sock \/ lpc = "blocked" ELSE pc[ch] = "recv"

-----------------------------------------------------------------------------
(* connect and close, by the owner.                                        *)

\* Mutant: one attempt more than asked for.
ConnectOnceMore ==
  /\ opc = "connect"
  /\ \/ /\ Accepting
        /\ sock' = TRUE /\ listening' = TRUE
        /\ lpc' = "test"
        /\ opc' = "use"
        /\ UNCHANGED attempt
     \/ /\ ~Accepting
        /\ attempt' = attempt + 1
        /\ opc' = IF attempt' <= Retries THEN "connect" ELSE "failed"
        /\ UNCHANGED <<sock, listening, lpc>>
  /\ UNCHANGED <<emu, file, callVars, wireVars, ran>>

\* connect() tries until the emulator accepts or the retries are used up.
Connect ==
  /\ opc = "connect"
  /\ \/ /\ Accepting
        /\ sock' = TRUE /\ listening' = TRUE
        /\ lpc' = "test"
        /\ opc' = "use"
        /\ UNCHANGED attempt
     \/ /\ ~Accepting
        /\ attempt' = attempt + 1
        /\ opc' = IF attempt' < Retries THEN "connect" ELSE "failed"
        /\ UNCHANGED <<sock, listening, lpc>>
  /\ UNCHANGED <<emu, file, callVars, wireVars, ran>>

\* listening = False, and the socket is closed and forgotten.
CloseSocket ==
  /\ opc = "use"
  /\ pc[Owner] = "idle"
  /\ listening' = FALSE /\ sock' = FALSE
  /\ opc' = "closing"
  /\ UNCHANGED <<emu, attempt, file, lpc, callVars, wireVars, ran>>

CloseFile ==
  /\ opc = "closing"
  /\ file' = "closed"
  /\ opc' = "closed"
  /\ UNCHANGED <<emu, attempt, sock, listening, lpc, callVars, wireVars, ran>>

-----------------------------------------------------------------------------
(* The listener thread: _listen_logs_loop.                                 *)

ListenTest ==
  /\ lpc = "test"
  /\ lpc' = IF listening /\ sock THEN "enter" ELSE "exited"
  /\ UNCHANGED <<emu, ownVars, callVars, wireVars, ran>>

\* recv() on a socket closed since the test raises.
ListenEnter ==
  /\ lpc = "enter"
  /\ lpc' = IF sock THEN "blocked" ELSE "exited"
  /\ UNCHANGED <<emu, ownVars, callVars, wireVars, ran>>

\* Mutant: the end of the stream does not end the loop.
ListenRecvForever ==
  /\ lpc = "blocked"
  /\ \/ /\ out[Console] # <<>>
        /\ out' = [out EXCEPT ![Console] = Tail(@)]
        /\ lpc' = "write"
     \/ /\ emu = "down"
        /\ lpc' = "test"
        /\ UNCHANGED out
  /\ UNCHANGED <<emu, ownVars, callVars, req, ran>>

\* A line, or the end of the stream, which a reset may bring early.
ListenRecv ==
  /\ lpc = "blocked"
  /\ \/ /\ out[Console] # <<>>
        /\ out' = [out EXCEPT ![Console] = Tail(@)]
        /\ lpc' = "write"
     \/ /\ emu = "down"
        /\ lpc' = "exited"
        /\ UNCHANGED out
  /\ UNCHANGED <<emu, ownVars, callVars, req, ran>>

\* Writing to a closed file raises, which ends the loop.
ListenWrite ==
  /\ lpc = "write"
  /\ lpc' = IF file = "open" THEN "test" ELSE "exited"
  /\ UNCHANGED <<emu, ownVars, callVars, wireVars, ran>>

Listener == ListenTest \/ ListenEnter \/ ListenRecv \/ ListenWrite

-----------------------------------------------------------------------------
(* send_command and _send_and_receive_raw.                                 *)

\* The call's own socket is closed with what it still holds.
Finish(t, answer) == /\ pc' = [pc EXCEPT ![t] = "idle"]
                     /\ ret' = [ret EXCEPT ![t] = answer]
                     /\ cmd' = [cmd EXCEPT ![t] = NoCommand]
                     /\ out' = [out EXCEPT ![t] = <<>>]

\* The owner calls until it closes; the collector may call at any time.
MayCall(t) == /\ pc[t] = "idle"
              /\ made[t] < MaxCalls
              /\ opc = "use" \/ (t # Owner /\ opc \in {"closing", "closed"})

\* The first copy.  Without a socket, or when sending fails, "" is returned; to
\* an emulator that has gone it may also appear to be sent.
SendCopy(t) ==
  /\ MayCall(t)
  /\ made' = [made EXCEPT ![t] = @ + 1]
  /\ \E c \in Commands :
       \/ /\ sock
          /\ req' = IF emu = "down" THEN req
                    ELSE [req EXCEPT ![Console] = Append(@, <<<<t, made'[t]>>, c>>)]
          /\ cmd' = [cmd EXCEPT ![t] = c]
          /\ pc' = [pc EXCEPT ![t] = "wait"]
          /\ UNCHANGED <<ret, out>>
       \/ /\ ~sock \/ emu = "down"
          /\ Finish(t, Empty)
          /\ UNCHANGED req
  /\ UNCHANGED <<emu, ownVars, lpc, ran>>

\* The timeout is over: the second copy goes out on a socket of its own.
Dial(t) ==
  /\ pc[t] = "wait"
  /\ \/ /\ Accepting
        /\ pc' = [pc EXCEPT ![t] = "recv"]
        /\ req' = [req EXCEPT ![t] = <<<<<<t, made[t]>>, cmd[t]>>>>]
        /\ UNCHANGED <<ret, cmd, out>>
     \/ /\ ~Accepting
        /\ Finish(t, Empty)
        /\ UNCHANGED req
  /\ UNCHANGED <<emu, ownVars, lpc, made, ran>>

Skip(ch) == /\ out' = [out EXCEPT ![ch] = Tail(@)]
            /\ UNCHANGED <<pc, ret, cmd>>

\* Mutant: the answer is taken from the console socket.
ReadConsole(t) ==
  /\ pc[t] = "recv"
  /\ \/ /\ out[Console] # <<>>
        /\ IF Head(out[Console]) = Log THEN Skip(Console)
                                       ELSE Finish(t, Head(out[Console]))
     \/ /\ emu = "down"
        /\ Finish(t, Empty)
  /\ UNCHANGED <<emu, ownVars, lpc, made, req, ran>>

\* Mutant: a log line is taken for the end of the answer.
ReadStopsAtLog(t) ==
  /\ pc[t] = "recv"
  /\ \/ /\ out[t] # <<>>
        /\ Finish(t, IF Head(out[t]) = Log THEN Empty ELSE Head(out[t]))
     \/ /\ emu = "down"
        /\ Finish(t, Empty)
  /\ UNCHANGED <<emu, ownVars, lpc, made, req, ran>>

\* Mutant: the end of the stream is not looked at.
ReadIgnoresEnd(t) ==
  /\ pc[t] = "recv"
  /\ out[t] # <<>>
  /\ IF Head(out[t]) = Log THEN Skip(t) ELSE Finish(t, Head(out[t]))
  /\ UNCHANGED <<emu, ownVars, lpc, made, req, ran>>

\* Log lines are skipped; the first other line is the answer.  The end of the
\* stream, which a reset may bring early, gives "".
Read(t) ==
  /\ pc[t] = "recv"
  /\ \/ /\ out[t] # <<>>
        /\ IF Head(out[t]) = Log THEN Skip(t) ELSE Finish(t, Head(out[t]))
     \/ /\ emu = "down"
        /\ Finish(t, Empty)
  /\ UNCHANGED <<emu, ownVars, lpc, made, req, ran>>

Call(t) == Dial(t) \/ Read(t)

-----------------------------------------------------------------------------
(* The emulator, as its clients see it: client_loop and log_write.         *)

NothingToRead == [ch \in Chans |-> <<>>]

\* One command: carried out and answered where it came from, also when its
\* caller has gone.  The log lines it causes are among those of LogLine.  That the
\* answer goes there is assumed: SocketServer shows how a descriptor closed by a
\* broadcast and handed out again can send it elsewhere.
Serve(ch) ==
  /\ emu = "up"
  /\ req[ch] # <<>>
  /\ LET id == Head(req[ch])[1]
         c  == Head(req[ch])[2]
     IN  /\ ran' = [ran EXCEPT ![id] = @ + 1]
         /\ IF c = "SEGFAULT"
            THEN /\ emu' = "down"
                 /\ req' = NothingToRead
                 /\ UNCHANGED out
            ELSE /\ out' = IF Alive(ch) THEN [out EXCEPT ![ch] = Append(@, id)] ELSE out
                 /\ req' = [req EXCEPT ![ch] = Tail(@)]
                 /\ UNCHANGED emu
  /\ UNCHANGED <<ownVars, lpc, callVars>>

\* A log line goes to every connection.
LogLine ==
  /\ emu = "up"
  /\ \E ch \in Chans : Alive(ch)
  /\ \A ch \in Chans : Alive(ch) => Len(out[ch]) < MaxQueue
  /\ out' = [ch \in Chans |-> IF Alive(ch) THEN Append(out[ch], Log) ELSE out[ch]]
  /\ UNCHANGED <<emu, ownVars, lpc, callVars, req, ran>>

Start == emu = "starting" /\ emu' = "up" /\ UNCHANGED req
Hang  == emu = "up" /\ emu' = "hung" /\ UNCHANGED req
Exit  == emu \in {"up", "hung"} /\ emu' = "down" /\ req' = NothingToRead

Environment == /\ Start \/ Hang \/ Exit
               /\ UNCHANGED <<ownVars, lpc, callVars, out, ran>>

-----------------------------------------------------------------------------
Next == \/ Connect \/ CloseSocket \/ CloseFile
        \/ Listener
        \/ \E t \in Callers : SendCopy(t) \/ Call(t)
        \/ \E ch \in Chans : Serve(ch)
        \/ LogLine
        \/ Environment

Spec == Init /\ [][Next]_vars

\* The client's threads run, and so does the emulator unless it hangs or exits.
\* Nobody is obliged to call, to close or to exit.
Fairness == /\ WF_vars(Listener)
            /\ \A t \in Callers : WF_vars(Call(t))
            /\ \A ch \in Chans : WF_vars(Serve(ch))
            /\ WF_vars(LogLine)
            /\ WF_vars(CloseFile)

FairSpec == Spec /\ Fairness

-----------------------------------------------------------------------------
\* Connections carry the commands and lines of calls that were made
\* (device_client.py).
TypeOK ==
  /\ emu \in {"starting", "up", "hung", "down"}
  /\ attempt \in 0..Retries
  /\ opc \in {"connect", "failed", "use", "closing", "closed"}
  /\ sock \in BOOLEAN /\ listening \in BOOLEAN
  /\ file \in {"open", "closed"}
  /\ lpc \in {"none", "test", "enter", "blocked", "write", "exited"}
  /\ pc \in [Callers -> {"idle", "wait", "recv"}]
  /\ made \in [Callers -> 0..MaxCalls]
  /\ cmd \in [Callers -> Commands \cup {NoCommand}]
  /\ ret \in [Callers -> CallIds \cup {Empty}]
  /\ req \in [Chans -> Seq(CallIds \X Commands)]
  /\ out \in [Chans -> Seq(CallIds \cup {Log})]
  /\ ran \in [CallIds -> Nat]

\* What callers can rely on, ConsoleCalls: an answer is the answer to the call it
\* is returned from, which has been carried out, and no call is carried out more
\* than twice, whatever copies, log lines and calls of other threads are under
\* way (send_command).
Abstract == INSTANCE ConsoleCalls WITH busy <- {t \in Callers : pc[t] # "idle"}
ImplementsConsoleCalls == Abstract!Spec

\* A call returns "" only when the client is closed or the emulator is gone: log
\* lines do not hide an answer (_send_and_receive_raw).
LosesNoAnswer ==
  [][ \A t \in Callers : pc[t] = "recv" /\ pc'[t] = "idle" /\ ret'[t] = Empty
        => emu = "down" ]_vars

\* Every call comes back, unless the emulator hangs (_send_and_receive_raw).
CallsReturn == \A t \in Callers : pc[t] # "idle" ~> pc[t] = "idle" \/ emu = "hung"

\* When the client is closed or the emulator exits the listener thread ends,
\* although close() does not wake it: the device's next log line does
\* (_listen_logs_loop, close).
ListenerEnds == opc = "closed" \/ emu = "down" ~> lpc \in {"none", "exited"} \/ emu = "hung"
=============================================================================
