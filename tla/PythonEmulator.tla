---------------------------- MODULE PythonEmulator ----------------------------
(***************************************************************************)
(* The emulator that the tests fall back to (embedded_app/                 *)
(* device_emulator.py): device and console server in one process of many   *)
(* threads under CPython's global lock.  CPython 3.11, which the CI uses,  *)
(* changes threads at calls and loops only, so that a run of assignments   *)
(* without a call is one step here; between two calls others may run.      *)
(*                                                                         *)
(* Every thread logs: it prints to stdout, which blocks while the pipe     *)
(* behind it is full, and sends to all clients with clients_lock held,     *)
(* which blocks while one of them does not read.  Lines logged one after   *)
(* the other are one line here.  What an answer says is left out, and so   *)
(* are all readings but the temperature; whether a leak has reached 95% is *)
(* a choice.                                                               *)
(***************************************************************************)
EXTENDS Integers, FiniteSets

CONSTANTS
  Clients,       \* connections; each carries at most one command
  MayAsk(_),     \* the commands a client may send
  Unsteady,      \* clients that may stall, once, or leave
  BootThreads,   \* bound: the boot threads there can be
  FirstBoot,     \* the one started by start()
  Tel,           \* the telemetry thread
  NoThread,      \* no thread
  PipeCap,       \* lines that the pipe behind stdout holds
  Interrupted    \* bound: whether the main thread may be interrupted

Failures == {"MEMORY_LEAK", "SENSOR_TIMEOUT", "NETWORK_DELAY"}
Commands == Failures \cup {"status", "reboot", "SEGFAULT", "unknown"}
NoLine   == "none"

ASSUME ThreadAssumption ==
  /\ IsFiniteSet(BootThreads) /\ IsFiniteSet(Clients)
  /\ FirstBoot \in BootThreads /\ Unsteady \subseteq Clients
  /\ Clients \cap BootThreads = {} /\ Tel \notin Clients \cup BootThreads
  /\ NoThread \notin Clients \cup BootThreads \cup {Tel}
ASSUME AskAssumption  == \A c \in Clients : MayAsk(c) \subseteq Commands \cup {NoLine}
ASSUME PipeAssumption == PipeCap \in Nat \ {0} /\ Interrupted \in BOOLEAN

Threads == Clients \cup BootThreads \cup {Tel}

VARIABLES
  running, exited,
  stage,          \* boot_stage: 1 BOOTLOADER, 2 KERNEL_INIT, 3 SERVICES_START, 4 READY
  bootId,         \* current_boot_id
  failing,        \* the failure_ flags that are set
  active,         \* active_failure
  temp,           \* temperature: "ok" or "bad", which is -999.0
  id, at,         \* boot threads: boot_id (0: not started) and stages entered (5: gave up)
  tpc, sample,    \* telemetry thread and its current_temp
  log,            \* where each thread is in log_write: "none", "print", "cast", "send"
  pipe,           \* lines in the pipe behind stdout
  lock,           \* who waits for a client with clients_lock held
  socks,          \* client_socks
  acc,            \* the connection accept() returned and that is not listed yet
  hpc,            \* client handlers
  peer,           \* the other ends
  line,           \* the command of each connection
  answered,       \* the connections whose command was answered
  stopping,       \* main is in stop()
  overlapped      \* history: a reboot began while another was under way

deviceVars == <<running, exited, stage, bootId, failing, active, temp>>
bootVars   == <<id, at>>
telVars    == <<tpc, sample>>
logVars    == <<log, pipe, lock, socks>>
connVars   == <<acc, hpc, peer, line, answered>>
vars == <<deviceVars, bootVars, telVars, logVars, connVars, stopping, overlapped>>

READY == 4
GaveUp == 5

\* start() has been through: one boot thread, nobody connected.
Init ==
  /\ running = TRUE /\ exited = FALSE /\ stopping = FALSE
  /\ stage = 1 /\ bootId = 1
  /\ failing = {} /\ active = "none" /\ temp = "ok"
  /\ id = [b \in BootThreads |-> IF b = FirstBoot THEN 1 ELSE 0]
  /\ at = [b \in BootThreads |-> 0]
  /\ tpc = "top" /\ sample = "ok"
  /\ log = [t \in Threads |-> "none"] /\ pipe = 0 /\ lock = NoThread /\ socks = {}
  /\ acc = NoThread
  /\ hpc = [c \in Clients |-> "none"] /\ peer = [c \in Clients |-> "away"]
  /\ line = [c \in Clients |-> NoLine] /\ answered = {}
  /\ overlapped = FALSE

-----------------------------------------------------------------------------
(* log_write.                                                              *)

\* A thread goes on when its log_write has returned.
Free(t) == log[t] = "none"
Say(t)  == log' = [log EXCEPT ![t] = "print"]

Stalled == {c \in socks : peer[c] = "stalled"}
Dead    == {c \in socks : peer[c] = "gone"}

\* All clients get the line and those found dead are dropped, at once or, when one
\* does not read, with the lock held until it does.  Sending to a client that has gone
\* succeeds until its reset has come back.
SendToAll(t, drop) ==
  IF lock # NoThread THEN log' = [log EXCEPT ![t] = "cast"] /\ UNCHANGED <<lock, socks>>
  ELSE IF Stalled \subseteq drop
  THEN log' = [log EXCEPT ![t] = "none"] /\ socks' = socks \ drop /\ UNCHANGED lock
  ELSE log' = [log EXCEPT ![t] = "send"] /\ lock' = t /\ UNCHANGED socks

\* Mutant: stdout, too, is written with clients_lock held.
WriteOutLocked(t) ==
  /\ log[t] = "print" /\ lock \in {NoThread, t}
  /\ IF pipe < PipeCap THEN /\ pipe' = pipe + 1 /\ lock' = NoThread
                            /\ log' = [log EXCEPT ![t] = "cast"]
                       ELSE lock # t /\ lock' = t /\ UNCHANGED <<pipe, log>>
  /\ UNCHANGED <<deviceVars, bootVars, telVars, socks, connVars, stopping, overlapped>>

\* The lock is taken after the line is printed.
WriteOut(t) ==
  /\ log[t] = "print"
  /\ pipe < PipeCap
  /\ pipe' = pipe + 1
  /\ \E drop \in SUBSET Dead : SendToAll(t, drop)
  /\ UNCHANGED <<deviceVars, bootVars, telVars, connVars, stopping, overlapped>>

\* A thread that had to wait for the lock.
Cast(t) ==
  /\ log[t] = "cast" /\ lock = NoThread
  /\ \E drop \in SUBSET Dead : SendToAll(t, drop)
  /\ UNCHANGED <<deviceVars, bootVars, telVars, pipe, connVars, stopping, overlapped>>

\* Mutant: the lock is not released.
SendKeepsLock(t) ==
  /\ log[t] = "send" /\ Stalled = {}
  /\ \E drop \in SUBSET Dead : socks' = socks \ drop
  /\ log' = [log EXCEPT ![t] = "none"]
  /\ UNCHANGED <<lock, deviceVars, bootVars, telVars, pipe, connVars, stopping, overlapped>>

Send(t) ==
  /\ log[t] = "send" /\ Stalled = {}
  /\ \E drop \in SUBSET Dead : socks' = socks \ drop
  /\ log' = [log EXCEPT ![t] = "none"]
  /\ lock' = NoThread
  /\ UNCHANGED <<deviceVars, bootVars, telVars, pipe, connVars, stopping, overlapped>>

log_write(t) == WriteOut(t) \/ Cast(t) \/ Send(t)

-----------------------------------------------------------------------------
(* The boot threads and the telemetry thread.                              *)

\* Mutant: the id is not looked at again.
BootOutdated(b) ==
  /\ id[b] # 0 /\ at[b] < READY /\ Free(b)
  /\ IF at[b] = 0 \/ running
     THEN stage' = at[b] + 1 /\ at' = [at EXCEPT ![b] = @ + 1] /\ Say(b)
     ELSE at' = [at EXCEPT ![b] = GaveUp] /\ UNCHANGED <<stage, log>>
  /\ UNCHANGED <<running, exited, bootId, failing, active, temp, id, telVars, pipe, lock,
                 socks, connVars, stopping, overlapped>>

\* After a sleep, the test and the store follow each other without a call.
Boot(b) ==
  /\ id[b] # 0 /\ at[b] < READY /\ Free(b)
  /\ IF id[b] = bootId /\ (at[b] = 0 \/ running)
     THEN stage' = at[b] + 1 /\ at' = [at EXCEPT ![b] = @ + 1] /\ Say(b)
     ELSE at' = [at EXCEPT ![b] = GaveUp] /\ UNCHANGED <<stage, log>>
  /\ UNCHANGED <<running, exited, bootId, failing, active, temp, id, telVars, pipe, lock,
                 socks, connVars, stopping, overlapped>>

TelGoto(from, to) == tpc = from /\ Free(Tel) /\ tpc' = to

TelTop ==
  /\ TelGoto("top", "leak")
  /\ running /\ stage = READY
  /\ UNCHANGED <<deviceVars, bootVars, sample, logVars, connVars, stopping, overlapped>>

TelLeak ==
  /\ \/ TelGoto("leak", "sensor") /\ UNCHANGED log
     \/ "MEMORY_LEAK" \in failing /\ TelGoto("leak", "oom") /\ Say(Tel)
  /\ UNCHANGED <<deviceVars, bootVars, sample, pipe, lock, socks, connVars, stopping, overlapped>>

\* The leak ends when its end has been logged.
TelOom ==
  /\ TelGoto("oom", "sensor")
  /\ failing' = failing \ {"MEMORY_LEAK"}
  /\ UNCHANGED <<running, exited, stage, bootId, active, temp, bootVars, sample, logVars,
                 connVars, stopping, overlapped>>

TelSensor ==
  /\ TelGoto("sensor", "publish")
  /\ sample' = IF "SENSOR_TIMEOUT" \in failing THEN "bad" ELSE "ok"
  /\ IF failing \cap {"SENSOR_TIMEOUT", "NETWORK_DELAY"} # {} THEN Say(Tel) ELSE UNCHANGED log
  /\ UNCHANGED <<deviceVars, bootVars, pipe, lock, socks, connVars, stopping, overlapped>>

TelPublish ==
  /\ TelGoto("publish", "top")
  /\ temp' = sample
  /\ Say(Tel)
  /\ UNCHANGED <<running, exited, stage, bootId, failing, active, bootVars, sample, pipe,
                 lock, socks, connVars, stopping, overlapped>>

Telemetry == TelTop \/ TelLeak \/ TelOom \/ TelSensor \/ TelPublish

-----------------------------------------------------------------------------
(* The console server.                                                     *)

Accept ==
  /\ running /\ acc = NoThread
  /\ \E c \in Clients : /\ peer[c] # "away" /\ hpc[c] = "none"
                        /\ acc' = c
  /\ UNCHANGED <<deviceVars, bootVars, telVars, logVars, hpc, peer, line, answered, stopping,
                 overlapped>>

Register ==
  /\ acc # NoThread /\ lock = NoThread
  /\ socks' = socks \cup {acc}
  /\ hpc' = [hpc EXCEPT ![acc] = "recv"]
  /\ acc' = NoThread
  /\ UNCHANGED <<deviceVars, bootVars, telVars, log, pipe, lock, peer, line, answered,
                 stopping, overlapped>>

Rebooting == {c \in Clients : hpc[c] = "rebooting"}

\* Mutant: a reboot does not end a leak.
ResetKeepsLeak(c) ==
  /\ failing' = failing \cap {"MEMORY_LEAK"} /\ active' = "none" /\ stage' = 1 /\ temp' = "ok"
  /\ bootId' = bootId + 1
  /\ Say(c)
  /\ hpc' = [hpc EXCEPT ![c] = "rebooting"]
  /\ overlapped' = (overlapped \/ Rebooting # {})

\* trigger_reboot up to its log_write: no call, so no other thread, in between.
Reset(c) ==
  /\ failing' = {} /\ active' = "none" /\ stage' = 1 /\ temp' = "ok"
  /\ bootId' = bootId + 1
  /\ Say(c)
  /\ hpc' = [hpc EXCEPT ![c] = "rebooting"]
  /\ overlapped' = (overlapped \/ Rebooting # {})

Inject(c, failure) ==
  /\ IF failure \in Failures THEN failing' = failing \cup {failure} /\ active' = failure
                             ELSE UNCHANGED <<failing, active>>
  /\ Say(c)
  /\ hpc' = [hpc EXCEPT ![c] = IF failure = "SEGFAULT" THEN "segfault" ELSE "reply"]
  /\ UNCHANGED <<stage, temp, bootId, overlapped>>

\* A command, or the end of the connection.  running is not looked at between the
\* return of recv() and the end of the command.
Recv(c) ==
  /\ hpc[c] = "recv"
  /\ \/ /\ line[c] # NoLine /\ c \notin answered /\ c \in socks
        /\ \/ line[c] = "reboot" /\ Reset(c)
           \/ /\ line[c] = "status"
              /\ hpc' = [hpc EXCEPT ![c] = "reply"]
              /\ UNCHANGED <<failing, active, stage, temp, bootId, log, overlapped>>
           \/ line[c] \notin {"reboot", "status"} /\ Inject(c, line[c])
     \/ /\ peer[c] = "gone" \/ c \notin socks \/ (c \in answered /\ ~running)
        /\ hpc' = [hpc EXCEPT ![c] = "cleanup"]
        /\ UNCHANGED <<failing, active, stage, temp, bootId, log, overlapped>>
  /\ UNCHANGED <<running, exited, bootVars, telVars, pipe, lock, socks, acc, peer, line,
                 answered, stopping>>

\* Mutant: the boot thread is started once for all reboots under way.
SpawnOnce(c) ==
  /\ hpc[c] = "rebooting" /\ Free(c)
  /\ \E b \in BootThreads :
       /\ id[b] = 0
       /\ id' = IF \E d \in BootThreads : id[d] = bootId THEN id ELSE [id EXCEPT ![b] = bootId]
  /\ hpc' = [hpc EXCEPT ![c] = "reply"]
  /\ UNCHANGED <<deviceVars, at, telVars, logVars, acc, peer, line, answered, stopping,
                 overlapped>>


\* The new boot thread gets the id that is current by now.
Spawn(c) ==
  /\ hpc[c] = "rebooting" /\ Free(c)
  /\ \E b \in BootThreads : id[b] = 0 /\ id' = [id EXCEPT ![b] = bootId]
  /\ hpc' = [hpc EXCEPT ![c] = "reply"]
  /\ UNCHANGED <<deviceVars, at, telVars, logVars, acc, peer, line, answered, stopping,
                 overlapped>>

Segfault(c) ==
  /\ hpc[c] = "segfault" /\ Free(c)
  /\ exited' = TRUE
  /\ UNCHANGED <<running, stage, bootId, failing, active, temp, bootVars, telVars, logVars,
                 connVars, stopping, overlapped>>

\* Sending waits for a client that does not read, and fails on a socket closed.
Reply(c) ==
  /\ hpc[c] = "reply" /\ Free(c)
  /\ IF c \in socks /\ peer[c] # "gone"
     THEN /\ peer[c] # "stalled"
          /\ answered' = answered \cup {c}
          /\ hpc' = [hpc EXCEPT ![c] = "recv"]
     ELSE /\ hpc' = [hpc EXCEPT ![c] = "cleanup"]
          /\ UNCHANGED answered
  /\ UNCHANGED <<deviceVars, bootVars, telVars, logVars, acc, peer, line, stopping, overlapped>>

Cleanup(c) ==
  /\ hpc[c] = "cleanup" /\ lock = NoThread
  /\ socks' = socks \ {c}
  /\ hpc' = [hpc EXCEPT ![c] = "done"]
  /\ UNCHANGED <<deviceVars, bootVars, telVars, log, pipe, lock, acc, peer, line, answered,
                 stopping, overlapped>>

Handler(c) == Recv(c) \/ Spawn(c) \/ Segfault(c) \/ Reply(c) \/ Cleanup(c)

-----------------------------------------------------------------------------
(* stop(), when the main thread is interrupted.                            *)

StopBegin ==
  /\ Interrupted /\ ~stopping
  /\ stopping' = TRUE /\ running' = FALSE
  /\ UNCHANGED <<exited, stage, bootId, failing, active, temp, bootVars, telVars, logVars,
                 connVars, overlapped>>

\* The clients are closed, then the log file, and the process ends with the main
\* thread, whatever its daemon threads are doing.
StopClients ==
  /\ stopping /\ lock = NoThread
  /\ socks' = {}
  /\ exited' = TRUE
  /\ UNCHANGED <<running, stage, bootId, failing, active, temp, bootVars, telVars, log, pipe,
                 lock, connVars, stopping, overlapped>>

-----------------------------------------------------------------------------
(* The other ends and whoever reads stdout.                                *)

PeerDoes(c, from, to) == peer[c] \in from /\ peer' = [peer EXCEPT ![c] = to]

\* A client connects with its command; it may stall, once, and leave.
Peers ==
  /\ \/ \E c \in Clients : /\ PeerDoes(c, {"away"}, "fresh") /\ running
                           /\ \E command \in MayAsk(c) : line' = [line EXCEPT ![c] = command]
     \/ \E c \in Unsteady : /\ \/ PeerDoes(c, {"fresh"}, "stalled")
                               \/ PeerDoes(c, {"fresh", "stalled", "reading"}, "gone")
                            /\ UNCHANGED line
  /\ UNCHANGED <<deviceVars, bootVars, telVars, logVars, acc, hpc, answered, stopping, overlapped>>

Resume(c) ==
  /\ PeerDoes(c, {"stalled"}, "reading")
  /\ UNCHANGED <<deviceVars, bootVars, telVars, logVars, acc, hpc, line, answered, stopping,
                 overlapped>>

Drain ==
  /\ pipe > 0
  /\ pipe' = pipe - 1
  /\ UNCHANGED <<deviceVars, bootVars, telVars, log, lock, socks, connVars, stopping, overlapped>>

-----------------------------------------------------------------------------
Next ==
  /\ ~exited
  /\ \/ \E t \in Threads : log_write(t)
     \/ \E b \in BootThreads : Boot(b)
     \/ Telemetry
     \/ Accept \/ Register
     \/ \E c \in Clients : Handler(c) \/ Resume(c)
     \/ StopBegin \/ StopClients
     \/ Peers \/ Drain

Spec == Init /\ [][Next]_vars

\* Threads run, also those that wait for the lock: the telemetry thread sleeps a
\* second between two lines.  Clients that stall read on.  Nobody has to connect, to
\* interrupt the emulator or to read its output.
Fairness == /\ \A t \in Threads : WF_vars(~exited /\ log_write(t))
            /\ \A b \in BootThreads : WF_vars(~exited /\ Boot(b))
            /\ WF_vars(~exited /\ Telemetry)
            /\ WF_vars(~exited /\ Accept) /\ WF_vars(~exited /\ Register)
            /\ \A c \in Clients : WF_vars(~exited /\ Handler(c)) /\ WF_vars(~exited /\ Resume(c))
            /\ WF_vars(~exited /\ StopClients)

FairSpec == Spec /\ Fairness

-----------------------------------------------------------------------------
\* Threads, connections and the device keep their types, and the lock is held by
\* the thread that waits for a client (device_emulator.py).
TypeOK ==
  /\ running \in BOOLEAN /\ exited \in BOOLEAN /\ stopping \in BOOLEAN /\ overlapped \in BOOLEAN
  /\ stage \in 1..READY /\ bootId \in Nat \ {0}
  /\ failing \subseteq Failures /\ active \in Failures \cup {"none"}
  /\ temp \in {"ok", "bad"} /\ sample \in {"ok", "bad"}
  /\ id \in [BootThreads -> Nat] /\ at \in [BootThreads -> 0..GaveUp]
  /\ tpc \in {"top", "leak", "oom", "sensor", "publish"}
  /\ log \in [Threads -> {"none", "print", "cast", "send"}]
  /\ pipe \in 0..PipeCap
  /\ lock \in Threads \cup {NoThread}
  /\ \A t \in Threads : log[t] = "send" <=> lock = t
  /\ socks \subseteq Clients /\ acc \in Clients \cup {NoThread}
  /\ hpc \in [Clients -> {"none", "recv", "rebooting", "segfault", "reply", "cleanup", "done"}]
  /\ peer \in [Clients -> {"away", "fresh", "stalled", "reading", "gone"}]
  /\ line \in [Clients -> Commands \cup {NoLine}]
  /\ answered \subseteq Clients

\* Boot threads started with one of the first k ids.
Started(k) == Cardinality({b \in BootThreads : id[b] \in 1..k})

\* Reboots that overlap may share a boot id, but every reset gets a boot thread of
\* its own, or is about to, and there are never more threads up to an id than there
\* were resets up to it: unless reboots overlapped, the ids are distinct
\* (trigger_reboot).
BootsMatchResets ==
  /\ Started(bootId) + Cardinality(Rebooting) = bootId
  /\ \A k \in 1..bootId : Started(k) <= k
  /\ ~overlapped => \A k \in 1..(bootId - Cardinality(Rebooting)) : Started(k) = k

\* Whatever clients do at once, no failure is set while none is reported: here the
\* C++ emulator needs that they take turns (trigger_reboot, inject_failure).
NoSilentFailure == active = "none" => failing = {}

\* A boot that was superseded changes nothing any more, so that unless reboots
\* overlapped the stages are gone through one by one (_run_boot_sequence).
StagesInOrder == [][stage' \in {1, stage, stage + 1} \/ overlapped]_vars

\* A client that is there stays listed, and so gets every line, until the server is
\* stopped: unlike a descriptor, a socket object is not reused (log_write,
\* _client_handler).
ConnectedClientsListed ==
  ~exited => \A c \in Clients : /\ hpc[c] \in {"recv", "rebooting", "segfault", "reply"}
                                /\ peer[c] # "gone"
                                => c \in socks

\* A status command is answered even if nobody reads the emulator's output and all
\* other threads are stuck in log_write, as clients_lock is not held while printing
\* (_client_handler, log_write, _accept_loop).
StatusAnswered ==
  \A c \in Clients : line[c] = "status" ~> c \in answered \/ peer[c] = "gone" \/ ~running

\* Somebody reads the output, so that the pipe is full no more.
OutputRead == <>[](pipe < PipeCap)


=============================================================================
