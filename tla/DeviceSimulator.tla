--------------------------- MODULE DeviceSimulator ---------------------------
(***************************************************************************)
(* The C++ class DeviceSimulator (embedded_app/simulator.cpp) with the     *)
(* threads that run on one object of it:                                   *)
(*                                                                         *)
(*   - one boot thread per call of start() or trigger_reboot(), of which   *)
(*     boot_thread_ holds at most the latest;                              *)
(*   - the telemetry thread;                                               *)
(*   - the client handler threads of the socket server, which call         *)
(*     get_status_json, trigger_reboot and inject_failure (Handlers);      *)
(*   - the main thread, which calls stop() and then destroys the object.   *)
(*                                                                         *)
(* An action is one access to a shared atomic (or one call on              *)
(* boot_thread_), so that every interleaving of the threads is explored.   *)
(* active_failure_ is a plain std::string: an assignment has a begin and   *)
(* an end, and what overlaps it is undefined.                              *)
(*                                                                         *)
(* cpu_load_ and voltage_ are written where temperature_ is and take no    *)
(* part in any decision; they are left out.  temperature_ keeps only where *)
(* its value comes from.  mem_usage_ is a number of units.                 *)
(***************************************************************************)
EXTENDS Integers, Sequences, FiniteSets

CONSTANTS
  Handlers,      \* client handler threads
  Commands,      \* the console commands they receive
  MaxCommands,   \* bound: commands received in a behaviour
  InitMem,       \* mem_usage_ after a reset (25%)
  NominalMem,    \* what the telemetry thread samples without a leak (24%..28%)
  LeakStep,      \* growth per telemetry period under MEMORY_LEAK (6.5%)
  OomThreshold   \* the out-of-memory level (95%)

FlagKinds == {"MEMORY_LEAK", "SENSOR_TIMEOUT", "NETWORK_DELAY"}

AllCommands == FlagKinds \cup {"status", "reboot", "SEGFAULT", "UNKNOWN"}

ASSUME CommandsAssumption == Commands \subseteq AllCommands
ASSUME BoundAssumption    == MaxCommands \in Nat
ASSUME MemAssumption      == /\ InitMem \in Nat
                             /\ NominalMem \subseteq Nat
                             /\ LeakStep \in Nat \ {0}
                             /\ OomThreshold \in Nat
ASSUME LevelAssumption    == \A m \in NominalMem \cup {InitMem} : m < OomThreshold

VARIABLES
  running,   \* running_
  bootId,    \* current_boot_id_
  stage,     \* boot_stage_
  mem,       \* mem_usage_
  temp,      \* temperature_: "initial" (35.0), "nominal" or "timeout" (-999)
  flag,      \* failure_memory_leak_, failure_sensor_timeout_, ..._delay_
  active,    \* active_failure_
  writers,   \* handlers in the middle of an assignment to active_failure_
  racing,    \* those whose assignment overlaps another one
  boots,     \* every boot thread ever started, in order
  handle,    \* boot_thread_: an index of boots, 0 when not joinable
  tpc, tmem, ttemp,     \* telemetry thread: control, value read, sample
  hpc, cmd, hid, snap,  \* handlers: control, command, boot id, status answer
  mpc, joinee,          \* main thread: control, the boot thread it joins
  sent,      \* commands received so far
  proc       \* the process: "up" or how it ended

simVars  == <<bootId, stage, mem, temp, flag>>
nameVars == <<active, writers, racing>>
bootVars == <<boots, handle>>
telVars  == <<tpc, tmem, ttemp>>
hdlVars  == <<hpc, cmd, hid, snap>>
mainVars == <<running, mpc, joinee>>
vars == <<simVars, nameVars, bootVars, telVars, hdlVars, mainVars, sent, proc>>

BootStage == <<"BOOTLOADER", "KERNEL_INIT", "SERVICES_START", "READY">>
Stages == {"BOOTLOADER", "KERNEL_INIT", "SERVICES_START", "READY"}

\* The order in which reset() stores FALSE, and its program counters.
ResetOrder == <<"MEMORY_LEAK", "SENSOR_TIMEOUT", "NETWORK_DELAY">>
ClearPc    == <<"clearLeak", "clearSensor", "clearNet">>

Torn   == "torn"     \* a mix of the bytes of two names
NoName == "none"
Names  == FlagKinds \cup {NoName}

NoCommand == "idle"
NoSnap    == [stage |-> "unread", mem |-> 0, temp |-> "unread", active |-> "unread"]

\* Mutant: a boot does not begin with the boot loader.
NewBootFromKernel(id) == [id |-> id, pc |-> "check", next |-> 2, late |-> 0]

\* A boot thread about to test whether it is still wanted, before it stores
\* BootStage[next].  "late" counts its stores made after it was superseded.
NewBoot(id) == [id |-> id, pc |-> "check", next |-> 1, late |-> 0]

\* The constructor: nominal readings, no failure, nothing started.
Constructed ==
  /\ stage = "BOOTLOADER"
  /\ mem = InitMem
  /\ temp = "initial"
  /\ flag = [k \in FlagKinds |-> FALSE]
  /\ active = NoName /\ writers = {} /\ racing = {}

\* start() gives the first boot thread its id and starts the telemetry thread.
Started ==
  /\ running = TRUE
  /\ bootId = 1
  /\ boots = <<NewBoot(1)>> /\ handle = 1
  /\ tpc = "top" /\ tmem = 0 /\ ttemp = "nominal"

\* The socket server starts next, and main waits for a signal.
Init ==
  /\ Constructed
  /\ Started
  /\ hpc = [h \in Handlers |-> "recv"]
  /\ cmd = [h \in Handlers |-> NoCommand]
  /\ hid = [h \in Handlers |-> 0]
  /\ snap = [h \in Handlers |-> NoSnap]
  /\ mpc = "run" /\ joinee = 0
  /\ sent = 0
  /\ proc = "up"

\* A thread is about to execute the step named label; every thread stops with
\* the process.
BootAt(i, label)    == proc = "up" /\ i \in DOMAIN boots /\ boots[i].pc = label
TelemetryAt(label)  == proc = "up" /\ tpc = label
HandlerAt(h, label) == proc = "up" /\ hpc[h] = label
MainAt(label)       == proc = "up" /\ mpc = label

-----------------------------------------------------------------------------
(* Boot threads: run_boot_sequence.                                        *)

\* Mutant: the id test is forgotten.
WantedWhileRunning(i) == boots[i].next = 1 \/ running

\* The test before each store; the first one does not look at running_.
Wanted(i) == /\ boots[i].id = bootId
             /\ boots[i].next = 1 \/ running

BootCheck(i) ==
  /\ BootAt(i, "check")
  /\ boots' = [boots EXCEPT ![i].pc = IF Wanted(i) THEN "store" ELSE "done"]
  /\ UNCHANGED <<simVars, nameVars, handle, telVars, hdlVars, mainVars, sent, proc>>

BootStore(i) ==
  /\ BootAt(i, "store")
  /\ stage' = BootStage[boots[i].next]
  /\ boots' = [boots EXCEPT
        ![i].pc   = IF boots[i].next = 4 THEN "done" ELSE "check",
        ![i].next = @ + 1,
        ![i].late = IF boots[i].id = bootId THEN @ ELSE @ + 1]
  /\ UNCHANGED <<bootId, mem, temp, flag, nameVars, handle, telVars, hdlVars,
                 mainVars, sent, proc>>

Boot(i) == BootCheck(i) \/ BootStore(i)

-----------------------------------------------------------------------------
(* The telemetry thread: telemetry_loop.                                   *)

\* Mutant: a device in READY is not stopped.
TelTopWhileReady ==
  /\ TelemetryAt("top")
  /\ tpc' = IF running \/ stage = "READY" THEN "stage" ELSE "exited"
  /\ UNCHANGED <<simVars, nameVars, bootVars, tmem, ttemp, hdlVars, mainVars, sent, proc>>

TelTop ==
  /\ TelemetryAt("top")
  /\ tpc' = IF running THEN "stage" ELSE "exited"
  /\ UNCHANGED <<simVars, nameVars, bootVars, tmem, ttemp, hdlVars, mainVars, sent, proc>>

TelStage ==
  /\ TelemetryAt("stage")
  /\ tpc' = IF stage = "READY" THEN "leak" ELSE "top"
  /\ UNCHANGED <<simVars, nameVars, bootVars, tmem, ttemp, hdlVars, mainVars, sent, proc>>

\* mem_usage_ = mem_usage_ + 6.5 is a load and a store.
TelLeakLoad ==
  /\ TelemetryAt("leak")
  /\ flag["MEMORY_LEAK"]
  /\ tmem' = mem
  /\ tpc' = "leakStore"
  /\ UNCHANGED <<simVars, nameVars, bootVars, ttemp, hdlVars, mainVars, sent, proc>>

\* Mutant: the sum is not stored.
TelLeakStoreLost ==
  /\ TelemetryAt("leakStore")
  /\ tmem' = 0
  /\ tpc' = "oomCheck"
  /\ UNCHANGED <<simVars, nameVars, bootVars, ttemp, hdlVars, mainVars, sent, proc>>

TelLeakStore ==
  /\ TelemetryAt("leakStore")
  /\ mem' = tmem + LeakStep
  /\ tmem' = 0
  /\ tpc' = "oomCheck"
  /\ UNCHANGED <<bootId, stage, temp, flag, nameVars, bootVars, ttemp, hdlVars,
                 mainVars, sent, proc>>

\* Mutant: > for >=.
TelOomCheckAbove ==
  /\ TelemetryAt("oomCheck")
  /\ tpc' = IF mem > OomThreshold THEN "oom" ELSE "sensor"
  /\ UNCHANGED <<simVars, nameVars, bootVars, tmem, ttemp, hdlVars, mainVars, sent, proc>>

TelOomCheck ==
  /\ TelemetryAt("oomCheck")
  /\ tpc' = IF mem >= OomThreshold THEN "oom" ELSE "sensor"
  /\ UNCHANGED <<simVars, nameVars, bootVars, tmem, ttemp, hdlVars, mainVars, sent, proc>>

\* KERNEL_OUT_OF_MEMORY is logged, the leak stops and the process goes on.
TelOom ==
  /\ TelemetryAt("oom")
  /\ flag' = [flag EXCEPT !["MEMORY_LEAK"] = FALSE]
  /\ tpc' = "sensor"
  /\ UNCHANGED <<bootId, stage, mem, temp, nameVars, bootVars, tmem, ttemp, hdlVars,
                 mainVars, sent, proc>>

TelNominalMem ==
  /\ TelemetryAt("leak")
  /\ ~flag["MEMORY_LEAK"]
  /\ mem' \in NominalMem
  /\ tpc' = "sensor"
  /\ UNCHANGED <<bootId, stage, temp, flag, nameVars, bootVars, tmem, ttemp, hdlVars,
                 mainVars, sent, proc>>

\* Mutant: without the failure the last temperature is kept.
TelSensorKeeps ==
  /\ TelemetryAt("sensor")
  /\ ttemp' = IF flag["SENSOR_TIMEOUT"] THEN "timeout" ELSE temp
  /\ tpc' = "publish"
  /\ UNCHANGED <<simVars, nameVars, bootVars, tmem, hdlVars, mainVars, sent, proc>>

TelSensor ==
  /\ TelemetryAt("sensor")
  /\ ttemp' = IF flag["SENSOR_TIMEOUT"] THEN "timeout" ELSE "nominal"
  /\ tpc' = "publish"
  /\ UNCHANGED <<simVars, nameVars, bootVars, tmem, hdlVars, mainVars, sent, proc>>

TelPublish ==
  /\ TelemetryAt("publish")
  /\ temp' = ttemp
  /\ ttemp' = "nominal"
  /\ tpc' = "top"
  /\ UNCHANGED <<bootId, stage, mem, flag, nameVars, bootVars, tmem, hdlVars,
                 mainVars, sent, proc>>

Telemetry == TelTop \/ TelStage \/ TelLeakLoad \/ TelLeakStore \/ TelOomCheck
             \/ TelOom \/ TelNominalMem \/ TelSensor \/ TelPublish

-----------------------------------------------------------------------------
(* Client handlers: the calls client_loop makes for one command line.      *)

FirstPc(c) == CASE c = "status"    -> "readStage"
                [] c = "reboot"    -> ClearPc[1]
                [] c \in FlagKinds -> "setFlag"
                [] c = "SEGFAULT"  -> "segfault"
                [] c = "UNKNOWN"   -> "reply"

Receive(h) ==
  /\ HandlerAt(h, "recv")
  /\ sent < MaxCommands
  /\ sent' = sent + 1
  /\ \E c \in Commands : /\ cmd' = [cmd EXCEPT ![h] = c]
                         /\ hpc' = [hpc EXCEPT ![h] = FirstPc(c)]
  /\ UNCHANGED <<simVars, nameVars, bootVars, telVars, hid, snap, mainVars, proc>>

\* The answer is sent; the locals of the command go out of scope.
Reply(h) ==
  /\ HandlerAt(h, "reply")
  /\ hpc' = [hpc EXCEPT ![h] = "recv"]
  /\ cmd' = [cmd EXCEPT ![h] = NoCommand]
  /\ hid' = [hid EXCEPT ![h] = 0]
  /\ snap' = [snap EXCEPT ![h] = NoSnap]
  /\ UNCHANGED <<simVars, nameVars, bootVars, telVars, mainVars, sent, proc>>

Goto(h, label) == hpc' = [hpc EXCEPT ![h] = label]

-----------------------------------------------------------------------------
(* inject_failure.                                                         *)

SetFlag(h) ==
  /\ HandlerAt(h, "setFlag")
  /\ flag' = [flag EXCEPT ![cmd[h]] = TRUE]
  /\ Goto(h, "nameBegin")
  /\ UNCHANGED <<bootId, stage, mem, temp, nameVars, bootVars, telVars, cmd, hid, snap,
                 mainVars, sent, proc>>

Segfault(h) ==
  /\ HandlerAt(h, "segfault")
  /\ proc' = "exit139"
  /\ UNCHANGED <<simVars, nameVars, bootVars, telVars, hdlVars, mainVars, sent>>

\* Mutant: a reboot leaves its own name behind.
NewNameOfCommand(h) == cmd[h]

\* What the handler's command assigns to active_failure_.
NewName(h) == IF cmd[h] = "reboot" THEN NoName ELSE cmd[h]

NameBegin(h) ==
  /\ HandlerAt(h, "nameBegin")
  /\ writers' = writers \cup {h}
  /\ racing' = IF writers = {} THEN racing ELSE racing \cup writers \cup {h}
  /\ Goto(h, "nameEnd")
  /\ UNCHANGED <<simVars, active, bootVars, telVars, cmd, hid, snap, mainVars, sent, proc>>

\* Two overlapping assignments leave either name or a mix.
NameEnd(h) ==
  /\ HandlerAt(h, "nameEnd")
  /\ active' \in IF h \in racing THEN {NewName(h), active, Torn} ELSE {NewName(h)}
  /\ writers' = writers \ {h}
  /\ racing' = racing \ {h}
  /\ Goto(h, IF cmd[h] = "reboot" THEN "resetStage" ELSE "reply")
  /\ UNCHANGED <<simVars, bootVars, telVars, cmd, hid, snap, mainVars, sent, proc>>

-----------------------------------------------------------------------------
(* trigger_reboot: reset(), a new boot id, and the boot thread replaced.   *)

\* Mutant: reset() forgets failure_network_delay_.
ClearFlagTwice(h) ==
  \E k \in 1..2 :
    /\ HandlerAt(h, ClearPc[k])
    /\ flag' = [flag EXCEPT ![ResetOrder[k]] = FALSE]
    /\ Goto(h, IF k = 2 THEN "nameBegin" ELSE ClearPc[k + 1])
    /\ UNCHANGED <<bootId, stage, mem, temp, nameVars, bootVars, telVars, cmd, hid,
                   snap, mainVars, sent, proc>>

ClearFlag(h) ==
  \E k \in 1..3 :
    /\ HandlerAt(h, ClearPc[k])
    /\ flag' = [flag EXCEPT ![ResetOrder[k]] = FALSE]
    /\ Goto(h, IF k = 3 THEN "nameBegin" ELSE ClearPc[k + 1])
    /\ UNCHANGED <<bootId, stage, mem, temp, nameVars, bootVars, telVars, cmd, hid,
                   snap, mainVars, sent, proc>>

ResetStage(h) ==
  /\ HandlerAt(h, "resetStage")
  /\ stage' = "BOOTLOADER"
  /\ Goto(h, "resetMem")
  /\ UNCHANGED <<bootId, mem, temp, flag, nameVars, bootVars, telVars, cmd, hid, snap,
                 mainVars, sent, proc>>

ResetMem(h) ==
  /\ HandlerAt(h, "resetMem")
  /\ mem' = InitMem
  /\ Goto(h, "resetTemp")
  /\ UNCHANGED <<bootId, stage, temp, flag, nameVars, bootVars, telVars, cmd, hid, snap,
                 mainVars, sent, proc>>

ResetTemp(h) ==
  /\ HandlerAt(h, "resetTemp")
  /\ temp' = "initial"
  /\ Goto(h, "bump")
  /\ UNCHANGED <<bootId, stage, mem, flag, nameVars, bootVars, telVars, cmd, hid, snap,
                 mainVars, sent, proc>>

\* Mutant: current_boot_id_++ returns the old value.
BumpPostfix(h) ==
  /\ HandlerAt(h, "bump")
  /\ bootId' = bootId + 1
  /\ hid' = [hid EXCEPT ![h] = bootId]
  /\ Goto(h, "joinable")
  /\ UNCHANGED <<stage, mem, temp, flag, nameVars, bootVars, telVars, cmd, snap,
                 mainVars, sent, proc>>

\* ++current_boot_id_ returns the new value.
Bump(h) ==
  /\ HandlerAt(h, "bump")
  /\ bootId' = bootId + 1
  /\ hid' = [hid EXCEPT ![h] = bootId + 1]
  /\ Goto(h, "joinable")
  /\ UNCHANGED <<stage, mem, temp, flag, nameVars, bootVars, telVars, cmd, snap,
                 mainVars, sent, proc>>

\* Mutant: the running boot thread is not detached.
JoinableIgnored(h) ==
  /\ HandlerAt(h, "joinable")
  /\ Goto(h, "spawn")
  /\ UNCHANGED <<simVars, nameVars, bootVars, telVars, cmd, hid, snap, mainVars, sent, proc>>

Joinable(h) ==
  /\ HandlerAt(h, "joinable")
  /\ Goto(h, IF handle # 0 THEN "detach" ELSE "spawn")
  /\ UNCHANGED <<simVars, nameVars, bootVars, telVars, cmd, hid, snap, mainVars, sent, proc>>

Detach(h) ==
  /\ HandlerAt(h, "detach")
  /\ handle # 0
  /\ handle' = 0
  /\ Goto(h, "spawn")
  /\ UNCHANGED <<simVars, nameVars, boots, telVars, cmd, hid, snap, mainVars, sent, proc>>

\* detach() on a handle another thread emptied throws; nothing catches it.
DetachThrows(h) ==
  /\ HandlerAt(h, "detach")
  /\ handle = 0
  /\ proc' = "terminated"
  /\ UNCHANGED <<simVars, nameVars, bootVars, telVars, hdlVars, mainVars, sent>>

Spawn(h) ==
  /\ HandlerAt(h, "spawn")
  /\ handle = 0
  /\ boots' = Append(boots, NewBoot(hid[h]))
  /\ handle' = Len(boots) + 1
  /\ Goto(h, "reply")
  /\ UNCHANGED <<simVars, nameVars, telVars, cmd, hid, snap, mainVars, sent, proc>>

\* Assigning to a joinable std::thread calls std::terminate.
SpawnTerminates(h) ==
  /\ HandlerAt(h, "spawn")
  /\ handle # 0
  /\ proc' = "terminated"
  /\ UNCHANGED <<simVars, nameVars, bootVars, telVars, hdlVars, mainVars, sent>>

-----------------------------------------------------------------------------
(* get_status_json: one load per field, in this order.                     *)

ReadStage(h) ==
  /\ HandlerAt(h, "readStage")
  /\ snap' = [snap EXCEPT ![h].stage = stage]
  /\ Goto(h, "readMem")
  /\ UNCHANGED <<simVars, nameVars, bootVars, telVars, cmd, hid, mainVars, sent, proc>>

ReadMem(h) ==
  /\ HandlerAt(h, "readMem")
  /\ snap' = [snap EXCEPT ![h].mem = mem]
  /\ Goto(h, "readTemp")
  /\ UNCHANGED <<simVars, nameVars, bootVars, telVars, cmd, hid, mainVars, sent, proc>>

ReadTemp(h) ==
  /\ HandlerAt(h, "readTemp")
  /\ snap' = [snap EXCEPT ![h].temp = temp]
  /\ Goto(h, "readActive")
  /\ UNCHANGED <<simVars, nameVars, bootVars, telVars, cmd, hid, mainVars, sent, proc>>

\* A read that overlaps an assignment sees the old name, the new or a mix.
ReadActive(h) ==
  /\ HandlerAt(h, "readActive")
  /\ \E s \in {active} \cup (IF writers = {} THEN {}
                             ELSE {Torn} \cup {NewName(w) : w \in writers}) :
        snap' = [snap EXCEPT ![h].active = s]
  /\ Goto(h, "reply")
  /\ UNCHANGED <<simVars, nameVars, bootVars, telVars, cmd, hid, mainVars, sent, proc>>

Inject(h) == SetFlag(h) \/ Segfault(h)
Assign(h) == NameBegin(h) \/ NameEnd(h)
Reboot(h) == ClearFlag(h) \/ ResetStage(h) \/ ResetMem(h) \/ ResetTemp(h) \/ Bump(h)
             \/ Joinable(h) \/ Detach(h) \/ DetachThrows(h) \/ Spawn(h)
             \/ SpawnTerminates(h)
Status(h) == ReadStage(h) \/ ReadMem(h) \/ ReadTemp(h) \/ ReadActive(h)

Execute(h) == Inject(h) \/ Assign(h) \/ Reboot(h) \/ Status(h) \/ Reply(h)

-----------------------------------------------------------------------------
(* The main thread: stop(), then the destructor at the end of main.        *)

StopBegin ==
  /\ MainAt("run")
  /\ running' = FALSE
  /\ mpc' = "joinable"
  /\ UNCHANGED <<simVars, nameVars, bootVars, telVars, hdlVars, joinee, sent, proc>>

StopJoinable ==
  /\ MainAt("joinable")
  /\ mpc' = IF handle # 0 THEN "join" ELSE "joinTelemetry"
  /\ UNCHANGED <<simVars, nameVars, bootVars, telVars, hdlVars, running, joinee, sent, proc>>

StopJoin ==
  /\ MainAt("join")
  /\ handle # 0
  /\ joinee' = handle
  /\ mpc' = "joining"
  /\ UNCHANGED <<simVars, nameVars, bootVars, telVars, hdlVars, running, sent, proc>>

\* A reboot emptied the handle after joinable(): join() throws.
StopJoinThrows ==
  /\ MainAt("join")
  /\ handle = 0
  /\ proc' = "terminated"
  /\ UNCHANGED <<simVars, nameVars, bootVars, telVars, hdlVars, mainVars, sent>>

\* join() returns and empties the handle, whatever it holds by then.
StopJoined ==
  /\ MainAt("joining")
  /\ boots[joinee].pc = "done"
  /\ handle' = 0
  /\ joinee' = 0
  /\ mpc' = "joinTelemetry"
  /\ UNCHANGED <<simVars, nameVars, boots, telVars, hdlVars, running, sent, proc>>

StopTelemetry ==
  /\ MainAt("joinTelemetry")
  /\ tpc = "exited"
  /\ mpc' = "stopped"
  /\ UNCHANGED <<simVars, nameVars, bootVars, telVars, hdlVars, running, joinee, sent, proc>>

\* ~DeviceSimulator destroys boot_thread_, which must not be joinable.
Destroy ==
  /\ MainAt("stopped")
  /\ proc' = IF handle = 0 THEN "exited" ELSE "terminated"
  /\ UNCHANGED <<simVars, nameVars, bootVars, telVars, hdlVars, mainVars, sent>>

Stopping == StopJoinable \/ StopJoin \/ StopJoinThrows \/ StopJoined
            \/ StopTelemetry \/ Destroy

-----------------------------------------------------------------------------
Ended == proc # "up" /\ UNCHANGED vars

MaxBoots == MaxCommands + 1  \* one by start(), one more for every reboot

Next == \/ \E i \in 1..MaxBoots : Boot(i)
        \/ Telemetry
        \/ \E h \in Handlers : Receive(h) \/ Execute(h)
        \/ StopBegin
        \/ Stopping
        \/ Ended

Spec == Init /\ [][Next]_vars

\* Threads that can run do run, so that each log_write on their way returns: stdout is
\* read, and so are the console connections (SocketServer has what happens otherwise).
\* Nothing obliges a client to send a command or an operator to stop the emulator.
Fairness == /\ \A i \in 1..MaxBoots : WF_vars(Boot(i))
            /\ WF_vars(Telemetry)
            /\ \A h \in Handlers : WF_vars(Execute(h))
            /\ WF_vars(Stopping)

FairSpec == Spec /\ Fairness

-----------------------------------------------------------------------------
(* Type invariant.                                                         *)

BootPcs == {"check", "store", "done"}
HandlerPcs == {"recv", "reply", "setFlag", "segfault", "nameBegin", "nameEnd",
               "clearLeak", "clearSensor", "clearNet", "resetStage", "resetMem",
               "resetTemp", "bump", "joinable", "detach", "spawn", "readStage",
               "readMem", "readTemp", "readActive"}
TelemetryPcs == {"top", "stage", "leak", "leakStore", "oomCheck", "oom", "sensor",
                 "publish", "exited"}
MainPcs  == {"run", "joinable", "join", "joining", "joinTelemetry", "stopped"}
Outcomes == {"up", "exit139", "terminated", "exited"}
Temps    == {"initial", "nominal", "timeout"}

BootThreads == [id : Nat, pc : BootPcs, next : 1..5, late : Nat]
Snapshots   == [stage  : Stages \cup {"unread"}, mem : Nat,
                temp   : Temps \cup {"unread"},
                active : Names \cup {Torn, "unread"}]

\* Every variable keeps its type: mem_usage_ a number, boot_thread_ empty or one
\* of the threads started, each thread at a place of its code (simulator.hpp).
TypeOK ==
  /\ running \in BOOLEAN
  /\ bootId \in Nat
  /\ stage \in Stages
  /\ mem \in Nat
  /\ temp \in Temps
  /\ flag \in [FlagKinds -> BOOLEAN]
  /\ active \in Names \cup {Torn}
  /\ writers \subseteq Handlers /\ racing \subseteq Handlers
  /\ boots \in Seq(BootThreads)
  /\ handle \in 0..Len(boots)
  /\ tpc \in TelemetryPcs /\ tmem \in Nat /\ ttemp \in Temps
  /\ hpc \in [Handlers -> HandlerPcs]
  /\ cmd \in [Handlers -> AllCommands \cup {NoCommand}]
  /\ hid \in [Handlers -> Nat]
  /\ snap \in [Handlers -> Snapshots]
  /\ mpc \in MainPcs
  /\ joinee \in 0..Len(boots)
  /\ sent \in 0..MaxCommands
  /\ proc \in Outcomes

-----------------------------------------------------------------------------
(* Safety.                                                                 *)

\* A reboot that has taken its id and not yet started its boot thread.
HoldsId(h) == hpc[h] \in {"joinable", "detach", "spawn"}

\* No two boot threads share an id, nor do a boot thread and a reboot about to
\* start one: whatever reboots overlap, at most one thread is the current boot
\* (++current_boot_id_ in start and trigger_reboot).
UniqueBootIds ==
  /\ \A i, j \in DOMAIN boots : boots[i].id = boots[j].id => i = j
  /\ \A h \in Handlers : HoldsId(h) =>
        /\ \A i \in DOMAIN boots : boots[i].id # hid[h]
        /\ \A g \in Handlers \ {h} : HoldsId(g) => hid[g] # hid[h]

\* A boot thread that has been superseded stores boot_stage_ at most once more:
\* the store whose test it had already passed (run_boot_sequence).
AtMostOneLateStore == \A i \in DOMAIN boots : boots[i].late <= 1

Serial == \A g, h \in Handlers : g = h

\* As long as one client sends commands and the emulator is not being stopped,
\* the detach-and-replace of boot_thread_ never calls std::terminate
\* (trigger_reboot).
SerialRebootsNeverTerminate == Serial /\ mpc = "run" => proc # "terminated"

\* With one client, the status never says "none" between two commands while a
\* failure flag is set (inject_failure and reset write both).
NoSilentFailure ==
  Serial => \A h \in Handlers :
              hpc[h] = "recv" /\ active = NoName => \A k \in FlagKinds : ~flag[k]

\* Memory exceeds the out-of-memory level by at most one step per command
\* received: an injected leak ends at the first telemetry period that finds the
\* level reached, also when resets and injections race with it (telemetry_loop).
OomBounded == mem < OomThreshold + LeakStep * (IF sent = 0 THEN 1 ELSE sent)

\* Between its store of BOOTLOADER and its new boot id a reset can be overtaken
\* by the boot it interrupts.
ResetWindow == \E h \in Handlers : hpc[h] \in {"resetMem", "resetTemp", "bump"}

\* Outside that window, and until a superseded boot makes its late store, the
\* stages follow each other in order, whatever reboots overlap
\* (run_boot_sequence, trigger_reboot).
StagesInOrder ==
  [][ (stage' # stage /\ ~ResetWindow /\ \A i \in DOMAIN boots' : boots'[i].late = 0)
      => \/ stage' = "BOOTLOADER"
         \/ \E k \in 2..4 : stage = BootStage[k - 1] /\ stage' = BootStage[k] ]_vars

-----------------------------------------------------------------------------
(* Liveness.                                                               *)

\* Once stop() has begun the process ends, with whatever reboots still run: the
\* join of the boot thread and of the telemetry thread both return (stop).
ShutdownEnds == mpc # "run" ~> proc # "up"

Ready == proc = "up" /\ running /\ stage = "READY"

\* In READY the published temperature comes to agree with the failure flag for
\* good, whatever stale sample was in flight when the flag changed
\* (telemetry_loop).
SensorConverges ==
  /\ <>[](Ready /\ flag["SENSOR_TIMEOUT"])  => <>[](temp = "timeout")
  /\ <>[](Ready /\ ~flag["SENSOR_TIMEOUT"]) => <>[](temp = "nominal")

\* A memory leak in READY always comes to an end: it reaches the out-of-memory
\* level and the telemetry thread stops it (telemetry_loop).
LeakSubsides == <>[]Ready => <>[](~flag["MEMORY_LEAK"])

\* A boot thread stores a stage at once after its test, and a later boot sleeps
\* for a second before its second test: it finds the store done, unless the
\* store has been delayed for longer than that.
StoreOutlastsSleep ==
  \E i, j \in DOMAIN boots :
     /\ boots[i].pc = "store" /\ boots[i].id < boots[j].id
     /\ \/ boots[j].next > 2
        \/ boots[j].next = 2 /\ boots[j].pc # "check"

\* If no store outlasts a sleep, every boot ends up in READY unless the emulator
\* is stopped, also when reboots interrupt it (run_boot_sequence).
BootSettles ==
  []~StoreOutlastsSleep /\ <>[](proc = "up" /\ mpc = "run") => <>[](stage = "READY")

-----------------------------------------------------------------------------
(* What the repository says of the program and the code does not do.       *)

\* The process ends by itself only through an injected failure (main.cpp).
EndsOnlyByInjectedFailure == mpc = "run" => proc \in {"up", "exit139"}
=============================================================================
