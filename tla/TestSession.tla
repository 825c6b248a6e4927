----------------------------- MODULE TestSession -----------------------------
(***************************************************************************)
(* The fixtures of tests/conftest.py around a sequence of tests: a client  *)
(* and a collector thread for each test, one emulator process for all, and *)
(* the globals COLLECTING and CURRENT_TEST_METRICS, which collectors read  *)
(* without knowing which test they are of.  A status call takes five       *)
(* seconds at least and the fixture waits one for its collector, so that   *)
(* collectors outlive their tests.  A body is attempted as test_case of    *)
(* automation/test_runner.py does.                                         *)
(*                                                                         *)
(* The emulator may exit, and it may block: nobody reads the pipe behind   *)
(* its stdout, and when that is full every command that logs waits.        *)
(***************************************************************************)
EXTENDS Integers

CONSTANTS
  NTests,     \* tests of the session, run in this order
  Retries,    \* attempts per test
  MaxCalls    \* bound: status calls per collector that are answered

ASSUME TestAssumption  == NTests \in Nat \ {0} /\ Retries \in Nat \ {0}
ASSUME BoundAssumption == MaxCalls \in Nat

Tests  == 1..NTests
NoList == 0

VARIABLES
  emu,          \* the emulator: "up", "blocked" or "down"
  test, pc,     \* the fixtures: the test they are at, and where
  attempt,      \* attempts made at its body
  collecting,   \* COLLECTING
  list,         \* CURRENT_TEST_METRICS: the test it was made for
  client,       \* per test, its client: "none", "open" or "closed"
  result,       \* TEST_METRICS: the outcome of each test
  col,          \* per test, its collector
  calls,        \* status calls it made
  samples,      \* samples[k][j]: samples in the list of k by the collector of j
  late          \* history: samples taken after the collector's client was closed

fixtureVars   == <<test, pc, attempt, client, result>>
collectorVars == <<col, calls, samples, late>>
vars == <<emu, collecting, list, fixtureVars, collectorVars>>

Init ==
  /\ emu = "up"
  /\ test = 1 /\ pc = "connect" /\ attempt = 0
  /\ collecting = FALSE /\ list = NoList
  /\ client = [k \in Tests |-> "none"]
  /\ result = [k \in Tests |-> "none"]
  /\ col = [k \in Tests |-> "none"]
  /\ calls = [k \in Tests |-> 0]
  /\ samples = [k \in Tests |-> [j \in Tests |-> 0]]
  /\ late = [k \in Tests |-> 0]

-----------------------------------------------------------------------------
(* The fixtures and the test bodies.                                       *)

Goto(from, to) == pc = from /\ pc' = to

NextTest == IF test < NTests THEN test' = test + 1 /\ pc' = "connect"
                             ELSE UNCHANGED test /\ pc' = "terminate"

\* Mutant: a client that cannot connect is used all the same.
ConnectFailsUnnoticed ==
  /\ Goto("connect", "body") /\ emu = "down"
  /\ attempt' = 0
  /\ UNCHANGED <<emu, test, collecting, list, client, result, collectorVars>>

\* A test whose client cannot connect leaves no result and is not counted.
ConnectFails ==
  /\ pc = "connect" /\ emu = "down"
  /\ NextTest
  /\ UNCHANGED <<emu, attempt, collecting, list, client, result, collectorVars>>

Connect ==
  /\ Goto("connect", "body") /\ emu # "down"
  /\ client' = [client EXCEPT ![test] = "open"]
  /\ list' = test /\ collecting' = TRUE
  /\ col' = [col EXCEPT ![test] = "test"]
  /\ attempt' = 0
  /\ UNCHANGED <<emu, test, result, calls, samples, late>>

\* Bodies send commands that log, which wait when the emulator is blocked, and need
\* their answers; a body is attempted until it passes or its retries are used up.
Body ==
  /\ pc = "body" /\ emu # "blocked"
  /\ attempt' = attempt + 1
  /\ \/ /\ emu = "up"
        /\ result' = [result EXCEPT ![test] = "PASSED"] /\ pc' = "stop"
     \/ IF attempt' < Retries THEN UNCHANGED <<result, pc>>
        ELSE result' = [result EXCEPT ![test] = "FAILED"] /\ pc' = "stop"
  /\ UNCHANGED <<emu, test, collecting, list, client, collectorVars>>

\* Mutant: COLLECTING stays set.
StopCollectingNot ==
  /\ Goto("stop", "join")
  /\ UNCHANGED <<emu, collecting, list, test, attempt, client, result, collectorVars>>

StopCollecting ==
  /\ Goto("stop", "join")
  /\ collecting' = FALSE
  /\ UNCHANGED <<emu, list, test, attempt, client, result, collectorVars>>

\* join(timeout=1): in that second the collectors that sleep, for 0.3 seconds, look
\* at COLLECTING, and only a call can last longer.
Join ==
  /\ Goto("join", "close")
  /\ \/ col[test] = "ended"
     \/ \A k \in Tests : col[k] \in {"none", "call", "ended"}
  /\ UNCHANGED <<emu, collecting, list, test, attempt, client, result, collectorVars>>

\* The averages are taken over what the list holds by now.
Close ==
  /\ pc = "close"
  /\ client' = [client EXCEPT ![test] = "closed"]
  /\ NextTest
  /\ UNCHANGED <<emu, attempt, collecting, list, result, collectorVars>>

\* terminate(), and kill() if that takes more than three seconds.
Terminate ==
  /\ Goto("terminate", "done")
  /\ emu' = "down"
  /\ UNCHANGED <<collecting, list, test, attempt, client, result, collectorVars>>

Fixtures == \/ ConnectFails \/ Connect \/ Body
            \/ StopCollecting \/ Join \/ Close
            \/ Terminate

-----------------------------------------------------------------------------
(* The collector threads.                                                  *)

ColGoto(k, from, to) == col[k] = from /\ col' = [col EXCEPT ![k] = to]

\* Mutant: a closed client is called all the same.
BeginClosed(k) ==
  /\ \/ ~collecting /\ ColGoto(k, "test", "ended") /\ UNCHANGED calls
     \/ /\ collecting /\ calls[k] < MaxCalls
        /\ ColGoto(k, "test", "call")
        /\ calls' = [calls EXCEPT ![k] = @ + 1]
     \/ collecting /\ ColGoto(k, "test", "sleep") /\ UNCHANGED calls
  /\ UNCHANGED <<emu, collecting, list, fixtureVars, samples, late>>

\* The loop's test and get_status(), which gives up at once on a client that is
\* closed, or when sending fails.
Begin(k) ==
  /\ \/ ~collecting /\ ColGoto(k, "test", "ended") /\ UNCHANGED calls
     \/ /\ collecting /\ client[k] = "open" /\ calls[k] < MaxCalls
        /\ ColGoto(k, "test", "call")
        /\ calls' = [calls EXCEPT ![k] = @ + 1]
     \/ collecting /\ ColGoto(k, "test", "sleep") /\ UNCHANGED calls
  /\ UNCHANGED <<emu, collecting, list, fixtureVars, samples, late>>

\* The second copy of the command goes out on a socket of its own, also when the
\* client has been closed by now.  A blocked emulator may answer it, too: the Python
\* one does, the C++ one prints the command first and waits there.
Answer(k) ==
  /\ IF emu = "down" THEN ColGoto(k, "call", "sleep") ELSE ColGoto(k, "call", "append")
  /\ UNCHANGED <<emu, collecting, list, fixtureVars, calls, samples, late>>

\* The sample goes to the list of whatever test is current.
Append(k) ==
  /\ ColGoto(k, "append", "sleep")
  /\ samples' = [samples EXCEPT ![list][k] = @ + 1]
  /\ late' = [late EXCEPT ![k] = IF client[k] = "closed" THEN @ + 1 ELSE @]
  /\ UNCHANGED <<emu, collecting, list, fixtureVars, calls>>

Sleep(k) ==
  /\ ColGoto(k, "sleep", "test")
  /\ UNCHANGED <<emu, collecting, list, fixtureVars, calls, samples, late>>

Collector(k) == Begin(k) \/ Answer(k) \/ Append(k) \/ Sleep(k)

-----------------------------------------------------------------------------
(* The emulator process.                                                   *)

Crash == emu' = "down" /\ emu # "down"
Block == emu = "up" /\ emu' = "blocked"

Emulator == (Crash \/ Block) /\ UNCHANGED <<collecting, list, fixtureVars, collectorVars>>

-----------------------------------------------------------------------------
Next == Fixtures \/ (\E k \in Tests : Collector(k)) \/ Emulator

Spec == Init /\ [][Next]_vars

\* pytest's main thread and the collectors run, except that a call on a blocked
\* emulator need not return; nothing has to crash or block.
CanReturn(k) == ~(emu = "blocked" /\ col[k] = "call")
Fairness == /\ WF_vars(Fixtures)
            /\ \A k \in Tests : WF_vars(CanReturn(k) /\ Collector(k))

FairSpec == Spec /\ Fairness

-----------------------------------------------------------------------------
\* The list a collector appends to exists, and a test's collector exists as long as
\* its client does (device_client, collect_metrics).
TypeOK ==
  /\ emu \in {"up", "blocked", "down"}
  /\ test \in Tests
  /\ pc \in {"connect", "body", "stop", "join", "close", "terminate", "done"}
  /\ attempt \in 0..Retries
  /\ collecting \in BOOLEAN /\ list \in Tests \cup {NoList}
  /\ client \in [Tests -> {"none", "open", "closed"}]
  /\ result \in [Tests -> {"none", "PASSED", "FAILED"}]
  /\ col \in [Tests -> {"none", "test", "call", "append", "sleep", "ended"}]
  /\ calls \in [Tests -> 0..MaxCalls]
  /\ samples \in [Tests -> [Tests -> Nat]] /\ late \in [Tests -> Nat]
  /\ \A k \in Tests : col[k] = "none" <=> client[k] = "none"

\* Collectors that outlive their tests spoil little: each takes at most one sample
\* after its client was closed, so that of the samples in a list at most one comes
\* from each earlier test and none from a later one (collect_metrics,
\* send_command).
LateSamplesBounded ==
  \A j \in Tests : /\ late[j] <= 1
                   /\ \A k \in Tests : samples[k][j] <= (IF k < j THEN 0
                                                         ELSE IF k = j THEN MaxCalls ELSE 1)

\* A session ends and leaves no collector behind, whether its tests pass or fail and
\* whenever the emulator exits, unless the emulator blocks for good: then a command
\* that logs is waited for without a timeout (device_client, test_case,
\* target_emulator).
SessionEnds ==
  \/ []<>(emu = "blocked")
  \/ <>(pc = "done" /\ \A k \in Tests : col[k] \in {"none", "ended"})
=============================================================================
