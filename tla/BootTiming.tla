------------------------------ MODULE BootTiming ------------------------------
(***************************************************************************)
(* The boot test (tests/test_boot.py) and the boot it watches, in time.    *)
(* Every call of the client sends its command, waits out its timeout and   *)
(* sends it again (automation/device_client.py); the second answer is the  *)
(* one returned.  A boot stays in each stage for the length of a sleep     *)
(* (embedded_app/device_emulator.py, simulator.cpp).                       *)
(*                                                                         *)
(* Timers count down; whatever is due is done at most Jitter late, and     *)
(* what takes much less than a unit of time takes none.                    *)
(***************************************************************************)
EXTENDS Integers

CONSTANTS
  SleepIn(_),   \* how long a boot stays in a stage
  Timeout,      \* of send_command
  Window,       \* how long the test polls
  TooLong,      \* boot durations it does not accept
  Retries,      \* attempts
  Jitter        \* bound: how late anything due is done

READY     == 4
Stages    == 1..READY
Traversed == {1, 2, 3}   \* BOOTLOADER, KERNEL_INIT, SERVICES_START

VARIABLES
  stage, sleep,    \* the current boot: its stage and what is left of its sleep
  pc,              \* the test: "reboot", "rebooting", "poll", "asking", "judge", ...
  wait,            \* what is left of the timeout of the call under way
  since,           \* time since start_time
  seen,            \* stages_seen
  attempt

vars == <<stage, sleep, pc, wait, since, seen, attempt>>

Init == /\ stage = READY /\ sleep = 0
        /\ pc = "reboot" /\ wait = 0 /\ since = 0 /\ seen = {} /\ attempt = 1

-----------------------------------------------------------------------------
\* A reset ends the boot under way; sleeping threads notice when they wake.
Reset == stage' = 1 /\ sleep' = SleepIn(1)

BootGoesOn ==
  /\ stage < READY /\ sleep <= 0
  /\ stage' = stage + 1
  /\ sleep' = IF stage' = READY THEN 0 ELSE SleepIn(stage')
  /\ UNCHANGED <<pc, wait, since, seen, attempt>>

\* reboot(): the first copy of the command, and the timeout.
Reboot ==
  /\ pc = "reboot" /\ pc' = "rebooting"
  /\ Reset
  /\ wait' = Timeout
  /\ UNCHANGED <<since, seen, attempt>>

\* The second copy: start_time is taken when it has been answered.
RebootAgain ==
  /\ pc = "rebooting" /\ wait <= 0
  /\ pc' = "poll" /\ wait' = 0
  /\ Reset
  /\ since' = 0 /\ seen' = {}
  /\ UNCHANGED attempt

\* get_status(): the answer to the first copy is a line of the console log.
Ask ==
  /\ pc = "poll"
  /\ IF since < Window THEN pc' = "asking" /\ wait' = Timeout
                       ELSE pc' = "judge" /\ UNCHANGED wait
  /\ UNCHANGED <<stage, sleep, since, seen, attempt>>

Answer ==
  /\ pc = "asking" /\ wait <= 0
  /\ seen' = seen \cup {stage}
  /\ pc' = IF stage = READY THEN "judge" ELSE "poll"
  /\ wait' = 0
  /\ UNCHANGED <<stage, sleep, since, attempt>>

Judge ==
  /\ pc = "judge"
  /\ \/ READY \in seen /\ since < TooLong /\ Traversed \subseteq seen
        /\ pc' = "passed" /\ UNCHANGED attempt
     \/ ~(READY \in seen /\ since < TooLong /\ Traversed \subseteq seen)
        /\ IF attempt < Retries THEN pc' = "reboot" /\ attempt' = attempt + 1
                                ELSE pc' = "failed" /\ UNCHANGED attempt
  /\ UNCHANGED <<stage, sleep, wait, since, seen>>

Test == Reboot \/ RebootAgain \/ Ask \/ Answer \/ Judge

Ended == pc \in {"passed", "failed"}

\* Time passes while nothing is overdue.
Tick ==
  /\ ~Ended
  /\ stage < READY => sleep > -Jitter
  /\ pc \in {"rebooting", "asking"} /\ wait > -Jitter
  /\ sleep' = IF stage < READY THEN sleep - 1 ELSE sleep
  /\ wait' = wait - 1
  /\ since' = since + 1
  /\ UNCHANGED <<stage, pc, seen, attempt>>

Next == Test \/ BootGoesOn \/ Tick \/ (Ended /\ UNCHANGED vars)

Spec == Init /\ [][Next]_vars

-----------------------------------------------------------------------------
\* A boot that goes through its stages in time passes the test: "Check that it
\* traversed main stages" (tests/test_boot.py).
BootTestPasses == pc # "failed"
=============================================================================
