--------------------------- MODULE BootTimingProofs ---------------------------
(***************************************************************************)
(* Why the boot test fails: not by the numbers of one instance, but        *)
(* whenever the first stage of a boot is shorter than the timeout of the   *)
(* client.  The length of the other stages, the window, the accepted       *)
(* duration and the number of attempts do not matter.                      *)
(***************************************************************************)
EXTENDS BootTiming, TLAPS

BOOTLOADER == 1

\* What the clock and the boot can be, of what the argument needs.
TimerType ==
  /\ stage \in Stages /\ sleep \in Int /\ wait \in Int
  /\ stage < READY => sleep >= -Jitter

\* As long as a boot is in its first stage, the call that watches it has waited no
\* less than the boot has slept.
FirstStageWatched ==
  stage = BOOTLOADER =>
    /\ pc = "poll" => sleep <= SleepIn(1)
    /\ pc = "asking" => sleep - wait <= SleepIn(1) - Timeout

TimingInv == /\ TimerType /\ FirstStageWatched
             /\ BOOTLOADER \notin seen /\ pc # "passed"

\* Each action; a reset comes with a timeout that begins after it.
LEMMA TimingNext ==
  ASSUME \A s \in Traversed : SleepIn(s) \in Nat, Timeout \in Nat, Jitter \in Nat,
         SleepIn(1) + Jitter < Timeout,
         TimingInv, [Next]_vars
  PROVE  TimingInv'
<1> USE DEF BOOTLOADER, READY, Stages, Traversed
<1>0. SleepIn(1) \in Nat /\ SleepIn(2) \in Nat /\ SleepIn(3) \in Nat
  OBVIOUS
<1>1. CASE BootGoesOn
  <2>1. stage' = stage + 1 /\ stage' \in {2, 3, 4} /\ stage < READY
    BY <1>1 DEF BootGoesOn, TimingInv, TimerType
  <2>2. sleep' \in Nat
    BY <1>0, <1>1, <2>1 DEF BootGoesOn
  <2> QED
    BY <1>1, <2>1, <2>2 DEF BootGoesOn, TimingInv, TimerType, FirstStageWatched
<1>2. CASE Reboot
  BY <1>0, <1>2 DEF Reboot, Reset, TimingInv, TimerType, FirstStageWatched
<1>3. CASE RebootAgain
  BY <1>0, <1>3 DEF RebootAgain, Reset, TimingInv, TimerType, FirstStageWatched
<1>4. CASE Ask
  BY <1>0, <1>4 DEF Ask, TimingInv, TimerType, FirstStageWatched
<1>5. CASE Answer
  <2>1. stage # BOOTLOADER
    BY <1>0, <1>5 DEF Answer, TimingInv, TimerType, FirstStageWatched
  <2> QED
    BY <1>5, <2>1 DEF Answer, TimingInv, TimerType, FirstStageWatched
<1>6. CASE Judge
  BY <1>6 DEF Judge, TimingInv, TimerType, FirstStageWatched
<1>7. CASE Tick
  BY <1>0, <1>7 DEF Tick, TimingInv, TimerType, FirstStageWatched
<1>8. CASE UNCHANGED vars
  BY <1>8 DEF vars, TimingInv, TimerType, FirstStageWatched
<1> QED
  BY <1>1, <1>2, <1>3, <1>4, <1>5, <1>6, <1>7, <1>8 DEF Next, Test

\* The boot test cannot pass, and no attempt of it sees the bootloader, when the first
\* sleep of a boot, done as late as it may, ends before the client's timeout does: a
\* second against five (tests/test_boot.py, automation/device_client.py).
THEOREM BootloaderIsNeverSeen ==
  ASSUME \A s \in Traversed : SleepIn(s) \in Nat, Timeout \in Nat, Jitter \in Nat,
         SleepIn(1) + Jitter < Timeout
  PROVE  Spec => [](BOOTLOADER \notin seen /\ pc # "passed")
<1>1. Init => TimingInv
  BY DEF Init, TimingInv, TimerType, FirstStageWatched, BOOTLOADER, READY, Stages
<1>2. TimingInv /\ [Next]_vars => TimingInv'
  BY TimingNext
<1>3. TimingInv => BOOTLOADER \notin seen /\ pc # "passed"
  BY DEF TimingInv
<1> QED
  BY <1>1, <1>2, <1>3, PTL DEF Spec
=============================================================================
