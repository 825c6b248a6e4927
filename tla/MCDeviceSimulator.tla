-------------------------- MODULE MCDeviceSimulator --------------------------
(***************************************************************************)
(* Instances of DeviceSimulator for TLC.                                   *)
(***************************************************************************)
EXTENDS DeviceSimulator, TLC

CONSTANTS h1, h2

OneClient  == {h1}
TwoClients == {h1, h2}
ClientSymmetry == Permutations(TwoClients)

\* mem_usage_ in units of the leak, with the out-of-memory level three of them above a
\* reset (25%, 24%..28%, 6.5% and 95% in the code).
NearInitMem      == 0
NearNominalMem   == {1}
NearLeakStep     == 1
NearOomThreshold == 3

\* Command mixes.
Reboots        == {"reboot"}
SensorReboots  == {"reboot", "SENSOR_TIMEOUT"}
=============================================================================
