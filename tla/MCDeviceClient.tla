---------------------------- MODULE MCDeviceClient ----------------------------
(***************************************************************************)
(* Instances of DeviceClient for TLC.                                      *)
(***************************************************************************)
EXTENDS DeviceClient, TLC

CONSTANTS test, collector

Threads == {test, collector}

\* A command the emulator survives, and the one it does not.
Mixed   == {"reboot", "SEGFAULT"}
=============================================================================
