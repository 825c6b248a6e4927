--------------------------- MODULE MCPythonEmulator ---------------------------
(***************************************************************************)
(* Instances of PythonEmulator for TLC.                                    *)
(***************************************************************************)
EXTENDS PythonEmulator, TLC

CONSTANTS c1, c2, b1, b2, b3

TwoClients == {c1, c2}

BootSymmetry == Permutations({b2, b3})

\* Reboots may overlap with each other, an injection and a failing console.
RebootOrInject(c) == IF c = c1 THEN {"reboot", "SEGFAULT"} ELSE {"reboot", "MEMORY_LEAK"}

\* One client asks while another one, which may reboot the device, stalls and leaves.
WithUnsteady(c) == IF c = c1 THEN {"status"} ELSE {"reboot", "SENSOR_TIMEOUT", "status"}
=============================================================================
