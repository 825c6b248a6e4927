----------------------------- MODULE MCBootTiming -----------------------------
(***************************************************************************)
(* BootTiming for TLC, in halves of a second.                              *)
(***************************************************************************)
EXTENDS BootTiming

\* 1.0 s, 1.5 s and 1.0 s.
SleepsOfTheCode(s) == IF s = 2 THEN 3 ELSE 2
=============================================================================
