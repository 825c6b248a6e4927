----------------------------- MODULE ConsoleCalls -----------------------------
(***************************************************************************)
(* What DeviceClient.send_command (automation/device_client.py) delivers   *)
(* to its callers, without sockets: a call may be carried out by the       *)
(* device up to twice, also after it has returned; it returns the answer   *)
(* to itself, and then it has been carried out, or nothing, which says     *)
(* nothing.                                                                *)
(***************************************************************************)
EXTENDS Integers

CONSTANTS
  Callers,    \* threads that call send_command
  MaxCalls,   \* bound: calls per thread
  NoCaller    \* not a thread

CallIds == Callers \X (1..MaxCalls)
Empty   == <<NoCaller, 1>>   \* the answer ""

VARIABLES
  made,   \* calls made by each thread
  busy,   \* threads in a call
  ran,    \* how often each call was carried out
  ret     \* what the last call of each thread returned

Init == /\ made = [t \in Callers |-> 0]
        /\ busy = {}
        /\ ran = [id \in CallIds |-> 0]
        /\ ret = [t \in Callers |-> Empty]

\* A call begins, or returns at once because the client is not connected.
Begin(t) ==
  /\ t \notin busy
  /\ made[t] < MaxCalls
  /\ made' = [made EXCEPT ![t] = @ + 1]
  /\ busy' = busy \cup {t}
  /\ UNCHANGED <<ran, ret>>

Refuse(t) ==
  /\ t \notin busy
  /\ made[t] < MaxCalls
  /\ made' = [made EXCEPT ![t] = @ + 1]
  /\ ret' = [ret EXCEPT ![t] = Empty]
  /\ UNCHANGED <<busy, ran>>

CarryOut(id) ==
  /\ made[id[1]] >= id[2]
  /\ ran[id] < 2
  /\ ran' = [ran EXCEPT ![id] = @ + 1]
  /\ UNCHANGED <<made, busy, ret>>

Return(t) ==
  /\ t \in busy
  /\ busy' = busy \ {t}
  /\ \/ ret' = [ret EXCEPT ![t] = Empty]
     \/ /\ ran[<<t, made[t]>>] > 0
        /\ ret' = [ret EXCEPT ![t] = <<t, made[t]>>]
  /\ UNCHANGED <<made, ran>>

Next == \/ \E t \in Callers : Begin(t) \/ Refuse(t) \/ Return(t)
        \/ \E id \in CallIds : CarryOut(id)

Spec == Init /\ [][Next]_<<made, busy, ran, ret>>
=============================================================================
