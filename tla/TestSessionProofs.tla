-------------------------- MODULE TestSessionProofs --------------------------
(***************************************************************************)
(* Proofs about TestSession, for any number of tests, retries and calls.   *)
(***************************************************************************)
EXTENDS TestSession, TLAPS

Serving     == pc \in {"body", "stop", "join", "close"}
InFlight(j) == IF col[j] \in {"call", "append"} THEN 1 ELSE 0

\* The one client that is open is that of the test being served, and no later test
\* has had one.
ClientsInOrder ==
  \A k \in Tests : /\ client[k] = "open" <=> k = test /\ Serving
                   /\ k > test \/ (k = test /\ pc = "connect") => client[k] = "none"

\* The list is that of the last test that was served.
ListInOrder ==
  /\ list <= test
  /\ Serving => list = test
  /\ \A k \in Tests : client[k] # "none" => k <= list

\* A sample comes from a call: while the client is open it goes to the collector's own
\* list, and once it is closed only the call that was under way can still give one.
CallsAccounted ==
  \A j \in Tests :
     /\ client[j] # "closed" => late[j] = 0
     /\ client[j] = "closed" => late[j] + InFlight(j) <= 1
     /\ samples[j][j] + InFlight(j) <= calls[j]
     /\ \A k \in Tests : /\ k < j => samples[k][j] = 0
                         /\ k > j => samples[k][j] <= late[j]

\* A body is attempted only while attempts are left.
AttemptsLeft == pc = "body" => attempt < Retries

IInv == TypeOK /\ ClientsInOrder /\ ListInOrder /\ CallsAccounted /\ AttemptsLeft

USE TestAssumption, BoundAssumption

-----------------------------------------------------------------------------
\* The tests are numbered from one on.
LEMMA TestNumbers == /\ 1 \in Tests /\ NoList \notin Tests /\ NoList = 0
                     /\ \A k \in Tests : /\ k \in Int /\ 1 <= k
                                         /\ k < NTests => k + 1 \in Tests
  BY DEF Tests, NoList

-----------------------------------------------------------------------------
\* The invariant holds when the session starts.
LEMMA InitInv == Init => IInv
<1> SUFFICES ASSUME Init PROVE IInv
  OBVIOUS
<1>1. TypeOK
  <2>1. /\ emu \in {"up", "blocked", "down"}
        /\ pc \in {"connect", "body", "stop", "join", "close", "terminate", "done"}
        /\ collecting \in BOOLEAN
    BY DEF Init
  <2>5. test \in Tests /\ attempt \in 0..Retries /\ list \in Tests \cup {NoList}
    BY TestNumbers DEF Init
  <2>2. /\ client \in [Tests -> {"none", "open", "closed"}]
        /\ result \in [Tests -> {"none", "PASSED", "FAILED"}]
        /\ col \in [Tests -> {"none", "test", "call", "append", "sleep", "ended"}]
        /\ calls \in [Tests -> 0..MaxCalls]
    BY DEF Init
  <2>3. samples \in [Tests -> [Tests -> Nat]] /\ late \in [Tests -> Nat]
    BY DEF Init
  <2>4. \A k \in Tests : col[k] = "none" <=> client[k] = "none"
    BY DEF Init
  <2> QED BY <2>1, <2>2, <2>3, <2>4, <2>5 DEF TypeOK
<1>2. ClientsInOrder /\ ListInOrder
  BY TestNumbers DEF Init, ClientsInOrder, ListInOrder, Serving
<1>3. CallsAccounted
  BY DEF Init, CallsAccounted, InFlight
<1>4. AttemptsLeft
  BY DEF Init, AttemptsLeft
<1> QED BY <1>1, <1>2, <1>3, <1>4 DEF IInv

\* Every step of the fixtures, of a collector or of the emulator keeps it.
LEMMA NextInv == IInv /\ [Next]_vars => IInv'
<1> SUFFICES ASSUME IInv, [Next]_vars PROVE IInv'
  OBVIOUS
<1> USE DEF IInv, fixtureVars, collectorVars
<1>attempts. AttemptsLeft'
  BY DEF Next, Fixtures, ConnectFails, Connect, Body, StopCollecting, Join, Close, Terminate,
         Collector, Begin, Answer, Append, Sleep, ColGoto, Emulator, Crash, Block, NextTest, Goto,
         vars, TypeOK, AttemptsLeft
<1>0. /\ test \in Tests /\ test \in Int /\ list \in Int
      /\ \A k \in Tests : k \in Int /\ client[k] \in {"none", "open", "closed"}
      /\ client \in [Tests -> {"none", "open", "closed"}]
  BY TestNumbers DEF TypeOK
<1>1. CASE ConnectFails
  <2>1. TypeOK'
    BY TestNumbers, <1>1 DEF ConnectFails, NextTest, TypeOK
  <2>2. ClientsInOrder'
    <3> SUFFICES ASSUME NEW k \in Tests
                 PROVE  /\ client[k] = "open" <=> k = test' /\ Serving'
                        /\ k > test' \/ (k = test' /\ pc' = "connect") => client[k] = "none"
      BY <1>1 DEF ConnectFails, ClientsInOrder
    <3>1. client[k] # "open"
      BY <1>0, <1>1 DEF ConnectFails, ClientsInOrder, Serving
    <3> QED
      BY <1>0, <1>1, <3>1 DEF ConnectFails, NextTest, ClientsInOrder, Serving
  <2>3. ListInOrder'
    BY <1>0, <1>1 DEF ConnectFails, NextTest, ListInOrder, Serving
  <2>4. CallsAccounted'
    BY <1>1 DEF ConnectFails, CallsAccounted, InFlight
  <2> QED BY <1>attempts, <2>1, <2>2, <2>3, <2>4
<1>2. CASE Connect
  <2>1. TypeOK'
    BY TestNumbers, <1>2 DEF Connect, Goto, TypeOK, ClientsInOrder
  <2>2. \A k \in Tests : client'[k] = IF k = test THEN "open" ELSE client[k]
    BY <1>0, <1>2 DEF Connect
  <2>3. ClientsInOrder'
    BY <1>0, <1>2, <2>2 DEF Connect, Goto, ClientsInOrder, Serving
  <2>4. ListInOrder'
    BY <1>0, <1>2, <2>2 DEF Connect, Goto, ClientsInOrder, ListInOrder, Serving
  <2>5. CallsAccounted'
    BY TestNumbers, <1>2 DEF Connect, Goto, TypeOK, ClientsInOrder, CallsAccounted, InFlight
  <2> QED BY <1>attempts, <2>1, <2>3, <2>4, <2>5
<1>3. CASE Body \/ StopCollecting \/ Join
  <2>1. TypeOK'
    <3>1. CASE Body
      <4>1. attempt' \in 0..Retries
        BY <3>1 DEF Body, TypeOK, AttemptsLeft
      <4>2. pc' \in {"body", "stop"}
        BY <3>1 DEF Body
      <4>3. \/ result' = result
            \/ result' = [result EXCEPT ![test] = "PASSED"]
            \/ result' = [result EXCEPT ![test] = "FAILED"]
        BY <3>1 DEF Body
      <4>4. result' \in [Tests -> {"none", "PASSED", "FAILED"}]
        BY <4>3 DEF TypeOK
      <4> QED BY <3>1, <4>1, <4>2, <4>4 DEF Body, TypeOK
    <3> QED BY <1>3, <3>1 DEF StopCollecting, Join, Goto, TypeOK
  <2>2. ClientsInOrder' /\ ListInOrder'
    BY TestNumbers, <1>3 DEF Body, StopCollecting, Join, Goto, TypeOK, ClientsInOrder, ListInOrder, Serving
  <2>3. CallsAccounted'
    BY <1>3 DEF Body, StopCollecting, Join, Goto, CallsAccounted, InFlight
  <2> QED BY <1>attempts, <2>1, <2>2, <2>3
<1>4. CASE Close
  <2>1. TypeOK'
    BY TestNumbers, <1>4 DEF Close, NextTest, TypeOK, ClientsInOrder, Serving
  <2>2. ClientsInOrder'
    <3>1. \A k \in Tests : client'[k] = IF k = test THEN "closed" ELSE client[k]
      BY <1>0, <1>4 DEF Close
    <3>2. \A k \in Tests : client'[k] # "open"
      BY <1>0, <1>4, <3>1 DEF ClientsInOrder
    <3> QED
      BY <1>0, <1>4, <3>1, <3>2 DEF Close, NextTest, ClientsInOrder, Serving
  <2>4. ListInOrder'
    BY TestNumbers, <1>4 DEF Close, NextTest, TypeOK, ClientsInOrder, ListInOrder, Serving
  <2>3. CallsAccounted'
    BY TestNumbers, <1>4 DEF Close, TypeOK, ClientsInOrder, CallsAccounted, InFlight, Serving
  <2> QED BY <1>attempts, <2>1, <2>2, <2>3, <2>4
<1>5. CASE Terminate
  <2>1. TypeOK'
    BY TestNumbers, <1>5 DEF Terminate, Goto, TypeOK
  <2>2. ClientsInOrder' /\ ListInOrder' /\ CallsAccounted'
    BY <1>5 DEF Terminate, Goto, ClientsInOrder, ListInOrder, CallsAccounted, Serving, InFlight
  <2> QED BY <1>attempts, <2>1, <2>2
<1>6. ASSUME NEW j \in Tests, Begin(j) \/ Answer(j) \/ Sleep(j) PROVE IInv'
  <2>0. /\ col' \in [Tests -> {"none", "test", "call", "append", "sleep", "ended"}]
        /\ calls' \in [Tests -> 0..MaxCalls]
        /\ \A k \in Tests : col'[k] = "none" <=> col[k] = "none"
    BY <1>6 DEF Begin, Answer, Sleep, ColGoto, TypeOK
  <2>1. TypeOK'
    BY <1>6, <2>0 DEF Begin, Answer, Sleep, TypeOK
  <2>2. ClientsInOrder' /\ ListInOrder'
    BY <1>6 DEF Begin, Answer, Sleep, ClientsInOrder, ListInOrder, Serving
  <2>3. CallsAccounted'
    <3>1. /\ client' = client /\ late' = late /\ samples' = samples
          /\ \A i \in Tests : i # j => col'[i] = col[i] /\ calls'[i] = calls[i]
      BY <1>6 DEF Begin, Answer, Sleep, ColGoto, TypeOK
    <3>2. \/ InFlight(j)' <= InFlight(j) /\ calls'[j] = calls[j]
          \/ client[j] = "open" /\ InFlight(j) = 0 /\ InFlight(j)' = 1 /\ calls'[j] = calls[j] + 1
      BY <1>6 DEF Begin, Answer, Sleep, ColGoto, TypeOK, InFlight
    <3> SUFFICES ASSUME NEW i \in Tests
                 PROVE  /\ client[i] # "closed" => late[i] = 0
                        /\ client[i] = "closed" => late[i] + InFlight(i)' <= 1
                        /\ samples[i][i] + InFlight(i)' <= calls'[i]
                        /\ \A k \in Tests : /\ k < i => samples[k][i] = 0
                                            /\ k > i => samples[k][i] <= late[i]
      BY <3>1 DEF CallsAccounted
    <3>3. /\ InFlight(i) \in Int /\ InFlight(i)' \in Int /\ late[i] \in Int
          /\ samples[i][i] \in Int /\ calls[i] \in Int
          /\ i # j => InFlight(i)' = InFlight(i)
      BY <3>1 DEF InFlight, TypeOK
    <3>4. CASE i # j
      BY <3>1, <3>3, <3>4 DEF CallsAccounted
    <3>5. CASE i = j
      BY <3>2, <3>3, <3>5 DEF CallsAccounted, InFlight
    <3> QED BY <3>4, <3>5
  <2> QED BY <1>attempts, <2>1, <2>2, <2>3
<1>7. ASSUME NEW j \in Tests, Append(j) PROVE IInv'
  <2>1. /\ list \in Tests /\ j <= list
        /\ client[j] = "open" => list = j
        /\ client[j] # "open" => client[j] = "closed"
    <3>1. client[j] # "none" /\ list \in Tests \cup {NoList}
      BY <1>7 DEF Append, ColGoto, TypeOK
    <3> QED BY <1>0, <3>1, TestNumbers DEF ClientsInOrder, ListInOrder
  <2>2. TypeOK'
    BY TestNumbers, <1>7, <2>1 DEF Append, ColGoto, TypeOK
  <2>3. ClientsInOrder' /\ ListInOrder'
    BY <1>7 DEF Append, ClientsInOrder, ListInOrder, Serving
  <2>4. ASSUME NEW i \in Tests, i # j PROVE \A k \in Tests : samples'[k][i] = samples[k][i]
    BY <1>7, <2>1, <2>4 DEF Append, TypeOK
  <2>5. \A k \in Tests : samples'[k][j] = IF k = list THEN samples[k][j] + 1 ELSE samples[k][j]
    BY <1>7, <2>1 DEF Append, TypeOK
  <2>6. ASSUME NEW i \in Tests, i # j
        PROVE /\ late'[i] = late[i] /\ InFlight(i)' = InFlight(i)
    BY <1>7, <2>6 DEF Append, ColGoto, TypeOK, InFlight
  <2>7. /\ InFlight(j) = 1 /\ InFlight(j)' = 0
        /\ late'[j] = IF client[j] = "closed" THEN late[j] + 1 ELSE late[j]
    BY <1>7 DEF Append, ColGoto, TypeOK, InFlight
  <2>8. CallsAccounted'
    <3> SUFFICES ASSUME NEW i \in Tests
                 PROVE  /\ client[i] # "closed" => late'[i] = 0
                        /\ client[i] = "closed" => late'[i] + InFlight(i)' <= 1
                        /\ samples'[i][i] + InFlight(i)' <= calls[i]
                        /\ \A k \in Tests : /\ k < i => samples'[k][i] = 0
                                            /\ k > i => samples'[k][i] <= late'[i]
      BY <1>7 DEF Append, CallsAccounted
    <3>1. CASE i # j
      BY <3>1, <2>4, <2>6 DEF CallsAccounted
    <3>2. CASE i = j
      <4>1. /\ late[j] \in Int /\ calls[j] \in Int
            /\ \A k \in Tests : samples[k][j] \in Int
        BY DEF TypeOK
      <4> HIDE DEF InFlight
      <4> QED BY <1>0, <3>2, <2>1, <2>5, <2>7, <4>1 DEF CallsAccounted
    <3> QED BY <3>1, <3>2
  <2> QED BY <1>attempts, <2>2, <2>3, <2>8
<1>8. CASE Emulator
  BY <1>attempts, <1>8 DEF Emulator, Crash, Block, TypeOK, ClientsInOrder, ListInOrder, CallsAccounted,
              Serving, InFlight
<1>9. CASE UNCHANGED vars
  BY <1>attempts, <1>9 DEF vars, TypeOK, ClientsInOrder, ListInOrder, CallsAccounted, Serving, InFlight
<1> QED
  BY <1>1, <1>2, <1>3, <1>4, <1>5, <1>6, <1>7, <1>8, <1>9 DEF Next, Fixtures, Collector

\* The fixtures, the collectors and what they share keep their types in every session.
THEOREM TypeCorrect == Spec => []TypeOK
<1>1. IInv => TypeOK
  BY DEF IInv
<1> QED
  BY <1>1, InitInv, NextInv, PTL DEF Spec

\* In a session of any length a collector takes at most one sample after its client
\* was closed, and a list has at most one sample from each earlier test's collector.
THEOREM LateSamplesAreBounded == Spec => []LateSamplesBounded
<1>1. IInv => LateSamplesBounded
  <2> SUFFICES ASSUME IInv, NEW j \in Tests
               PROVE  /\ late[j] <= 1
                      /\ \A k \in Tests : samples[k][j] <= (IF k < j THEN 0
                                                            ELSE IF k = j THEN MaxCalls ELSE 1)
    BY DEF LateSamplesBounded
  <2>1. late[j] <= 1
    BY DEF IInv, TypeOK, CallsAccounted, InFlight
  <2>2. ASSUME NEW k \in Tests
        PROVE  samples[k][j] <= (IF k < j THEN 0 ELSE IF k = j THEN MaxCalls ELSE 1)
    <3>1. samples[j][j] <= MaxCalls
      BY DEF IInv, TypeOK, CallsAccounted, InFlight
    <3> QED
      <4>1. /\ k \in Int /\ j \in Int /\ late[j] \in Int /\ samples[k][j] \in Int
        BY TestNumbers DEF IInv, TypeOK
      <4> QED BY <2>1, <3>1, <4>1 DEF IInv, CallsAccounted
  <2> QED BY <2>1, <2>2
<1> QED
  BY <1>1, InitInv, NextInv, PTL DEF Spec
=============================================================================
