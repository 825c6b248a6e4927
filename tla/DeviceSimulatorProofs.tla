------------------------ MODULE DeviceSimulatorProofs ------------------------
(***************************************************************************)
(* Theorems about DeviceSimulator for any number of handlers, any number   *)
(* of commands and any memory parameters.                                  *)
(***************************************************************************)
EXTENDS DeviceSimulator, SequenceTheorems, FiniteSetTheorems, TLAPS

USE DEF simVars, nameVars, bootVars, telVars, hdlVars, mainVars,
        BootAt, TelemetryAt, HandlerAt, MainAt, Goto, Constructed, Started

-----------------------------------------------------------------------------
(* Type correctness.                                                       *)

\* A boot thread that is not done has a stage left to store.
BootsInRange == \A i \in DOMAIN boots : boots[i].pc # "done" => boots[i].next \in 1..4

\* Where a handler is tells which commands it can be executing.
CommandsInPlace ==
  \A h \in Handlers :
    /\ hpc[h] = "setFlag" => cmd[h] \in FlagKinds
    /\ hpc[h] \in {"clearLeak", "clearSensor", "clearNet"} => cmd[h] = "reboot"
    /\ hpc[h] \in {"nameBegin", "nameEnd"} => cmd[h] \in FlagKinds \cup {"reboot"}
    /\ h \in writers => hpc[h] = "nameEnd"

TypeInv == TypeOK /\ BootsInRange /\ CommandsInPlace

\* The two updates a boot thread makes of its own record.
LEMMA BootChecked ==
  ASSUME NEW r \in BootThreads, NEW p \in BootPcs
  PROVE  [r EXCEPT !.pc = p] \in BootThreads
BY DEF BootThreads

\* ... and what BootStore leaves is a boot thread again.
LEMMA BootStored ==
  ASSUME NEW r \in BootThreads, r.next \in 1..4, NEW p \in BootPcs, NEW l \in Nat
  PROVE  [r EXCEPT !.pc = p, !.next = @ + 1, !.late = l] \in BootThreads
<1>1. r.next + 1 \in 1..5
  BY DEF BootThreads
<1> HIDE DEF BootPcs
<1> QED
  BY <1>1 DEF BootThreads

\* start() leaves every variable with its type and every thread in its place.
LEMMA TypeInit == Init => TypeInv
<1> SUFFICES ASSUME Init PROVE TypeInv
  OBVIOUS
<1>1. boots \in Seq(BootThreads)
  <2>1. NewBoot(1) \in BootThreads
    BY DEF NewBoot, BootThreads, BootPcs
  <2> QED
    BY <2>1 DEF Init
<1>2. snap \in [Handlers -> Snapshots]
  BY DEF Init, NoSnap, Snapshots
<1>3. TypeOK
  BY <1>1, <1>2, MemAssumption, BoundAssumption
  DEF Init, TypeOK, Stages, FlagKinds, Names, NoName, TelemetryPcs, HandlerPcs, MainPcs,
      Outcomes, Temps, NoCommand, AllCommands
<1>4. BootsInRange /\ CommandsInPlace
  BY DEF Init, BootsInRange, CommandsInPlace, NewBoot
<1> QED
  BY <1>3, <1>4 DEF TypeInv

\* One step per action, one below it for each part of TypeInv.
LEMMA TypeStep == TypeInv /\ [Next]_vars => TypeInv'
<1> SUFFICES ASSUME TypeInv, [Next]_vars PROVE TypeInv'
  OBVIOUS
<1> USE DEF TypeInv
<1>1. ASSUME NEW i \in 1..MaxBoots, BootCheck(i) PROVE TypeInv'
  <2> DEFINE p == IF Wanted(i) THEN "store" ELSE "done"
             b == [boots[i] EXCEPT !.pc = p]
  <2>4. boots \in Seq(BootThreads) /\ i \in 1..Len(boots)
    BY <1>1 DEF BootCheck, TypeOK
  <2>10. boots[i] \in BootThreads
    BY <2>4, ElementOfSeq
  <2>11. p \in BootPcs
    BY DEF BootPcs
  <2>5. b \in BootThreads
    BY ONLY <2>10, <2>11, BootChecked
  <2>6. boots' = [boots EXCEPT ![i] = b]
    BY <1>1 DEF BootCheck
  <2>7. boots' \in Seq(BootThreads) /\ Len(boots') = Len(boots)
    BY <2>4, <2>5, <2>6, ExceptSeq
  <2>1. TypeOK'
    BY <1>1, <2>7 DEF BootCheck, TypeOK
  <2>2. BootsInRange'
    BY <1>1 DEF BootCheck, TypeOK, BootThreads, BootsInRange, Wanted
  <2>3. CommandsInPlace'
    BY <1>1 DEF BootCheck, CommandsInPlace
  <2> QED
    BY <2>1, <2>2, <2>3
<1>2. ASSUME NEW i \in 1..MaxBoots, BootStore(i) PROVE TypeInv'
  <2> DEFINE p == IF boots[i].next = 4 THEN "done" ELSE "check"
             l == IF boots[i].id = bootId THEN boots[i].late ELSE boots[i].late + 1
             b == [boots[i] EXCEPT !.pc = p, !.next = @ + 1, !.late = l]
  <2>4. boots \in Seq(BootThreads) /\ i \in 1..Len(boots)
    BY <1>2 DEF BootStore, TypeOK
  <2>5. boots[i] \in BootThreads /\ boots[i].next \in 1..4
    BY <1>2, <2>4, ElementOfSeq DEF BootStore, BootsInRange
  <2>10. p \in BootPcs /\ l \in Nat
    BY <2>5 DEF BootPcs, BootThreads
  <2>6. b \in BootThreads
    BY <2>5, <2>10, BootStored
  <2>7. boots' = [boots EXCEPT ![i] = b]
    BY <1>2 DEF BootStore
  <2>8. /\ boots' \in Seq(BootThreads)
        /\ Len(boots') = Len(boots)
        /\ \A j \in 1..Len(boots) : boots'[j] = IF j = i THEN b ELSE boots[j]
    BY <2>4, <2>6, <2>7, ExceptSeq
  <2>9. b.pc # "done" => b.next \in 1..4
    BY <2>5 DEF BootThreads
  <2>1. TypeOK'
    BY <1>2, <2>5, <2>8 DEF BootStore, TypeOK, BootStage, Stages
  <2>2. BootsInRange'
    <3> SUFFICES ASSUME NEW j \in DOMAIN boots', boots'[j].pc # "done"
                 PROVE  boots'[j].next \in 1..4
      BY DEF BootsInRange
    <3>1. j \in DOMAIN boots /\ j \in 1..Len(boots)
      BY <2>4, <2>8
    <3>2. CASE j = i
      BY <2>8, <2>9, <3>1, <3>2
    <3>3. CASE j # i
      <4>1. boots'[j] = boots[j]
        BY <2>8, <3>1, <3>3
      <4> QED
        BY <3>1, <4>1 DEF BootsInRange
    <3> QED
      BY <3>2, <3>3
  <2>3. CommandsInPlace'
    BY <1>2 DEF BootStore, CommandsInPlace
  <2> QED
    BY <2>1, <2>2, <2>3
<1>3. CASE TelTop \/ TelStage
  <2>1. TypeOK'
    BY <1>3 DEF TelTop, TelStage, TypeOK, TelemetryPcs, Temps
  <2>2. BootsInRange'
    BY <1>3 DEF TelTop, TelStage, BootsInRange
  <2>3. CommandsInPlace'
    BY <1>3 DEF TelTop, TelStage, CommandsInPlace
  <2> QED
    BY <2>1, <2>2, <2>3
<1>4. CASE TelLeakLoad
  <2>1. TypeOK'
    BY <1>4 DEF TelLeakLoad, TypeOK, TelemetryPcs, Temps
  <2>2. BootsInRange'
    BY <1>4 DEF TelLeakLoad, BootsInRange
  <2>3. CommandsInPlace'
    BY <1>4 DEF TelLeakLoad, CommandsInPlace
  <2> QED
    BY <2>1, <2>2, <2>3
<1>5. CASE TelLeakStore
  <2>1. TypeOK'
    BY <1>5, MemAssumption DEF TelLeakStore, TypeOK, TelemetryPcs, Temps
  <2>2. BootsInRange'
    BY <1>5 DEF TelLeakStore, BootsInRange
  <2>3. CommandsInPlace'
    BY <1>5 DEF TelLeakStore, CommandsInPlace
  <2> QED
    BY <2>1, <2>2, <2>3
<1>6. CASE TelOomCheck
  <2>1. TypeOK'
    BY <1>6 DEF TelOomCheck, TypeOK, TelemetryPcs, Temps
  <2>2. BootsInRange'
    BY <1>6 DEF TelOomCheck, BootsInRange
  <2>3. CommandsInPlace'
    BY <1>6 DEF TelOomCheck, CommandsInPlace
  <2> QED
    BY <2>1, <2>2, <2>3
<1>7. CASE TelOom
  <2>1. TypeOK'
    BY <1>7 DEF TelOom, TypeOK, TelemetryPcs, FlagKinds, Temps
  <2>2. BootsInRange'
    BY <1>7 DEF TelOom, BootsInRange
  <2>3. CommandsInPlace'
    BY <1>7 DEF TelOom, CommandsInPlace
  <2> QED
    BY <2>1, <2>2, <2>3
<1>8. CASE TelNominalMem
  <2>1. TypeOK'
    BY <1>8, MemAssumption DEF TelNominalMem, TypeOK, TelemetryPcs, Temps
  <2>2. BootsInRange'
    BY <1>8 DEF TelNominalMem, BootsInRange
  <2>3. CommandsInPlace'
    BY <1>8 DEF TelNominalMem, CommandsInPlace
  <2> QED
    BY <2>1, <2>2, <2>3
<1>9. CASE TelSensor
  <2>1. TypeOK'
    BY <1>9 DEF TelSensor, TypeOK, TelemetryPcs, Temps
  <2>2. BootsInRange'
    BY <1>9 DEF TelSensor, BootsInRange
  <2>3. CommandsInPlace'
    BY <1>9 DEF TelSensor, CommandsInPlace
  <2> QED
    BY <2>1, <2>2, <2>3
<1>10. CASE TelPublish
  <2>1. TypeOK'
    BY <1>10 DEF TelPublish, TypeOK, TelemetryPcs, Temps
  <2>2. BootsInRange'
    BY <1>10 DEF TelPublish, BootsInRange
  <2>3. CommandsInPlace'
    BY <1>10 DEF TelPublish, CommandsInPlace
  <2> QED
    BY <2>1, <2>2, <2>3
<1>11. ASSUME NEW h \in Handlers, Receive(h) PROVE TypeInv'
  <2>1. TypeOK'
    BY <1>11, CommandsAssumption, BoundAssumption DEF Receive, TypeOK, FirstPc, ClearPc,
       AllCommands, FlagKinds, HandlerPcs
  <2>2. BootsInRange'
    BY <1>11 DEF Receive, BootsInRange
  <2>4. PICK c \in Commands : /\ cmd' = [cmd EXCEPT ![h] = c]
                             /\ hpc' = [hpc EXCEPT ![h] = FirstPc(c)]
    BY <1>11 DEF Receive
  <2>5. /\ FirstPc(c) = "setFlag" => c \in FlagKinds
        /\ FirstPc(c) \in {"clearLeak", "clearSensor", "clearNet"} => c = "reboot"
        /\ FirstPc(c) \notin {"nameBegin", "nameEnd"}
    BY CommandsAssumption DEF FirstPc, ClearPc, FlagKinds, AllCommands
  <2>3. CommandsInPlace'
    BY <1>11, <2>4, <2>5 DEF Receive, TypeOK, CommandsInPlace
  <2> QED
    BY <2>1, <2>2, <2>3
<1>12. ASSUME NEW h \in Handlers, Reply(h) PROVE TypeInv'
  <2>1. TypeOK'
    BY <1>12 DEF Reply, TypeOK, HandlerPcs, NoCommand, NoSnap, Snapshots
  <2>2. BootsInRange'
    BY <1>12 DEF Reply, BootsInRange
  <2>3. CommandsInPlace'
    BY <1>12 DEF Reply, TypeOK, CommandsInPlace
  <2> QED
    BY <2>1, <2>2, <2>3
<1>13. ASSUME NEW h \in Handlers, SetFlag(h) PROVE TypeInv'
  <2>1. TypeOK'
    BY <1>13 DEF SetFlag, TypeOK, HandlerPcs, CommandsInPlace
  <2>2. BootsInRange'
    BY <1>13 DEF SetFlag, BootsInRange
  <2>3. CommandsInPlace'
    BY <1>13 DEF SetFlag, TypeOK, CommandsInPlace
  <2> QED
    BY <2>1, <2>2, <2>3
<1>14. ASSUME NEW h \in Handlers, Segfault(h) PROVE TypeInv'
  <2>1. TypeOK'
    BY <1>14 DEF Segfault, TypeOK, Outcomes
  <2>2. BootsInRange'
    BY <1>14 DEF Segfault, BootsInRange
  <2>3. CommandsInPlace'
    BY <1>14 DEF Segfault, CommandsInPlace
  <2> QED
    BY <2>1, <2>2, <2>3
<1>15. ASSUME NEW h \in Handlers, NameBegin(h) PROVE TypeInv'
  <2>1. TypeOK'
    BY <1>15 DEF NameBegin, TypeOK, HandlerPcs
  <2>2. BootsInRange'
    BY <1>15 DEF NameBegin, BootsInRange
  <2>3. CommandsInPlace'
    BY <1>15 DEF NameBegin, TypeOK, CommandsInPlace
  <2> QED
    BY <2>1, <2>2, <2>3
<1>16. ASSUME NEW h \in Handlers, NameEnd(h) PROVE TypeInv'
  <2>1. TypeOK'
    BY <1>16 DEF NameEnd, TypeOK, HandlerPcs, NewName, CommandsInPlace, Names, NoName
  <2>2. BootsInRange'
    BY <1>16 DEF NameEnd, BootsInRange
  <2>3. CommandsInPlace'
    BY <1>16 DEF NameEnd, TypeOK, CommandsInPlace
  <2> QED
    BY <2>1, <2>2, <2>3
<1>17. ASSUME NEW h \in Handlers, ClearFlag(h) PROVE TypeInv'
  <2>1. TypeOK'
    BY <1>17 DEF ClearFlag, TypeOK, ClearPc, ResetOrder, HandlerPcs, FlagKinds
  <2>2. BootsInRange'
    BY <1>17 DEF ClearFlag, BootsInRange
  <2>3. CommandsInPlace'
    <3>1. PICK k \in 1..3 : ClearFlag(h)!(k)
      BY <1>17 DEF ClearFlag
    <3>2. hpc' = [hpc EXCEPT ![h] = IF k = 3 THEN "nameBegin" ELSE ClearPc[k + 1]]
      BY <3>1
    <3>3. cmd[h] = "reboot" /\ UNCHANGED <<cmd, writers>> /\ hpc[h] # "nameEnd"
      BY <3>1 DEF CommandsInPlace, ClearPc
    <3> QED
      BY <3>2, <3>3 DEF TypeOK, CommandsInPlace, ClearPc
  <2> QED
    BY <2>1, <2>2, <2>3
<1>18. ASSUME NEW h \in Handlers, ResetStage(h) PROVE TypeInv'
  <2>1. TypeOK'
    BY <1>18 DEF ResetStage, TypeOK, HandlerPcs, Stages
  <2>2. BootsInRange'
    BY <1>18 DEF ResetStage, BootsInRange
  <2>3. CommandsInPlace'
    BY <1>18 DEF ResetStage, TypeOK, CommandsInPlace
  <2> QED
    BY <2>1, <2>2, <2>3
<1>19. ASSUME NEW h \in Handlers, ResetMem(h) PROVE TypeInv'
  <2>1. TypeOK'
    BY <1>19, MemAssumption DEF ResetMem, TypeOK, HandlerPcs
  <2>2. BootsInRange'
    BY <1>19 DEF ResetMem, BootsInRange
  <2>3. CommandsInPlace'
    BY <1>19 DEF ResetMem, TypeOK, CommandsInPlace
  <2> QED
    BY <2>1, <2>2, <2>3
<1>20. ASSUME NEW h \in Handlers, ResetTemp(h) PROVE TypeInv'
  <2>1. TypeOK'
    BY <1>20 DEF ResetTemp, TypeOK, HandlerPcs, Temps
  <2>2. BootsInRange'
    BY <1>20 DEF ResetTemp, BootsInRange
  <2>3. CommandsInPlace'
    BY <1>20 DEF ResetTemp, TypeOK, CommandsInPlace
  <2> QED
    BY <2>1, <2>2, <2>3
<1>21. ASSUME NEW h \in Handlers, Bump(h) PROVE TypeInv'
  <2>1. TypeOK'
    BY <1>21 DEF Bump, TypeOK, HandlerPcs
  <2>2. BootsInRange'
    BY <1>21 DEF Bump, BootsInRange
  <2>3. CommandsInPlace'
    BY <1>21 DEF Bump, TypeOK, CommandsInPlace
  <2> QED
    BY <2>1, <2>2, <2>3
<1>22. ASSUME NEW h \in Handlers, Joinable(h) PROVE TypeInv'
  <2>1. TypeOK'
    BY <1>22 DEF Joinable, TypeOK, HandlerPcs
  <2>2. BootsInRange'
    BY <1>22 DEF Joinable, BootsInRange
  <2>3. CommandsInPlace'
    BY <1>22 DEF Joinable, TypeOK, CommandsInPlace
  <2> QED
    BY <2>1, <2>2, <2>3
<1>23. ASSUME NEW h \in Handlers, Detach(h) PROVE TypeInv'
  <2>1. TypeOK'
    BY <1>23 DEF Detach, TypeOK, HandlerPcs
  <2>2. BootsInRange'
    BY <1>23 DEF Detach, BootsInRange
  <2>3. CommandsInPlace'
    BY <1>23 DEF Detach, TypeOK, CommandsInPlace
  <2> QED
    BY <2>1, <2>2, <2>3
<1>24. ASSUME NEW h \in Handlers, DetachThrows(h) PROVE TypeInv'
  <2>1. TypeOK'
    BY <1>24 DEF DetachThrows, TypeOK, Outcomes
  <2>2. BootsInRange'
    BY <1>24 DEF DetachThrows, BootsInRange
  <2>3. CommandsInPlace'
    BY <1>24 DEF DetachThrows, CommandsInPlace
  <2> QED
    BY <2>1, <2>2, <2>3
<1>25. ASSUME NEW h \in Handlers, Spawn(h) PROVE TypeInv'
  <2>1. TypeOK'
    BY <1>25 DEF Spawn, TypeOK, HandlerPcs, NewBoot, BootThreads, BootPcs
  <2>2. BootsInRange'
    BY <1>25 DEF Spawn, TypeOK, BootThreads, BootsInRange, NewBoot
  <2>3. CommandsInPlace'
    BY <1>25 DEF Spawn, TypeOK, CommandsInPlace
  <2> QED
    BY <2>1, <2>2, <2>3
<1>26. ASSUME NEW h \in Handlers, SpawnTerminates(h) PROVE TypeInv'
  <2>1. TypeOK'
    BY <1>26 DEF SpawnTerminates, TypeOK, Outcomes
  <2>2. BootsInRange'
    BY <1>26 DEF SpawnTerminates, BootsInRange
  <2>3. CommandsInPlace'
    BY <1>26 DEF SpawnTerminates, CommandsInPlace
  <2> QED
    BY <2>1, <2>2, <2>3
<1>27. ASSUME NEW h \in Handlers, ReadStage(h) PROVE TypeInv'
  <2>1. TypeOK'
    BY <1>27 DEF ReadStage, TypeOK, HandlerPcs, Snapshots
  <2>2. BootsInRange'
    BY <1>27 DEF ReadStage, BootsInRange
  <2>3. CommandsInPlace'
    BY <1>27 DEF ReadStage, TypeOK, CommandsInPlace
  <2> QED
    BY <2>1, <2>2, <2>3
<1>28. ASSUME NEW h \in Handlers, ReadMem(h) PROVE TypeInv'
  <2>1. TypeOK'
    BY <1>28 DEF ReadMem, TypeOK, HandlerPcs, Snapshots
  <2>2. BootsInRange'
    BY <1>28 DEF ReadMem, BootsInRange
  <2>3. CommandsInPlace'
    BY <1>28 DEF ReadMem, TypeOK, CommandsInPlace
  <2> QED
    BY <2>1, <2>2, <2>3
<1>29. ASSUME NEW h \in Handlers, ReadTemp(h) PROVE TypeInv'
  <2>1. TypeOK'
    BY <1>29 DEF ReadTemp, TypeOK, HandlerPcs, Snapshots
  <2>2. BootsInRange'
    BY <1>29 DEF ReadTemp, BootsInRange
  <2>3. CommandsInPlace'
    BY <1>29 DEF ReadTemp, TypeOK, CommandsInPlace
  <2> QED
    BY <2>1, <2>2, <2>3
<1>30. ASSUME NEW h \in Handlers, ReadActive(h) PROVE TypeInv'
  <2>1. TypeOK'
    <3>1. \A w \in writers : NewName(w) \in Names
      BY DEF TypeOK, CommandsInPlace, NewName, Names
    <3>2. PICK s \in {active} \cup (IF writers = {} THEN {}
                                   ELSE {Torn} \cup {NewName(w) : w \in writers}) :
                 snap' = [snap EXCEPT ![h].active = s]
      BY <1>30 DEF ReadActive
    <3>5. s \in Names \cup {Torn}
      BY <3>1, <3>2 DEF TypeOK
    <3>3. [snap[h] EXCEPT !.active = s] \in Snapshots
      BY <3>5 DEF TypeOK, Snapshots
    <3>4. snap' \in [Handlers -> Snapshots]
      BY <3>2, <3>3 DEF TypeOK
    <3> QED
      BY <1>30, <3>4 DEF ReadActive, TypeOK, HandlerPcs
  <2>2. BootsInRange'
    BY <1>30 DEF ReadActive, BootsInRange
  <2>3. CommandsInPlace'
    BY <1>30 DEF ReadActive, TypeOK, CommandsInPlace
  <2> QED
    BY <2>1, <2>2, <2>3
<1>31. CASE StopBegin
  <2>1. TypeOK'
    BY <1>31 DEF StopBegin, TypeOK, MainPcs
  <2>2. BootsInRange'
    BY <1>31 DEF StopBegin, BootsInRange
  <2>3. CommandsInPlace'
    BY <1>31 DEF StopBegin, CommandsInPlace
  <2> QED
    BY <2>1, <2>2, <2>3
<1>32. CASE StopJoinable
  <2>1. TypeOK'
    BY <1>32 DEF StopJoinable, TypeOK, MainPcs
  <2>2. BootsInRange'
    BY <1>32 DEF StopJoinable, BootsInRange
  <2>3. CommandsInPlace'
    BY <1>32 DEF StopJoinable, CommandsInPlace
  <2> QED
    BY <2>1, <2>2, <2>3
<1>33. CASE StopJoin
  <2>1. TypeOK'
    BY <1>33 DEF StopJoin, TypeOK, MainPcs
  <2>2. BootsInRange'
    BY <1>33 DEF StopJoin, BootsInRange
  <2>3. CommandsInPlace'
    BY <1>33 DEF StopJoin, CommandsInPlace
  <2> QED
    BY <2>1, <2>2, <2>3
<1>34. CASE StopJoinThrows
  <2>1. TypeOK'
    BY <1>34 DEF StopJoinThrows, TypeOK, Outcomes
  <2>2. BootsInRange'
    BY <1>34 DEF StopJoinThrows, BootsInRange
  <2>3. CommandsInPlace'
    BY <1>34 DEF StopJoinThrows, CommandsInPlace
  <2> QED
    BY <2>1, <2>2, <2>3
<1>35. CASE StopJoined
  <2>1. TypeOK'
    BY <1>35 DEF StopJoined, TypeOK, MainPcs
  <2>2. BootsInRange'
    BY <1>35 DEF StopJoined, BootsInRange
  <2>3. CommandsInPlace'
    BY <1>35 DEF StopJoined, CommandsInPlace
  <2> QED
    BY <2>1, <2>2, <2>3
<1>36. CASE StopTelemetry
  <2>1. TypeOK'
    BY <1>36 DEF StopTelemetry, TypeOK, MainPcs
  <2>2. BootsInRange'
    BY <1>36 DEF StopTelemetry, BootsInRange
  <2>3. CommandsInPlace'
    BY <1>36 DEF StopTelemetry, CommandsInPlace
  <2> QED
    BY <2>1, <2>2, <2>3
<1>37. CASE Destroy
  <2>1. TypeOK'
    BY <1>37 DEF Destroy, TypeOK, Outcomes
  <2>2. BootsInRange'
    BY <1>37 DEF Destroy, BootsInRange
  <2>3. CommandsInPlace'
    BY <1>37 DEF Destroy, CommandsInPlace
  <2> QED
    BY <2>1, <2>2, <2>3
<1>38. CASE UNCHANGED vars
  BY <1>38 DEF vars, TypeOK, BootsInRange, CommandsInPlace
<1> QED
  BY <1>1, <1>2, <1>3, <1>4, <1>5, <1>6, <1>7, <1>8, <1>9, <1>10, <1>11, <1>12, <1>13,
     <1>14, <1>15, <1>16, <1>17, <1>18, <1>19, <1>20, <1>21, <1>22, <1>23, <1>24, <1>25,
     <1>26, <1>27, <1>28, <1>29, <1>30, <1>31, <1>32, <1>33, <1>34, <1>35, <1>36, <1>37,
     <1>38
  DEF Next, Boot, Telemetry, Execute, Inject, Assign, Reboot, Status, Stopping, Ended

\* Every variable of DeviceSimulator keeps its type.
THEOREM TypeCorrect == Spec => []TypeOK
<1>1. Spec => []TypeInv
  BY TypeInit, TypeStep, PTL DEF Spec
<1> QED
  BY <1>1, PTL DEF TypeInv

-----------------------------------------------------------------------------
(* Boot ids.                                                               *)

\* Ids are handed out in increasing order, and a superseded boot thread that has
\* made its late store has no store left.
IdsBounded ==
  /\ \A i \in DOMAIN boots : boots[i].id <= bootId
  /\ \A h \in Handlers : HoldsId(h) => hid[h] <= bootId

LateStoreIsLast ==
  \A i \in DOMAIN boots :
     boots[i].late # 0 => /\ boots[i].late = 1
                          /\ boots[i].id # bootId
                          /\ boots[i].pc # "store"

BootInv == IdsBounded /\ UniqueBootIds /\ LateStoreIsLast

\* The one boot thread of start() has the only id.
LEMMA BootInit == Init => BootInv
BY DEF Init, BootInv, IdsBounded, UniqueBootIds, LateStoreIsLast, HoldsId, NewBoot

\* A step that leaves the boot threads alone and gives no handler an id.
LEMMA IdFrame ==
  ASSUME BootInv, boots' = boots, bootId' = bootId,
         \A h \in Handlers : HoldsId(h)' => HoldsId(h) /\ hid'[h] = hid[h]
  PROVE  BootInv'
<1>1. IdsBounded' /\ LateStoreIsLast'
  BY DEF BootInv, IdsBounded, LateStoreIsLast
<1>2. UniqueBootIds'
  BY DEF BootInv, UniqueBootIds
<1> QED
  BY <1>1, <1>2 DEF BootInv

\* A boot thread keeps its id while it runs.
LEMMA IdsKept ==
  ASSUME BootInv, DOMAIN boots' = DOMAIN boots, bootId' = bootId,
         UNCHANGED <<hpc, hid>>,
         \A j \in DOMAIN boots : boots'[j].id = boots[j].id
  PROVE  IdsBounded' /\ UniqueBootIds'
BY DEF BootInv, IdsBounded, UniqueBootIds, HoldsId

\* Ids come from Bump alone and go to a boot thread in Spawn alone; every other
\* step is a frame or keeps the id of the thread it advances.
LEMMA BootStep == TypeInv /\ BootInv /\ [Next]_vars => BootInv'
<1> SUFFICES ASSUME TypeInv, BootInv, [Next]_vars PROVE BootInv'
  OBVIOUS
<1> USE DEF TypeInv
<1>1. ASSUME NEW i \in 1..MaxBoots, BootCheck(i) PROVE BootInv'
  <2> DEFINE p == IF Wanted(i) THEN "store" ELSE "done"
  <2>1. /\ boots \in Seq(BootThreads) /\ i \in 1..Len(boots)
        /\ boots[i] \in BootThreads
        /\ boots' = [boots EXCEPT ![i].pc = p]
    BY <1>1, ElementOfSeq DEF BootCheck, TypeOK
  <2>2. /\ DOMAIN boots' = DOMAIN boots
        /\ boots'[i] = [boots[i] EXCEPT !.pc = p]
        /\ \A j \in DOMAIN boots : j # i => boots'[j] = boots[j]
    BY <2>1
  <2>3. /\ boots'[i].id = boots[i].id /\ boots'[i].late = boots[i].late
        /\ boots'[i].pc = p
    BY <2>1, <2>2 DEF BootThreads
  <2>4. IdsBounded' /\ UniqueBootIds'
    BY <1>1, <2>2, <2>3, IdsKept DEF BootCheck
  <2>5. LateStoreIsLast'
    BY <1>1, <2>2, <2>3 DEF BootCheck, BootInv, LateStoreIsLast, Wanted
  <2> QED
    BY <2>4, <2>5 DEF BootInv
<1>2. ASSUME NEW i \in 1..MaxBoots, BootStore(i) PROVE BootInv'
  <2> DEFINE p == IF boots[i].next = 4 THEN "done" ELSE "check"
             l == IF boots[i].id = bootId THEN boots[i].late ELSE boots[i].late + 1
             b == [boots[i] EXCEPT !.pc = p, !.next = @ + 1, !.late = l]
  <2>7. boots \in Seq(BootThreads) /\ i \in 1..Len(boots)
    BY <1>2 DEF BootStore, TypeOK
  <2>8. boots[i] \in BootThreads /\ boots[i].next \in 1..4
    BY <1>2, <2>7, ElementOfSeq DEF BootStore, BootsInRange
  <2>9. p \in BootPcs /\ l \in Nat
    BY <2>8 DEF BootPcs, BootThreads
  <2>10. b \in BootThreads
    BY <2>8, <2>9, BootStored
  <2>1. boots' = [boots EXCEPT ![i] = b]
    BY <1>2 DEF BootStore
  <2>2. /\ DOMAIN boots' = DOMAIN boots
        /\ boots'[i] = b
        /\ \A j \in DOMAIN boots : j # i => boots'[j] = boots[j]
    <3> HIDE DEF b
    <3> QED
      BY <2>1, <2>7, <2>10, ExceptSeq
  <2>3. boots'[i].id = boots[i].id /\ boots'[i].late = l /\ boots'[i].pc = p
    BY <2>2, <2>8 DEF BootThreads
  <2>4. IdsBounded' /\ UniqueBootIds'
    BY <1>2, <2>2, <2>3, IdsKept DEF BootStore
  <2>6. boots[i].late = 0
    BY <1>2, <2>7 DEF BootStore, BootInv, LateStoreIsLast
  <2>5. LateStoreIsLast'
    BY <1>2, <2>2, <2>3, <2>6 DEF BootStore, BootInv, LateStoreIsLast
  <2> QED
    BY <2>4, <2>5 DEF BootInv
<1>3. ASSUME NEW h \in Handlers, Bump(h) PROVE BootInv'
  <2>1. /\ bootId \in Nat /\ bootId' = bootId + 1 /\ boots' = boots
        /\ hid' = [hid EXCEPT ![h] = bootId + 1]
        /\ \A g \in Handlers \ {h} : HoldsId(g)' = HoldsId(g) /\ hid'[g] = hid[g]
        /\ hid'[h] = bootId + 1
    BY <1>3 DEF Bump, TypeOK, HoldsId
  <2>6. \A i \in DOMAIN boots : boots[i] \in BootThreads
    BY ElementOfSeq DEF TypeOK
  <2>2. /\ \A i \in DOMAIN boots : boots[i].id \in Nat /\ boots[i].id <= bootId
        /\ \A g \in Handlers : hid[g] \in Nat
    BY <2>6 DEF TypeOK, BootThreads, BootInv, IdsBounded
  <2>3. IdsBounded'
    BY <2>1, <2>2 DEF BootInv, IdsBounded
  <2>4. UniqueBootIds'
    BY <2>1, <2>2 DEF BootInv, IdsBounded, UniqueBootIds
  <2>5. LateStoreIsLast'
    BY <2>1, <2>2 DEF BootInv, LateStoreIsLast
  <2> QED
    BY <2>3, <2>4, <2>5 DEF BootInv
<1>3a. ASSUME NEW h \in Handlers, Spawn(h) PROVE BootInv'
  <2> DEFINE new == Len(boots) + 1
  <2>1. /\ boots \in Seq(BootThreads) /\ hid[h] \in Nat /\ bootId' = bootId
        /\ hid' = hid /\ HoldsId(h) /\ ~HoldsId(h)'
        /\ \A g \in Handlers \ {h} : HoldsId(g)' = HoldsId(g)
    BY <1>3a DEF Spawn, TypeOK, HoldsId
  <2>2. NewBoot(hid[h]) \in BootThreads
    BY <2>1 DEF NewBoot, BootThreads, BootPcs
  <2>3. /\ DOMAIN boots = 1..Len(boots) /\ Len(boots) \in Nat
        /\ DOMAIN boots' = 1..new
        /\ \A j \in 1..Len(boots) : boots'[j] = boots[j]
        /\ boots'[new] = NewBoot(hid[h])
    BY <1>3a, <2>1, <2>2, AppendProperties DEF Spawn
  <2>4. boots'[new].id = hid[h] /\ boots'[new].late = 0
    BY <2>3 DEF NewBoot
  <2>5. \A j \in DOMAIN boots' : j \in DOMAIN boots \/ j = new
    BY <2>3
  <2>6. IdsBounded'
    BY <2>1, <2>3, <2>4, <2>5 DEF BootInv, IdsBounded
  <2>7. \A i, j \in DOMAIN boots' : boots'[i].id = boots'[j].id => i = j
    BY <2>1, <2>3, <2>4, <2>5 DEF BootInv, UniqueBootIds
  <2>8. UniqueBootIds'
    BY <2>1, <2>3, <2>4, <2>5, <2>7 DEF BootInv, UniqueBootIds
  <2>9. LateStoreIsLast'
    BY <2>1, <2>3, <2>4, <2>5 DEF BootInv, LateStoreIsLast
  <2> QED
    BY <2>6, <2>8, <2>9 DEF BootInv
<1>4. CASE TelTop \/ TelStage
  BY <1>4, IdFrame DEF TelTop, TelStage, HoldsId
<1>5. CASE TelLeakLoad
  BY <1>5, IdFrame DEF TelLeakLoad, HoldsId
<1>6. CASE TelLeakStore
  BY <1>6, IdFrame DEF TelLeakStore, HoldsId
<1>7. CASE TelOomCheck
  BY <1>7, IdFrame DEF TelOomCheck, HoldsId
<1>8. CASE TelOom
  BY <1>8, IdFrame DEF TelOom, HoldsId
<1>9. CASE TelNominalMem
  BY <1>9, IdFrame DEF TelNominalMem, HoldsId
<1>10. CASE TelSensor
  BY <1>10, IdFrame DEF TelSensor, HoldsId
<1>11. CASE TelPublish
  BY <1>11, IdFrame DEF TelPublish, HoldsId
<1>12. ASSUME NEW h \in Handlers, Receive(h) PROVE BootInv'
  <2>1. PICK c \in Commands : hpc' = [hpc EXCEPT ![h] = FirstPc(c)]
    BY <1>12 DEF Receive
  <2>2. FirstPc(c) \notin {"joinable", "detach", "spawn"}
    BY CommandsAssumption DEF FirstPc, ClearPc, FlagKinds, AllCommands
  <2> QED
    BY <1>12, <2>1, <2>2, IdFrame DEF Receive, TypeOK, HoldsId
<1>13. ASSUME NEW h \in Handlers, Reply(h) PROVE BootInv'
  BY <1>13, IdFrame DEF Reply, TypeOK, HoldsId
<1>14. ASSUME NEW h \in Handlers, SetFlag(h) PROVE BootInv'
  BY <1>14, IdFrame DEF SetFlag, TypeOK, HoldsId
<1>15. ASSUME NEW h \in Handlers, Segfault(h) PROVE BootInv'
  BY <1>15, IdFrame DEF Segfault, HoldsId
<1>16. ASSUME NEW h \in Handlers, NameBegin(h) PROVE BootInv'
  BY <1>16, IdFrame DEF NameBegin, TypeOK, HoldsId
<1>17. ASSUME NEW h \in Handlers, NameEnd(h) PROVE BootInv'
  BY <1>17, IdFrame DEF NameEnd, TypeOK, HoldsId
<1>18. ASSUME NEW h \in Handlers, ClearFlag(h) PROVE BootInv'
  BY <1>18, IdFrame DEF ClearFlag, TypeOK, HoldsId, ClearPc
<1>19. ASSUME NEW h \in Handlers, ResetStage(h) PROVE BootInv'
  BY <1>19, IdFrame DEF ResetStage, TypeOK, HoldsId
<1>20. ASSUME NEW h \in Handlers, ResetMem(h) PROVE BootInv'
  BY <1>20, IdFrame DEF ResetMem, TypeOK, HoldsId
<1>21. ASSUME NEW h \in Handlers, ResetTemp(h) PROVE BootInv'
  BY <1>21, IdFrame DEF ResetTemp, TypeOK, HoldsId
<1>22. ASSUME NEW h \in Handlers, Joinable(h) PROVE BootInv'
  BY <1>22, IdFrame DEF Joinable, TypeOK, HoldsId
<1>23. ASSUME NEW h \in Handlers, Detach(h) PROVE BootInv'
  BY <1>23, IdFrame DEF Detach, TypeOK, HoldsId
<1>24. ASSUME NEW h \in Handlers, DetachThrows(h) PROVE BootInv'
  BY <1>24, IdFrame DEF DetachThrows, HoldsId
<1>25. ASSUME NEW h \in Handlers, SpawnTerminates(h) PROVE BootInv'
  BY <1>25, IdFrame DEF SpawnTerminates, HoldsId
<1>26. ASSUME NEW h \in Handlers, ReadStage(h) PROVE BootInv'
  BY <1>26, IdFrame DEF ReadStage, TypeOK, HoldsId
<1>27. ASSUME NEW h \in Handlers, ReadMem(h) PROVE BootInv'
  BY <1>27, IdFrame DEF ReadMem, TypeOK, HoldsId
<1>28. ASSUME NEW h \in Handlers, ReadTemp(h) PROVE BootInv'
  BY <1>28, IdFrame DEF ReadTemp, TypeOK, HoldsId
<1>29. ASSUME NEW h \in Handlers, ReadActive(h) PROVE BootInv'
  BY <1>29, IdFrame DEF ReadActive, TypeOK, HoldsId
<1>30. CASE StopBegin
  BY <1>30, IdFrame DEF StopBegin, HoldsId
<1>31. CASE StopJoinable
  BY <1>31, IdFrame DEF StopJoinable, HoldsId
<1>32. CASE StopJoin
  BY <1>32, IdFrame DEF StopJoin, HoldsId
<1>33. CASE StopJoinThrows
  BY <1>33, IdFrame DEF StopJoinThrows, HoldsId
<1>34. CASE StopJoined
  BY <1>34, IdFrame DEF StopJoined, HoldsId
<1>35. CASE StopTelemetry
  BY <1>35, IdFrame DEF StopTelemetry, HoldsId
<1>36. CASE Destroy
  BY <1>36, IdFrame DEF Destroy, HoldsId
<1>37. CASE UNCHANGED vars
  BY <1>37, IdFrame DEF vars, HoldsId
<1> QED
  BY <1>1, <1>2, <1>3, <1>3a, <1>4, <1>5, <1>6, <1>7, <1>8, <1>9, <1>10, <1>11, <1>12,
     <1>13, <1>14, <1>15, <1>16, <1>17, <1>18, <1>19, <1>20, <1>21, <1>22, <1>23, <1>24,
     <1>25, <1>26, <1>27, <1>28, <1>29, <1>30, <1>31, <1>32, <1>33, <1>34, <1>35, <1>36,
     <1>37
  DEF Next, Boot, Telemetry, Execute, Inject, Assign, Reboot, Status, Stopping, Ended

\* Both parts of the inductive invariant hold in every reachable state.
LEMMA BootCorrect == Spec => [](TypeInv /\ BootInv)
<1>1. Init => TypeInv /\ BootInv
  BY TypeInit, BootInit
<1>2. TypeInv /\ BootInv /\ [Next]_vars => (TypeInv /\ BootInv)'
  BY TypeStep, BootStep
<1> QED
  BY <1>1, <1>2, PTL DEF Spec

\* Whatever reboots overlap, no two boot threads have the same id.
THEOREM BootIdsAreUnique == Spec => []UniqueBootIds
<1>1. BootInv => UniqueBootIds
  BY DEF BootInv
<1> QED
  BY <1>1, BootCorrect, PTL

\* A superseded boot thread stores boot_stage_ at most once.
THEOREM LateStoresBounded == Spec => []AtMostOneLateStore
<1>1. TypeInv /\ BootInv => AtMostOneLateStore
  <2> SUFFICES ASSUME TypeInv, BootInv, NEW i \in DOMAIN boots
               PROVE  boots[i].late <= 1
    BY DEF AtMostOneLateStore
  <2>1. boots[i] \in BootThreads
    BY ElementOfSeq DEF TypeInv, TypeOK
  <2> QED
    BY <2>1 DEF BootInv, LateStoreIsLast, BootThreads
<1> QED
  BY <1>1, BootCorrect, PTL

-----------------------------------------------------------------------------
(* The order of the stages.                                                *)

NoneLate == \A i \in DOMAIN boots : boots[i].late = 0

\* Outside the window of a reset, and until a late store, boot_stage_ is what the
\* current boot thread stored last.
StageInv ==
  ~ResetWindow /\ NoneLate =>
     \A i \in DOMAIN boots : boots[i].id = bootId /\ boots[i].next # 1
                               => stage = BootStage[boots[i].next - 1]

\* The first boot thread has stored nothing yet.
LEMMA StageInit == Init => StageInv
BY DEF Init, StageInv, NewBoot

\* Which steps touch the boot threads, the stage or the window of a reset.
LEMMA StageKinds ==
  ASSUME TypeInv, [Next]_vars
  PROVE  \/ \E i \in 1..MaxBoots : BootCheck(i) \/ BootStore(i)
         \/ \E h \in Handlers : ResetStage(h) \/ Bump(h) \/ Spawn(h)
         \/ UNCHANGED <<boots, bootId, stage>> /\ ResetWindow' = ResetWindow
<1> DEFINE Others == UNCHANGED <<boots, bootId, stage>> /\ ResetWindow' = ResetWindow
<1>0. hpc \in [Handlers -> HandlerPcs]
  BY DEF TypeInv, TypeOK
<1>1. CASE Telemetry \/ StopBegin \/ Stopping \/ UNCHANGED vars
  BY <1>1 DEF Telemetry, TelTop, TelStage, TelLeakLoad, TelLeakStore, TelOomCheck, TelOom,
     TelNominalMem, TelSensor, TelPublish, StopBegin, Stopping, StopJoinable, StopJoin, StopJoinThrows,
     StopJoined, StopTelemetry, Destroy, vars, ResetWindow
<1>2. ASSUME NEW h \in Handlers, Receive(h) PROVE Others
  <2>1. PICK c \in Commands : hpc' = [hpc EXCEPT ![h] = FirstPc(c)]
    BY <1>2 DEF Receive
  <2>2. FirstPc(c) \notin {"resetMem", "resetTemp", "bump"}
    BY CommandsAssumption DEF FirstPc, ClearPc, FlagKinds, AllCommands
  <2>3. ResetWindow' = ResetWindow
    BY <1>0, <1>2, <2>1, <2>2 DEF Receive, ResetWindow
  <2> QED
    BY <1>2, <2>3 DEF Receive
<1>3. ASSUME NEW h \in Handlers, Inject(h) \/ Assign(h) \/ Status(h) \/ Reply(h) PROVE Others
  BY <1>0, <1>3 DEF Inject, SetFlag, Segfault, Assign, NameBegin, NameEnd, Status, ReadStage,
     ReadMem, ReadTemp, ReadActive, Reply, ResetWindow
<1>4. ASSUME NEW h \in Handlers, ClearFlag(h) PROVE Others
  BY <1>0, <1>4 DEF ClearFlag, ClearPc, ResetWindow
<1>5. ASSUME NEW h \in Handlers,
             \/ ResetMem(h) \/ ResetTemp(h) \/ Joinable(h) \/ Detach(h) \/ DetachThrows(h)
             \/ SpawnTerminates(h)
      PROVE  Others
  BY <1>0, <1>5 DEF ResetMem, ResetTemp, Joinable, Detach, DetachThrows, SpawnTerminates,
     ResetWindow
<1> QED
  BY <1>1, <1>2, <1>3, <1>4, <1>5 DEF Next, Boot, Execute, Reboot, Ended

\* A boot thread that tests changes nothing of this; one that stores is the current
\* one or makes a late store.
LEMMA StageCheck ==
  ASSUME TypeInv, StageInv, NEW i \in 1..MaxBoots, BootCheck(i)
  PROVE  StageInv' /\ UNCHANGED stage
<1> DEFINE p == IF Wanted(i) THEN "store" ELSE "done"
<1>1. /\ boots \in Seq(BootThreads) /\ i \in 1..Len(boots)
      /\ boots[i] \in BootThreads
      /\ boots' = [boots EXCEPT ![i].pc = p]
  BY ElementOfSeq DEF BootCheck, TypeInv, TypeOK
<1>2. /\ DOMAIN boots' = DOMAIN boots
      /\ boots'[i] = [boots[i] EXCEPT !.pc = p]
      /\ \A j \in DOMAIN boots : j # i => boots'[j] = boots[j]
  BY <1>1
<1>3. \A j \in DOMAIN boots : /\ boots'[j].id = boots[j].id /\ boots'[j].late = boots[j].late
                              /\ boots'[j].next = boots[j].next
  BY <1>1, <1>2 DEF BootThreads
<1>4. /\ UNCHANGED <<stage, bootId>> /\ ResetWindow' = ResetWindow
  BY DEF BootCheck, ResetWindow
<1> QED
  BY <1>2, <1>3, <1>4 DEF StageInv, NoneLate

\* What a store does to the threads.
LEMMA Stored ==
  ASSUME TypeInv, NEW i \in 1..MaxBoots, BootStore(i)
  PROVE  /\ i \in DOMAIN boots /\ DOMAIN boots' = DOMAIN boots
         /\ boots[i].next \in 1..4 /\ boots'[i].next = boots[i].next + 1
         /\ boots[i].late \in Nat
         /\ boots'[i].late = IF boots[i].id = bootId THEN boots[i].late ELSE boots[i].late + 1
         /\ boots'[i].id = boots[i].id
         /\ \A j \in DOMAIN boots : j # i => boots'[j] = boots[j]
<1> DEFINE p == IF boots[i].next = 4 THEN "done" ELSE "check"
           l == IF boots[i].id = bootId THEN boots[i].late ELSE boots[i].late + 1
           b == [boots[i] EXCEPT !.pc = p, !.next = @ + 1, !.late = l]
<1>1. boots \in Seq(BootThreads) /\ i \in 1..Len(boots)
  BY DEF BootStore, TypeInv, TypeOK
<1>2. boots[i] \in BootThreads /\ boots[i].next \in 1..4
  BY <1>1, ElementOfSeq DEF BootStore, TypeInv, BootsInRange
<1>3. p \in BootPcs /\ l \in Nat
  BY <1>2 DEF BootPcs, BootThreads
<1>4. b \in BootThreads
  BY <1>2, <1>3, BootStored
<1>5. boots' = [boots EXCEPT ![i] = b]
  BY DEF BootStore
<1>6. /\ DOMAIN boots' = DOMAIN boots
      /\ boots'[i] = b
      /\ \A j \in DOMAIN boots : j # i => boots'[j] = boots[j]
  <2> HIDE DEF b
  <2> QED
    BY <1>5, <1>1, <1>4, ExceptSeq
<1>7. b.id = boots[i].id /\ b.late = l /\ b.next = boots[i].next + 1 /\ boots[i].late \in Nat
  BY <1>2 DEF BootThreads
<1> QED
  BY <1>1, <1>2, <1>6, <1>7

\* A store of the current thread follows the one before.
LEMMA StageStore ==
  ASSUME TypeInv, BootInv, StageInv, NEW i \in 1..MaxBoots, BootStore(i)
  PROVE  /\ StageInv'
         /\ ~ResetWindow /\ NoneLate' =>
               \/ stage' = "BOOTLOADER"
               \/ \E k \in 2..4 : stage = BootStage[k - 1] /\ stage' = BootStage[k]
<1>1. /\ stage' = BootStage[boots[i].next] /\ bootId' = bootId /\ ResetWindow' = ResetWindow
  BY DEF BootStore, ResetWindow
<1>2. ASSUME NoneLate' PROVE boots[i].id = bootId /\ NoneLate
  BY <1>2, Stored DEF NoneLate
<1>3. StageInv'
  <2> SUFFICES ASSUME ~ResetWindow, NoneLate', NEW j \in DOMAIN boots,
                      boots'[j].id = bootId, boots'[j].next # 1
               PROVE  stage' = BootStage[boots'[j].next - 1]
    BY <1>1, Stored DEF StageInv
  <2>1. boots[j].id = bootId
    BY Stored
  <2>2. j = i
    BY <1>2, <2>1, Stored DEF BootInv, UniqueBootIds
  <2> QED
    BY <1>1, <2>2, Stored
<1>4. ASSUME ~ResetWindow, NoneLate'
      PROVE  \/ stage' = "BOOTLOADER"
             \/ \E k \in 2..4 : stage = BootStage[k - 1] /\ stage' = BootStage[k]
  <2>1. CASE boots[i].next = 1
    BY <1>1, <2>1 DEF BootStage
  <2>2. CASE boots[i].next # 1
    <3>1. stage = BootStage[boots[i].next - 1]
      BY <1>2, <1>4, <2>2, Stored DEF StageInv
    <3> QED
      BY <1>1, <2>2, <3>1, Stored
  <2> QED
    BY <2>1, <2>2
<1> QED
  BY <1>3, <1>4

\* A step keeps StageInv and follows the order.
LEMMA StageStep ==
  ASSUME TypeInv, BootInv, StageInv, [Next]_vars
  PROVE  /\ StageInv'
         /\ (stage' # stage /\ ~ResetWindow /\ \A i \in DOMAIN boots' : boots'[i].late = 0)
               => \/ stage' = "BOOTLOADER"
                  \/ \E k \in 2..4 : stage = BootStage[k - 1] /\ stage' = BootStage[k]
<1>1. ASSUME NEW i \in 1..MaxBoots, BootCheck(i) PROVE StageInv' /\ UNCHANGED stage
  BY <1>1, StageCheck
<1>2. ASSUME NEW i \in 1..MaxBoots, BootStore(i)
      PROVE  /\ StageInv'
             /\ ~ResetWindow /\ NoneLate' =>
                   \/ stage' = "BOOTLOADER"
                   \/ \E k \in 2..4 : stage = BootStage[k - 1] /\ stage' = BootStage[k]
  BY <1>2, StageStore
<1>3. ASSUME NEW h \in Handlers, ResetStage(h) PROVE StageInv' /\ stage' = "BOOTLOADER"
  BY <1>3 DEF ResetStage, StageInv, ResetWindow, TypeInv, TypeOK
<1>4. ASSUME NEW h \in Handlers, Bump(h) PROVE StageInv' /\ UNCHANGED stage
  <2>1. bootId \in Nat /\ bootId' = bootId + 1 /\ boots' = boots /\ stage' = stage
    BY <1>4 DEF Bump, TypeInv, TypeOK
  <2>4. \A i \in DOMAIN boots : boots[i] \in BootThreads
    BY ElementOfSeq DEF TypeInv, TypeOK
  <2>2. \A i \in DOMAIN boots : boots[i].id \in Nat
    BY <2>4 DEF BootThreads
  <2>3. \A i \in DOMAIN boots : boots[i].id # bootId'
    BY <2>1, <2>2 DEF BootInv, IdsBounded
  <2> QED
    BY <2>1, <2>3 DEF StageInv
<1>5. ASSUME NEW h \in Handlers, Spawn(h) PROVE StageInv' /\ UNCHANGED stage
  <2> DEFINE new == Len(boots) + 1
  <2>1. /\ boots \in Seq(BootThreads) /\ hid[h] \in Nat /\ bootId' = bootId /\ stage' = stage
        /\ hpc \in [Handlers -> HandlerPcs] /\ hpc[h] = "spawn"
        /\ hpc' = [hpc EXCEPT ![h] = "reply"]
    BY <1>5 DEF Spawn, TypeInv, TypeOK
  <2>2. NewBoot(hid[h]) \in BootThreads
    BY <2>1 DEF NewBoot, BootThreads, BootPcs
  <2>3. /\ DOMAIN boots = 1..Len(boots) /\ Len(boots) \in Nat
        /\ DOMAIN boots' = 1..new
        /\ \A j \in 1..Len(boots) : boots'[j] = boots[j]
        /\ boots'[new] = NewBoot(hid[h])
    BY <1>5, <2>1, <2>2, AppendProperties DEF Spawn
  <2>4. boots'[new].next = 1
    BY <2>3 DEF NewBoot
  <2>5. \A j \in DOMAIN boots' : j \in DOMAIN boots \/ j = new
    BY <2>3
  <2>6. ResetWindow' = ResetWindow
    BY <2>1 DEF ResetWindow
  <2>7. NoneLate' => NoneLate
    BY <2>3 DEF NoneLate
  <2> QED
    BY <2>1, <2>3, <2>4, <2>5, <2>6, <2>7 DEF StageInv
<1>6. ASSUME UNCHANGED <<boots, bootId, stage>>, ResetWindow' = ResetWindow
      PROVE  StageInv' /\ UNCHANGED stage
  BY <1>6 DEF StageInv, NoneLate
<1> QED
  BY <1>1, <1>2, <1>3, <1>4, <1>5, <1>6, StageKinds DEF NoneLate

\* Stages follow each other in order, outside the window of a reset and until a
\* superseded boot stores once more.
THEOREM StagesFollow == Spec => StagesInOrder
<1>1. TypeInv /\ BootInv /\ StageInv /\ [Next]_vars => StageInv'
  BY StageStep
<1>2. Spec => []StageInv
  BY StageInit, <1>1, BootCorrect, PTL DEF Spec
<1>3. TypeInv /\ BootInv /\ StageInv /\ [Next]_vars =>
        [ (stage' # stage /\ ~ResetWindow /\ \A i \in DOMAIN boots' : boots'[i].late = 0)
          => \/ stage' = "BOOTLOADER"
             \/ \E k \in 2..4 : stage = BootStage[k - 1] /\ stage' = BootStage[k] ]_vars
  BY StageStep
<1> QED
  BY <1>2, <1>3, BootCorrect, PTL DEF Spec, StagesInOrder

-----------------------------------------------------------------------------
(* The memory leak.                                                        *)

\* Handlers about to raise a flag, and the commands that have been received and are
\* not among them.
Raising == {h \in Handlers : hpc[h] = "setFlag"}
Done    == sent - Cardinality(Raising)

\* Of those, the ones whose leak is not raised any more, at most.
Spent == IF flag["MEMORY_LEAK"] THEN Done - 1 ELSE Done

\* The level that n leaks run into one after the other cannot reach.
Level(n) == OomThreshold + LeakStep * n

\* A leak that finds memory below the level of the leaks before it stays below its own
\* until the telemetry thread has ended it.
LeakInv ==
  /\ IsFiniteSet(Raising) /\ Spent >= 0
  /\ mem < Level(IF tpc \in {"oomCheck", "oom"} THEN Done ELSE Spent)
  /\ tpc \in {"leakStore", "oomCheck", "oom"} => Done >= 1
  /\ tpc = "leakStore" => tmem < Level(Done - 1)

\* Levels grow by a step.
LEMMA LevelGrows ==
  /\ \A n \in Int : Level(n) \in Int /\ Level(n + 1) = Level(n) + LeakStep
  /\ \A m, n \in Int : m <= n => Level(m) <= Level(n)
  /\ Level(0) = OomThreshold
<1>1. LeakStep \in Nat \ {0} /\ OomThreshold \in Nat
  BY MemAssumption
<1>2. \A n \in Int : Level(n) \in Int /\ Level(n + 1) = Level(n) + LeakStep
  BY <1>1 DEF Level
<1>3. ASSUME NEW m \in Int, NEW n \in Int, m <= n PROVE Level(m) <= Level(n)
  <2>1. LeakStep * (n - m) >= 0 /\ LeakStep * n = LeakStep * m + LeakStep * (n - m)
    BY <1>1, <1>3
  <2> QED
    BY <1>1, <2>1 DEF Level
<1> QED
  BY <1>1, <1>2, <1>3 DEF Level

\* Nothing leaks when the emulator starts.
LEMMA LeakInit == Init => LeakInv
<1> SUFFICES ASSUME Init PROVE LeakInv
  OBVIOUS
<1>1. Raising = {}
  BY DEF Init, Raising
<1>2. IsFiniteSet(Raising) /\ Cardinality(Raising) = 0
  BY <1>1, FS_EmptySet
<1>3. Done = 0 /\ Spent = 0
  BY <1>2 DEF Init, Done, Spent, FlagKinds
<1>4. mem = InitMem /\ tpc = "top"
  BY DEF Init
<1>5. InitMem < OomThreshold
  BY LevelAssumption
<1> QED
  BY <1>2, <1>3, <1>4, <1>5, LevelGrows DEF LeakInv

\* Which steps raise the flag, write memory or receive a command.
LEMMA LeakKinds ==
  ASSUME TypeInv, [Next]_vars
  PROVE  \/ \E h \in Handlers : Receive(h) \/ SetFlag(h)
         \/ \E h \in Handlers : ResetMem(h) /\ Raising' = Raising
         \/ Telemetry
         \/ /\ flag'["MEMORY_LEAK"] => flag["MEMORY_LEAK"]
            /\ UNCHANGED <<mem, tpc, tmem, sent>> /\ Raising' = Raising
<1> DEFINE Others == /\ flag'["MEMORY_LEAK"] => flag["MEMORY_LEAK"]
                     /\ UNCHANGED <<mem, tpc, tmem, sent>> /\ Raising' = Raising
<1>0. hpc \in [Handlers -> HandlerPcs] /\ flag \in [FlagKinds -> BOOLEAN]
  BY DEF TypeInv, TypeOK
<1>1. CASE (\E i \in 1..MaxBoots : Boot(i)) \/ StopBegin \/ Stopping \/ UNCHANGED vars
  BY <1>1 DEF Boot, BootCheck, BootStore, StopBegin, Stopping, StopJoinable, StopJoin,
     StopJoinThrows, StopJoined, StopTelemetry, Destroy, vars, Raising
<1>2. ASSUME NEW h \in Handlers, Segfault(h) \/ Assign(h) \/ Status(h) \/ Reply(h) PROVE Others
  BY <1>0, <1>2 DEF Segfault, Assign, NameBegin, NameEnd, Status, ReadStage,
     ReadMem, ReadTemp, ReadActive, Reply, Raising
<1>3. ASSUME NEW h \in Handlers, ClearFlag(h) PROVE Others
  <2>1. PICK k \in 1..3 : ClearFlag(h)!(k)
    BY <1>3 DEF ClearFlag
  <2>2. /\ hpc[h] = ClearPc[k]
        /\ flag' = [flag EXCEPT ![ResetOrder[k]] = FALSE]
        /\ hpc' = [hpc EXCEPT ![h] = IF k = 3 THEN "nameBegin" ELSE ClearPc[k + 1]]
        /\ UNCHANGED <<mem, tpc, tmem, sent>>
    BY <2>1
  <2>3. flag'["MEMORY_LEAK"] => flag["MEMORY_LEAK"]
    BY <1>0, <2>2 DEF ResetOrder, FlagKinds
  <2>4. Raising' = Raising
    BY <1>0, <2>2 DEF ClearPc, Raising
  <2> QED
    BY <2>2, <2>3, <2>4
<1>4. ASSUME NEW h \in Handlers,
             \/ ResetStage(h) \/ ResetTemp(h) \/ Bump(h) \/ Joinable(h) \/ Detach(h)
             \/ DetachThrows(h) \/ Spawn(h) \/ SpawnTerminates(h)
      PROVE  Others
  BY <1>0, <1>4 DEF ResetStage, ResetTemp, Bump, Joinable, Detach, DetachThrows, Spawn,
     SpawnTerminates, Raising
<1>5. ASSUME NEW h \in Handlers, ResetMem(h) PROVE Raising' = Raising
  BY <1>0, <1>5 DEF ResetMem, Raising
<1> QED
  BY <1>1, <1>2, <1>3, <1>4, <1>5 DEF Next, Execute, Inject, Reboot, Ended

\* The order of integers does not change when one is taken from both.
LEMMA LessOne ==
  ASSUME NEW m \in Int, NEW n \in Int, m <= n
  PROVE  m - 1 \in Int /\ n - 1 \in Int /\ m - 1 <= n - 1
OBVIOUS

\* A flag raised counts as a leak, a flag lowered as one spent; only TelLeakStore raises
\* memory, and below the level of the leak that is on.
LEMMA LeakStepped ==
  ASSUME TypeInv, LeakInv, [Next]_vars
  PROVE  LeakInv'
<1>0. /\ hpc \in [Handlers -> HandlerPcs] /\ flag \in [FlagKinds -> BOOLEAN]
      /\ mem \in Nat /\ tmem \in Nat /\ sent \in Nat /\ tpc \in TelemetryPcs
  BY BoundAssumption DEF TypeInv, TypeOK
<1>1. Cardinality(Raising) \in Nat /\ Done \in Int /\ Spent \in Int /\ Spent <= Done
      /\ Done <= Spent + 1
  BY <1>0, FS_CardinalityType DEF LeakInv, Done, Spent
<1>2. /\ OomThreshold \in Int /\ InitMem \in Nat
      /\ \A n \in Int : Level(n) \in Int
      /\ \A n \in Int : n >= 0 => OomThreshold <= Level(n)
      /\ \A x \in Nat : \A m, n \in Int : x < Level(m) /\ m <= n => x < Level(n)
  <2>1. \A n \in Int : n >= 0 => OomThreshold <= Level(n)
    BY LevelGrows
  <2>2. ASSUME NEW x \in Nat, NEW m \in Int, NEW n \in Int, x < Level(m), m <= n
        PROVE  x < Level(n)
    <3>1. Level(m) \in Int /\ Level(n) \in Int /\ Level(m) <= Level(n)
      BY <2>2, LevelGrows
    <3> QED
      BY <2>2, <3>1
  <2> QED
    BY <2>1, <2>2, LevelGrows, MemAssumption
<1>2a. Done >= 0 /\ Spent >= 0 /\ OomThreshold <= Level(Spent) /\ OomThreshold <= Level(Done)
  BY <1>1, <1>2 DEF LeakInv
<1> HIDE DEF Level
<1> USE DEF LeakInv
<1>3. ASSUME Done' \in Int, Spent' \in Int, Spent <= Spent', Done <= Done',
             IsFiniteSet(Raising'), UNCHANGED <<mem, tpc, tmem>>
      PROVE  LeakInv'
  <2> DEFINE bound == IF tpc \in {"oomCheck", "oom"} THEN Done ELSE Spent
  <2>1. mem < Level(bound) /\ bound \in Int /\ bound' \in Int /\ bound <= bound'
    BY <1>0, <1>1, <1>3
  <2>2. mem' < Level(bound')
    BY <1>0, <1>2, <1>3, <2>1
  <2>3. tpc' = "leakStore" => Done >= 1 /\ tmem < Level(Done - 1)
    BY <1>3
  <2>4. tpc' = "leakStore" => tmem' < Level(Done' - 1)
    <3>1. Done - 1 \in Int /\ Done' - 1 \in Int /\ Done - 1 <= Done' - 1
      BY <1>1, <1>3, LessOne
    <3> QED
      BY <1>0, <1>2, <1>3, <2>3, <3>1
  <2> QED
    BY <1>1, <1>3, <2>2, <2>4
<1>4. ASSUME NEW h \in Handlers, Receive(h) PROVE LeakInv'
  <2>1. PICK c \in Commands : hpc' = [hpc EXCEPT ![h] = FirstPc(c)]
    BY <1>4 DEF Receive
  <2>2. Raising' = Raising \/ Raising' = Raising \cup {h}
    BY <1>0, <1>4, <2>1 DEF Receive, Raising
  <2>3. h \notin Raising
    BY <1>4 DEF Receive, Raising
  <2>4. IsFiniteSet(Raising') /\ Cardinality(Raising') \in {Cardinality(Raising), Cardinality(Raising) + 1}
    BY <2>2, <2>3, FS_AddElement
  <2>5. Done' \in {Done, Done + 1} /\ flag' = flag
    BY <1>0, <1>1, <1>4, <2>4 DEF Receive, Done
  <2>6. Spent' \in Int /\ Spent <= Spent'
    <3>1. CASE flag["MEMORY_LEAK"]
      <4>1. Done' \in Int /\ Done <= Done'
        BY <1>1, <2>5
      <4> QED
        BY <1>1, <2>5, <3>1, <4>1, LessOne DEF Spent
    <3>2. CASE ~flag["MEMORY_LEAK"]
      BY <1>1, <2>5, <3>2 DEF Spent
    <3> QED
      BY <3>1, <3>2
  <2> QED
    BY <1>1, <1>3, <1>4, <2>4, <2>5, <2>6 DEF Receive
<1>5. ASSUME NEW h \in Handlers, SetFlag(h) PROVE LeakInv'
  <2>1. h \in Raising /\ Raising' = Raising \ {h}
    BY <1>0, <1>5 DEF SetFlag, Raising
  <2>2. IsFiniteSet(Raising') /\ Cardinality(Raising') = Cardinality(Raising) - 1
    BY <2>1, FS_RemoveElement
  <2>3. Done' = Done + 1
    BY <1>0, <1>1, <1>5, <2>2 DEF SetFlag, Done
  <2>4. Spent' \in Int /\ Spent <= Spent'
    BY <1>0, <1>1, <1>5, <2>3 DEF Spent
  <2> QED
    BY <1>1, <1>3, <1>5, <2>2, <2>3, <2>4 DEF SetFlag
<1>6. ASSUME flag'["MEMORY_LEAK"] => flag["MEMORY_LEAK"],
             UNCHANGED <<mem, tpc, tmem, sent>>, Raising' = Raising
      PROVE  LeakInv'
  <2>1. Done' = Done
    BY <1>6 DEF Done
  <2>2. Spent' \in Int /\ Spent <= Spent'
    BY <1>1, <1>6, <2>1 DEF Spent
  <2> QED
    BY <1>1, <1>3, <1>6, <2>1, <2>2
<1>7. ASSUME UNCHANGED sent, Raising' = Raising, flag' = flag PROVE UNCHANGED <<Done, Spent>>
  BY <1>7 DEF Done, Spent
<1>8. ASSUME NEW h \in Handlers, ResetMem(h), Raising' = Raising PROVE LeakInv'
  <2>1. mem' = InitMem /\ UNCHANGED <<tpc, tmem, Done, Spent>>
    BY <1>7, <1>8 DEF ResetMem
  <2>2. InitMem \in Nat /\ InitMem < OomThreshold
    BY LevelAssumption, MemAssumption
  <2>3. InitMem < Level(Spent) /\ InitMem < Level(Done)
    BY <1>1, <1>2, <1>2a, <2>2
  <2> QED
    BY <1>1, <1>8, <2>1, <2>3
<1>9. CASE Telemetry
  <2>0. Raising' = Raising /\ sent' = sent
    BY <1>9 DEF Raising, Telemetry, TelTop, TelStage, TelLeakLoad, TelLeakStore, TelOomCheck,
       TelOom, TelNominalMem, TelSensor, TelPublish
  <2>1. CASE TelTop \/ TelStage \/ TelSensor \/ TelPublish
    BY <1>0, <1>1, <1>7, <2>0, <2>1 DEF TelTop, TelStage, TelSensor, TelPublish
  <2>2. CASE TelLeakLoad
    <3>1. UNCHANGED <<Done, Spent, mem>> /\ tmem' = mem /\ tpc = "leak" /\ tpc' = "leakStore"
      BY <1>7, <2>0, <2>2 DEF TelLeakLoad
    <3>2. Spent = Done - 1
      BY <2>2 DEF TelLeakLoad, Spent
    <3> QED
      BY <1>1, <2>0, <3>1, <3>2
  <2>3. CASE TelLeakStore
    <3>1. /\ UNCHANGED <<Done, Spent>> /\ mem' = tmem + LeakStep
          /\ tpc = "leakStore" /\ tpc' = "oomCheck"
      BY <1>7, <2>0, <2>3 DEF TelLeakStore
    <3>2. Level(Done) = Level(Done - 1) + LeakStep /\ Level(Done - 1) \in Int
      <4>1. Done - 1 \in Int /\ (Done - 1) + 1 = Done
        BY <1>1
      <4> QED
        BY <4>1, LevelGrows
    <3> QED
      BY <1>0, <1>1, <2>0, <3>1, <3>2, MemAssumption
  <2>4. CASE TelOomCheck
    <3>1. /\ UNCHANGED <<Done, Spent, mem, tmem>> /\ tpc = "oomCheck"
          /\ tpc' = IF mem >= OomThreshold THEN "oom" ELSE "sensor"
      BY <1>7, <2>0, <2>4 DEF TelOomCheck
    <3>2. OomThreshold <= Level(Spent) /\ Level(Spent) \in Int /\ OomThreshold \in Int
      BY <1>1, <1>2, <1>2a
    <3> QED
      BY <1>0, <1>1, <2>0, <3>1, <3>2
  <2>5. CASE TelOom
    <3>1. /\ Done' = Done /\ ~flag'["MEMORY_LEAK"] /\ UNCHANGED <<mem, tmem>>
          /\ tpc = "oom" /\ tpc' = "sensor"
      BY <1>0, <2>0, <2>5 DEF TelOom, Done, FlagKinds
    <3>2. Spent' = Done
      BY <3>1 DEF Spent
    <3> QED
      BY <1>1, <2>0, <3>1, <3>2
  <2>6. CASE TelNominalMem
    <3>1. UNCHANGED <<Done, Spent, tmem>> /\ mem' \in NominalMem /\ tpc' = "sensor"
      BY <1>7, <2>0, <2>6 DEF TelNominalMem
    <3>2. mem' \in Nat /\ mem' < OomThreshold
      BY <3>1, LevelAssumption, MemAssumption
    <3>3. OomThreshold <= Level(Spent) /\ Level(Spent) \in Int /\ OomThreshold \in Int
      BY <1>1, <1>2, <1>2a
    <3> QED
      BY <1>1, <2>0, <3>1, <3>2, <3>3
  <2> QED
    BY <1>9, <2>1, <2>2, <2>3, <2>4, <2>5, <2>6 DEF Telemetry
<1> QED
  BY <1>4, <1>5, <1>6, <1>8, <1>9, LeakKinds

\* Memory exceeds the out-of-memory level by at most a step for each command received.
THEOREM LeaksAreBounded == Spec => []OomBounded
<1>1. TypeInv /\ LeakInv => OomBounded
  <2> SUFFICES ASSUME TypeInv, LeakInv PROVE OomBounded
    OBVIOUS
  <2>1. /\ mem \in Nat /\ sent \in Nat /\ Cardinality(Raising) \in Nat
        /\ Done \in Int /\ Spent \in Int /\ Spent <= Done /\ Done <= sent
    BY BoundAssumption, FS_CardinalityType DEF TypeInv, TypeOK, LeakInv, Done, Spent
  <2> DEFINE n == IF sent = 0 THEN 1 ELSE sent
  <2>2. n \in Int /\ Done <= n /\ Spent <= n
    BY <2>1
  <2>3. mem < Level(n)
    BY <2>1, <2>2, LevelGrows DEF LeakInv
  <2> QED
    BY <2>3 DEF OomBounded, Level
<1>2. TypeInv /\ LeakInv /\ [Next]_vars => LeakInv'
  BY LeakStepped
<1> QED
  BY <1>1, <1>2, LeakInit, BootCorrect, PTL DEF Spec
-----------------------------------------------------------------------------
(* One client at a time.                                               *)

NoFlags == \A k \in FlagKinds : ~flag[k]

\* A handler that is not in the middle of writing the failure state.
Between(h) == hpc[h] \notin {"clearLeak", "clearSensor", "clearNet", "nameBegin", "nameEnd"}

\* While main runs, a reboot that saw a joinable handle still has one to detach
\* and assigns to an empty one.  The flags are cleared before "none" is written,
\* and a name is written after its flag is raised.
OneClientInv ==
  /\ mpc = "run" =>
       /\ proc # "terminated"
       /\ \A h \in Handlers : /\ hpc[h] = "detach" => handle # 0
                              /\ hpc[h] = "spawn"  => handle = 0
  /\ racing = {}
  /\ \A h \in Handlers :
       /\ Between(h) => (active = NoName => NoFlags)
       /\ hpc[h] \in {"clearSensor", "clearNet"} => ~flag["MEMORY_LEAK"]
       /\ hpc[h] = "clearNet" => ~flag["SENSOR_TIMEOUT"]
       /\ hpc[h] \in {"nameBegin", "nameEnd"} /\ cmd[h] = "reboot" => NoFlags

\* Nothing is injected and nothing replaced when the emulator starts.
LEMMA OneClientInit == Init => OneClientInv
BY DEF Init, OneClientInv, NoFlags, Between

\* With one handler only its own steps, telemetry and the boot threads interleave.
LEMMA OneClientStep ==
  TypeInv /\ Serial /\ OneClientInv /\ [Next]_vars => OneClientInv'
<1> SUFFICES ASSUME TypeInv, Serial, OneClientInv, [Next]_vars PROVE OneClientInv'
  OBVIOUS
<1> USE DEF TypeInv, OneClientInv
<1>0. \A g, h \in Handlers : g = h
  BY DEF Serial
<1>1. ASSUME NEW i \in 1..MaxBoots, BootCheck(i) PROVE OneClientInv'
  BY <1>1 DEF BootCheck, TypeOK, NoFlags, Between, FlagKinds
<1>2. ASSUME NEW i \in 1..MaxBoots, BootStore(i) PROVE OneClientInv'
  BY <1>2 DEF BootStore, TypeOK, NoFlags, Between, FlagKinds
<1>3. CASE TelTop \/ TelStage
  BY <1>3 DEF TelTop, TelStage, TypeOK, NoFlags, Between, FlagKinds
<1>4. CASE TelLeakLoad
  BY <1>4 DEF TelLeakLoad, TypeOK, NoFlags, Between, FlagKinds
<1>5. CASE TelLeakStore
  BY <1>5 DEF TelLeakStore, TypeOK, NoFlags, Between, FlagKinds
<1>6. CASE TelOomCheck
  BY <1>6 DEF TelOomCheck, TypeOK, NoFlags, Between, FlagKinds
<1>7. CASE TelOom
  BY <1>7 DEF TelOom, TypeOK, NoFlags, Between, FlagKinds
<1>8. CASE TelNominalMem
  BY <1>8 DEF TelNominalMem, TypeOK, NoFlags, Between, FlagKinds
<1>9. CASE TelSensor
  BY <1>9 DEF TelSensor, TypeOK, NoFlags, Between, FlagKinds
<1>10. CASE TelPublish
  BY <1>10 DEF TelPublish, TypeOK, NoFlags, Between, FlagKinds
<1>11. ASSUME NEW h \in Handlers, Receive(h) PROVE OneClientInv'
  <2>1. PICK c \in Commands : hpc' = [hpc EXCEPT ![h] = FirstPc(c)]
    BY <1>11 DEF Receive
  <2>2. FirstPc(c) \notin {"clearSensor", "clearNet", "nameBegin", "nameEnd", "detach", "spawn"}
    BY CommandsAssumption DEF FirstPc, ClearPc, FlagKinds, AllCommands
  <2> QED
    BY <1>11, <2>1, <2>2, <1>0 DEF Receive, TypeOK, NoFlags, Between
<1>12. ASSUME NEW h \in Handlers, Reply(h) PROVE OneClientInv'
  BY <1>12, <1>0 DEF Reply, TypeOK, NoFlags, Between
<1>13. ASSUME NEW h \in Handlers, SetFlag(h) PROVE OneClientInv'
  BY <1>13, <1>0 DEF SetFlag, TypeOK, NoFlags, Between, CommandsInPlace, FlagKinds
<1>14. ASSUME NEW h \in Handlers, Segfault(h) PROVE OneClientInv'
  BY <1>14, <1>0 DEF Segfault, TypeOK, NoFlags, Between
<1>15. ASSUME NEW h \in Handlers, NameBegin(h) PROVE OneClientInv'
  <2>1. writers = {}
    BY <1>15, <1>0 DEF NameBegin, TypeOK, CommandsInPlace
  <2> QED
    BY <1>15, <2>1, <1>0 DEF NameBegin, TypeOK, NoFlags, Between
<1>16. ASSUME NEW h \in Handlers, NameEnd(h) PROVE OneClientInv'
  <2>1. hpc[h] = "nameEnd" /\ cmd[h] \in FlagKinds \cup {"reboot"}
    BY <1>16 DEF NameEnd, CommandsInPlace
  <2>2. active' = NewName(h)
    BY <1>16 DEF NameEnd
  <2>3. active' = NoName => NoFlags
    BY <2>1, <2>2 DEF NewName, NoName, FlagKinds
  <2> QED
    BY <1>16, <2>3, <1>0 DEF NameEnd, TypeOK, NoFlags, Between
<1>17. ASSUME NEW h \in Handlers, ClearFlag(h) PROVE OneClientInv'
  <2>1. PICK k \in 1..3 : ClearFlag(h)!(k)
    BY <1>17 DEF ClearFlag
  <2>2. /\ hpc[h] = ClearPc[k]
        /\ flag' = [flag EXCEPT ![ResetOrder[k]] = FALSE]
        /\ hpc' = [hpc EXCEPT ![h] = IF k = 3 THEN "nameBegin" ELSE ClearPc[k + 1]]
        /\ UNCHANGED <<nameVars, handle, mpc, proc, cmd>>
    BY <2>1
  <2> QED
    BY <2>2, <1>0 DEF TypeOK, NoFlags, Between, ClearPc, ResetOrder, FlagKinds
<1>18. ASSUME NEW h \in Handlers, ResetStage(h) PROVE OneClientInv'
  BY <1>18, <1>0 DEF ResetStage, TypeOK, NoFlags, Between
<1>19. ASSUME NEW h \in Handlers, ResetMem(h) PROVE OneClientInv'
  BY <1>19, <1>0 DEF ResetMem, TypeOK, NoFlags, Between
<1>20. ASSUME NEW h \in Handlers, ResetTemp(h) PROVE OneClientInv'
  BY <1>20, <1>0 DEF ResetTemp, TypeOK, NoFlags, Between
<1>21. ASSUME NEW h \in Handlers, Bump(h) PROVE OneClientInv'
  BY <1>21, <1>0 DEF Bump, TypeOK, NoFlags, Between
<1>22. ASSUME NEW h \in Handlers, Joinable(h) PROVE OneClientInv'
  BY <1>22, <1>0 DEF Joinable, TypeOK, NoFlags, Between
<1>23. ASSUME NEW h \in Handlers, Detach(h) PROVE OneClientInv'
  BY <1>23, <1>0 DEF Detach, TypeOK, NoFlags, Between
<1>24. ASSUME NEW h \in Handlers, DetachThrows(h) PROVE OneClientInv'
  BY <1>24, <1>0 DEF DetachThrows, TypeOK, NoFlags, Between
<1>25. ASSUME NEW h \in Handlers, Spawn(h) PROVE OneClientInv'
  BY <1>25, <1>0 DEF Spawn, TypeOK, NoFlags, Between
<1>26. ASSUME NEW h \in Handlers, SpawnTerminates(h) PROVE OneClientInv'
  BY <1>26, <1>0 DEF SpawnTerminates, TypeOK, NoFlags, Between
<1>27. ASSUME NEW h \in Handlers, ReadStage(h) PROVE OneClientInv'
  BY <1>27, <1>0 DEF ReadStage, TypeOK, NoFlags, Between
<1>28. ASSUME NEW h \in Handlers, ReadMem(h) PROVE OneClientInv'
  BY <1>28, <1>0 DEF ReadMem, TypeOK, NoFlags, Between
<1>29. ASSUME NEW h \in Handlers, ReadTemp(h) PROVE OneClientInv'
  BY <1>29, <1>0 DEF ReadTemp, TypeOK, NoFlags, Between
<1>30. ASSUME NEW h \in Handlers, ReadActive(h) PROVE OneClientInv'
  BY <1>30, <1>0 DEF ReadActive, TypeOK, NoFlags, Between
<1>31. CASE StopBegin
  BY <1>31 DEF StopBegin, TypeOK, NoFlags, Between, FlagKinds
<1>32. CASE StopJoinable
  BY <1>32 DEF StopJoinable, TypeOK, NoFlags, Between, FlagKinds
<1>33. CASE StopJoin
  BY <1>33 DEF StopJoin, TypeOK, NoFlags, Between, FlagKinds
<1>34. CASE StopJoinThrows
  BY <1>34 DEF StopJoinThrows, TypeOK, NoFlags, Between, FlagKinds
<1>35. CASE StopJoined
  BY <1>35 DEF StopJoined, TypeOK, NoFlags, Between, FlagKinds
<1>36. CASE StopTelemetry
  BY <1>36 DEF StopTelemetry, TypeOK, NoFlags, Between, FlagKinds
<1>37. CASE Destroy
  BY <1>37 DEF Destroy, TypeOK, NoFlags, Between, FlagKinds
<1>38. CASE UNCHANGED vars
  BY <1>38 DEF vars, NoFlags, Between
<1> QED
  BY <1>1, <1>2, <1>3, <1>4, <1>5, <1>6, <1>7, <1>8, <1>9, <1>10, <1>11, <1>12, <1>13,
     <1>14, <1>15, <1>16, <1>17, <1>18, <1>19, <1>20, <1>21, <1>22, <1>23, <1>24, <1>25,
     <1>26, <1>27, <1>28, <1>29, <1>30, <1>31, <1>32, <1>33, <1>34, <1>35, <1>36, <1>37,
     <1>38
  DEF Next, Boot, Telemetry, Execute, Inject, Assign, Reboot, Status, Stopping, Ended

\* OneClientInv holds in every reachable state of an emulator with one client.
LEMMA OneClientCorrect == Spec => [](Serial => OneClientInv)
<1>1. Init => (Serial => OneClientInv)
  BY OneClientInit
<1>2. TypeInv /\ (Serial => OneClientInv) /\ [Next]_vars => (Serial => OneClientInv)'
  BY OneClientStep DEF Serial
<1> QED
  BY <1>1, <1>2, BootCorrect, PTL DEF Spec

\* With one client, and until the emulator is stopped, replacing the boot thread
\* never calls std::terminate.
THEOREM SerialRebootsAreSafe == Spec => []SerialRebootsNeverTerminate
<1>1. (Serial => OneClientInv) => SerialRebootsNeverTerminate
  BY DEF OneClientInv, SerialRebootsNeverTerminate
<1> QED
  BY <1>1, OneClientCorrect, PTL

\* With one client, between two commands a raised failure flag has a name.
THEOREM FailuresAreReported == Spec => []NoSilentFailure
<1>1. (Serial => OneClientInv) => NoSilentFailure
  BY DEF OneClientInv, NoSilentFailure, Between, NoFlags
<1> QED
  BY <1>1, OneClientCorrect, PTL
=============================================================================
