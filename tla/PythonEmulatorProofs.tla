------------------------- MODULE PythonEmulatorProofs -------------------------
(***************************************************************************)
(* Proofs about PythonEmulator, for any number of clients and commands.    *)
(***************************************************************************)
EXTENDS PythonEmulator, FiniteSetTheorems, TLAPS

USE ThreadAssumption, PipeAssumption DEF READY, GaveUp

-----------------------------------------------------------------------------
(* Types.                                                                  *)

\* A handler that waits for its connection has no log_write under way.
HandlersFree ==
  \A c \in Clients : hpc[c] \in {"none", "recv", "cleanup", "done"} => log[c] = "none"

\* The connection that is about to be listed has no handler yet.
AcceptedFresh == acc # NoThread => hpc[acc] = "none"

TypeInv == TypeOK /\ HandlersFree /\ AcceptedFresh

\* What a broadcast does to the threads that log.
LEMMA SendToAllType ==
  ASSUME TypeInv, NEW t \in Threads, log[t] \in {"print", "cast"},
         NEW drop \in SUBSET Dead, SendToAll(t, drop)
  PROVE  /\ log' \in [Threads -> {"none", "print", "cast", "send"}]
         /\ lock' \in Threads \cup {NoThread}
         /\ \A u \in Threads : log'[u] = "send" <=> lock' = u
         /\ socks' \subseteq Clients
         /\ \A u \in Threads : u # t => log'[u] = log[u]
  BY DEF TypeInv, TypeOK, SendToAll, Threads

\* A thread that starts to log was not logging.
LEMMA SayType ==
  ASSUME TypeInv, NEW t \in Threads, log[t] = "none", Say(t), lock' = lock
  PROVE  /\ log' \in [Threads -> {"none", "print", "cast", "send"}]
         /\ \A u \in Threads : log'[u] = "send" <=> lock' = u
         /\ \A u \in Threads : u # t => log'[u] = log[u]
  BY DEF TypeInv, TypeOK, Say

\* Every thread is one of the three kinds, and none is two.
LEMMA Kinds ==
  /\ Tel \in Threads /\ Clients \subseteq Threads /\ BootThreads \subseteq Threads
  /\ Tel \notin Clients /\ \A b \in BootThreads : b \notin Clients
  /\ NoThread \notin Threads
  BY DEF Threads

LEMMA TypeInit == Init => TypeInv
<1> SUFFICES ASSUME Init PROVE TypeInv
  OBVIOUS
<1>1. /\ running \in BOOLEAN /\ exited \in BOOLEAN /\ stopping \in BOOLEAN /\ overlapped \in BOOLEAN
      /\ failing \subseteq Failures /\ active \in Failures \cup {"none"}
      /\ temp \in {"ok", "bad"} /\ sample \in {"ok", "bad"}
      /\ tpc \in {"top", "leak", "oom", "sensor", "publish"}
  BY DEF Init
<1>6. stage \in 1..READY /\ bootId \in Nat \ {0}
  BY DEF Init
<1>5. pipe \in 0..PipeCap
  BY DEF Init
<1>2. /\ id \in [BootThreads -> Nat] /\ at \in [BootThreads -> 0..GaveUp]
      /\ log \in [Threads -> {"none", "print", "cast", "send"}]
      /\ lock \in Threads \cup {NoThread}
      /\ \A t \in Threads : log[t] = "send" <=> lock = t
      /\ socks \subseteq Clients /\ acc \in Clients \cup {NoThread}
  BY Kinds DEF Init
<1>3. /\ hpc \in [Clients -> {"none", "recv", "rebooting", "segfault", "reply", "cleanup", "done"}]
      /\ peer \in [Clients -> {"away", "fresh", "stalled", "reading", "gone"}]
      /\ line \in [Clients -> Commands \cup {NoLine}]
      /\ answered \subseteq Clients
  BY DEF Init
<1>4. HandlersFree /\ AcceptedFresh
  BY Kinds DEF Init, HandlersFree, AcceptedFresh
<1> QED BY <1>1, <1>2, <1>3, <1>4, <1>5, <1>6 DEF TypeInv, TypeOK

\* Every step of a logger, a device thread, the server, stop() or a peer keeps types.
LEMMA TypeNext == TypeInv /\ [Next]_vars => TypeInv'
<1> SUFFICES ASSUME TypeInv, [Next]_vars PROVE TypeInv'
  OBVIOUS
<1> USE DEF deviceVars, bootVars, telVars, logVars, connVars
<1>1. ASSUME NEW t \in Threads, WriteOut(t) PROVE TypeInv'
  <2>1. pipe' \in 0..PipeCap
    BY <1>1 DEF WriteOut, TypeInv, TypeOK
  <2> QED BY <1>1, <2>1, SendToAllType, Kinds DEF WriteOut, TypeInv, TypeOK, HandlersFree, AcceptedFresh
<1>2. ASSUME NEW t \in Threads, Cast(t) PROVE TypeInv'
  BY <1>2, SendToAllType, Kinds DEF Cast, TypeInv, TypeOK, HandlersFree, AcceptedFresh
<1>3. ASSUME NEW t \in Threads, Send(t) PROVE TypeInv'
  BY <1>3, Kinds DEF Send, TypeInv, TypeOK, HandlersFree, AcceptedFresh
<1>4. ASSUME NEW b \in BootThreads, Boot(b) PROVE TypeInv'
  <2>1. /\ stage' \in 1..READY /\ at' \in [BootThreads -> 0..GaveUp]
    BY <1>4 DEF Boot, TypeInv, TypeOK
  <2>2. CASE Say(b)
    BY <1>4, <2>1, <2>2, SayType, Kinds DEF Boot, Free, TypeInv, TypeOK, HandlersFree, AcceptedFresh
  <2>3. CASE UNCHANGED log
    BY <1>4, <2>1, <2>3 DEF Boot, TypeInv, TypeOK, HandlersFree, AcceptedFresh
  <2> QED BY <1>4, <2>2, <2>3 DEF Boot
<1>5. CASE Telemetry
  <2>0. /\ tpc' \in {"top", "leak", "oom", "sensor", "publish"}
        /\ temp' \in {"ok", "bad"} /\ sample' \in {"ok", "bad"} /\ failing' \subseteq Failures
        /\ log[Tel] = "none" /\ (Say(Tel) \/ UNCHANGED log)
    BY <1>5 DEF Telemetry, TelTop, TelLeak, TelOom, TelSensor, TelPublish, TelGoto, Free, TypeInv, TypeOK
  <2>1. UNCHANGED <<running, exited, stage, bootId, active, bootVars, pipe, lock, socks, connVars,
                    stopping, overlapped>>
    BY <1>5 DEF Telemetry, TelTop, TelLeak, TelOom, TelSensor, TelPublish
  <2>2. CASE Say(Tel)
    BY <2>0, <2>1, <2>2, SayType, Kinds DEF TypeInv, TypeOK, HandlersFree, AcceptedFresh
  <2>3. CASE UNCHANGED log
    BY <2>0, <2>1, <2>3 DEF TypeInv, TypeOK, HandlersFree, AcceptedFresh
  <2> QED BY <2>0, <2>2, <2>3
<1>6. CASE Accept
  BY <1>6 DEF Accept, TypeInv, TypeOK, HandlersFree, AcceptedFresh
<1>7. CASE Register
  <2>1. acc \in Clients
    BY <1>7 DEF Register, TypeInv, TypeOK
  <2> QED BY <1>7, <2>1, Kinds DEF Register, TypeInv, TypeOK, HandlersFree, AcceptedFresh
<1>8. ASSUME NEW c \in Clients, Recv(c) PROVE TypeInv'
  <2>1. CASE Reset(c) \/ Inject(c, line[c])
    <3>1. Say(c) /\ log[c] = "none"
      BY <1>8, <2>1 DEF Recv, Reset, Inject, TypeInv, HandlersFree
    <3>2. /\ failing' \subseteq Failures /\ active' \in Failures \cup {"none"}
          /\ stage' \in 1..READY /\ temp' \in {"ok", "bad"} /\ bootId' \in Nat \ {0}
          /\ overlapped' \in BOOLEAN
      <4>1. CASE Reset(c)
        BY <4>1, Kinds DEF Reset, TypeInv, TypeOK
      <4>2. CASE Inject(c, line[c])
        BY <4>2 DEF Inject, TypeInv, TypeOK
      <4> QED BY <2>1, <4>1, <4>2
    <3>3. /\ hpc' \in [Clients -> {"none", "recv", "rebooting", "segfault", "reply", "cleanup", "done"}]
          /\ hpc'[c] \in {"rebooting", "segfault", "reply"}
          /\ \A d \in Clients : d # c => hpc'[d] = hpc[d]
      BY <1>8, <2>1 DEF Reset, Inject, TypeInv, TypeOK
    <3> QED BY <1>8, <3>1, <3>2, <3>3, SayType, Kinds DEF Recv, TypeInv, TypeOK, HandlersFree, AcceptedFresh
  <2>2. CASE UNCHANGED <<failing, active, stage, temp, bootId, log, overlapped>>
    <3>1. /\ hpc' \in [Clients -> {"none", "recv", "rebooting", "segfault", "reply", "cleanup", "done"}]
          /\ hpc[c] = "recv" /\ \A d \in Clients : d # c => hpc'[d] = hpc[d]
      BY <1>8 DEF Recv, Reset, Inject, TypeInv, TypeOK
    <3> QED BY <1>8, <2>2, <3>1 DEF Recv, TypeInv, TypeOK, HandlersFree, AcceptedFresh
  <2> QED BY <1>8, <2>1, <2>2 DEF Recv
<1>9. ASSUME NEW c \in Clients, Spawn(c) PROVE TypeInv'
  <2>1. id' \in [BootThreads -> Nat]
    BY <1>9 DEF Spawn, TypeInv, TypeOK
  <2> QED BY <1>9, <2>1 DEF Spawn, Free, TypeInv, TypeOK, HandlersFree, AcceptedFresh
<1>10. ASSUME NEW c \in Clients, Segfault(c) \/ Reply(c) \/ Cleanup(c) PROVE TypeInv'
  <2>1. CASE Segfault(c)
    BY <2>1 DEF Segfault, TypeInv, TypeOK, HandlersFree, AcceptedFresh
  <2>2. CASE Reply(c)
    BY <2>2 DEF Reply, Free, TypeInv, TypeOK, HandlersFree, AcceptedFresh
  <2>3. CASE Cleanup(c)
    BY <2>3 DEF Cleanup, TypeInv, TypeOK, HandlersFree, AcceptedFresh
  <2> QED BY <1>10, <2>1, <2>2, <2>3
<1>11. CASE StopBegin \/ StopClients
  BY <1>11 DEF StopBegin, StopClients, TypeInv, TypeOK, HandlersFree, AcceptedFresh
<1>12. CASE Peers
  BY <1>12, AskAssumption DEF Peers, PeerDoes, TypeInv, TypeOK, HandlersFree, AcceptedFresh
<1>13. ASSUME NEW c \in Clients, Resume(c) PROVE TypeInv'
  BY <1>13 DEF Resume, PeerDoes, TypeInv, TypeOK, HandlersFree, AcceptedFresh
<1>14. CASE Drain
  BY <1>14 DEF Drain, TypeInv, TypeOK, HandlersFree, AcceptedFresh
<1>15. CASE UNCHANGED vars
  BY <1>15 DEF vars, TypeInv, TypeOK, HandlersFree, AcceptedFresh
<1> QED
  BY <1>1, <1>2, <1>3, <1>4, <1>5, <1>6, <1>7, <1>8, <1>9, <1>10, <1>11, <1>12, <1>13, <1>14, <1>15
     DEF Next, log_write, Handler

\* Threads, connections and the device keep their types in every behaviour.
THEOREM TypeCorrect == Spec => []TypeOK
<1>1. TypeInv => TypeOK
  BY DEF TypeInv
<1> QED
  BY <1>1, TypeInit, TypeNext, PTL DEF Spec

-----------------------------------------------------------------------------
(* Failures and connections.                                               *)

\* However many clients inject and reboot at once, a failure that is set is reported:
\* flag and name change without a call in between.
THEOREM FailuresAreReported == Spec => []NoSilentFailure
<1>1. Init => NoSilentFailure
  BY DEF Init, NoSilentFailure
<1>2. NoSilentFailure /\ [Next]_vars => NoSilentFailure'
  <2> SUFFICES ASSUME NoSilentFailure, [Next]_vars PROVE NoSilentFailure'
    OBVIOUS
  <2> USE DEF deviceVars, NoSilentFailure
  <2>1. ASSUME NEW t \in Threads, log_write(t) PROVE NoSilentFailure'
    BY <2>1 DEF log_write, WriteOut, Cast, Send
  <2>2. ASSUME NEW b \in BootThreads, Boot(b) PROVE NoSilentFailure'
    BY <2>2 DEF Boot
  <2>3. CASE Telemetry
    BY <2>3 DEF Telemetry, TelTop, TelLeak, TelOom, TelSensor, TelPublish
  <2>4. CASE Accept \/ Register
    BY <2>4 DEF Accept, Register
  <2>5. ASSUME NEW c \in Clients, Handler(c) \/ Resume(c) PROVE NoSilentFailure'
    BY <2>5 DEF Handler, Recv, Reset, Inject, Spawn, Segfault, Reply, Cleanup, Resume, Failures
  <2>6. CASE StopBegin \/ StopClients \/ Peers \/ Drain
    BY <2>6 DEF StopBegin, StopClients, Peers, Drain
  <2>7. CASE UNCHANGED vars
    BY <2>7 DEF vars
  <2> QED BY <2>1, <2>2, <2>3, <2>4, <2>5, <2>6, <2>7 DEF Next
<1> QED
  BY <1>1, <1>2, PTL DEF Spec

\* However many clients come and go, the one that is there stays listed.
THEOREM ConnectedAreListed == Spec => []ConnectedClientsListed
<1>1. Init => ConnectedClientsListed
  BY DEF Init, ConnectedClientsListed
<1>2. TypeInv /\ ConnectedClientsListed /\ [Next]_vars => ConnectedClientsListed'
  <2> SUFFICES ASSUME TypeInv, ConnectedClientsListed, [Next]_vars,
                      NEW c \in Clients, ~exited',
                      hpc'[c] \in {"recv", "rebooting", "segfault", "reply"}, peer'[c] # "gone"
               PROVE  c \in socks'
    BY DEF ConnectedClientsListed
  <2> USE DEF deviceVars, logVars, connVars
  <2>0. hpc \in [Clients -> {"none", "recv", "rebooting", "segfault", "reply", "cleanup", "done"}]
        /\ acc \in Clients \cup {NoThread}
        /\ peer \in [Clients -> {"away", "fresh", "stalled", "reading", "gone"}]
    BY DEF TypeInv, TypeOK
  <2>1. ASSUME NEW t \in Threads, log_write(t) PROVE c \in socks'
    BY <2>1 DEF log_write, WriteOut, Cast, Send, SendToAll, Dead, ConnectedClientsListed
  <2>2. ASSUME NEW b \in BootThreads, Boot(b) PROVE c \in socks'
    BY <2>2 DEF Boot, ConnectedClientsListed
  <2>3. CASE Telemetry
    BY <2>3 DEF Telemetry, TelTop, TelLeak, TelOom, TelSensor, TelPublish, ConnectedClientsListed
  <2>4. CASE Accept
    BY <2>4 DEF Accept, ConnectedClientsListed
  <2>5. CASE Register
    BY <2>0, <2>5 DEF Register, ConnectedClientsListed
  <2>6. ASSUME NEW d \in Clients, Handler(d) PROVE c \in socks'
    <3>1. /\ \A e \in Clients : e # d => hpc'[e] = hpc[e]
          /\ peer' = peer
          /\ socks' = IF Cleanup(d) THEN socks \ {d} ELSE socks
      BY <2>0, <2>6 DEF Handler, Recv, Reset, Inject, Spawn, Segfault, Reply, Cleanup
    <3>2. hpc'[d] \in {"recv", "rebooting", "segfault", "reply"} =>
             hpc[d] \in {"recv", "rebooting", "segfault", "reply"} /\ ~Cleanup(d)
      BY <2>0, <2>6 DEF Handler, Recv, Reset, Inject, Spawn, Segfault, Reply, Cleanup
    <3>3. ~exited
      BY DEF Next, vars
    <3> QED BY <3>1, <3>2, <3>3 DEF ConnectedClientsListed
  <2>7. CASE StopBegin \/ StopClients \/ Drain
    BY <2>7 DEF StopBegin, StopClients, Drain, ConnectedClientsListed
  <2>8. CASE Peers
    BY <2>0, <2>8 DEF Peers, PeerDoes, ConnectedClientsListed
  <2>9. ASSUME NEW d \in Clients, Resume(d) PROVE c \in socks'
    BY <2>0, <2>9 DEF Resume, PeerDoes, ConnectedClientsListed
  <2>10. CASE UNCHANGED vars
    BY <2>10 DEF vars, ConnectedClientsListed
  <2> QED
    BY <2>1, <2>2, <2>3, <2>4, <2>5, <2>6, <2>7, <2>8, <2>9, <2>10 DEF Next
<1> QED
  BY <1>1, <1>2, TypeInit, TypeNext, PTL DEF Spec

-----------------------------------------------------------------------------
(* Boot threads.                                                           *)

\* Ids are taken from current_boot_id, and a thread not started has done nothing.
IdsBounded == \A b \in BootThreads : id[b] <= bootId /\ (id[b] = 0 => at[b] = 0)

\* Until reboots overlap, one at a time is under way, its id is still to be given to a
\* thread, no two threads share one, and the stage is the current thread's.
TakingTurns ==
  ~overlapped =>
     /\ \A c, d \in Rebooting : c = d
     /\ Rebooting # {} => \A b \in BootThreads : id[b] < bootId
     /\ \A b, d \in BootThreads : id[b] = id[d] /\ id[b] # 0 => b = d
     /\ \A b \in BootThreads : id[b] = bootId /\ at[b] \in 1..READY => stage = at[b]

BootInv == IdsBounded /\ TakingTurns /\ BootsMatchResets

\* Apart from resets, thread starts and boot threads no step touches boots or stage.
LEMMA StepKinds ==
  ASSUME TypeInv, [Next]_vars
  PROVE  \/ \E c \in Clients : /\ hpc[c] = "recv" /\ Reset(c) /\ UNCHANGED <<id, at>>
                               /\ Rebooting' = Rebooting \cup {c}
         \/ \E c \in Clients : Spawn(c) /\ Rebooting' = Rebooting \ {c}
         \/ \E b \in BootThreads : Boot(b) /\ Rebooting' = Rebooting
         \/ UNCHANGED <<id, at, bootId, stage, overlapped>> /\ Rebooting' = Rebooting
<1> DEFINE Others == UNCHANGED <<id, at, bootId, stage, overlapped>> /\ Rebooting' = Rebooting
<1> USE DEF deviceVars, bootVars, connVars
<1>0. /\ hpc \in [Clients -> {"none", "recv", "rebooting", "segfault", "reply", "cleanup", "done"}]
      /\ acc \in Clients \cup {NoThread} /\ (acc # NoThread => hpc[acc] = "none")
  BY DEF TypeInv, TypeOK, AcceptedFresh
<1>1. ASSUME NEW t \in Threads, log_write(t) PROVE Others
  BY <1>1 DEF log_write, WriteOut, Cast, Send, Rebooting
<1>2. ASSUME NEW b \in BootThreads, Boot(b) PROVE Rebooting' = Rebooting
  BY <1>2 DEF Boot, Rebooting
<1>3. CASE Telemetry
  BY <1>3 DEF Telemetry, TelTop, TelLeak, TelOom, TelSensor, TelPublish, Rebooting
<1>4. CASE Accept \/ Register
  BY <1>0, <1>4 DEF Accept, Register, Rebooting
<1>5. ASSUME NEW c \in Clients, Recv(c)
      PROVE  \/ /\ hpc[c] = "recv" /\ Reset(c) /\ UNCHANGED <<id, at>>
                /\ Rebooting' = Rebooting \cup {c}
             \/ Others
  <2>1. CASE Reset(c)
    BY <1>0, <1>5, <2>1 DEF Recv, Reset, Rebooting
  <2>2. CASE ~Reset(c)
    BY <1>0, <1>5, <2>2 DEF Recv, Inject, Rebooting
  <2> QED BY <2>1, <2>2
<1>6. ASSUME NEW c \in Clients, Spawn(c) PROVE Rebooting' = Rebooting \ {c}
  BY <1>0, <1>6 DEF Spawn, Rebooting
<1>7. ASSUME NEW c \in Clients, Segfault(c) \/ Reply(c) \/ Cleanup(c) \/ Resume(c) PROVE Others
  BY <1>0, <1>7 DEF Segfault, Reply, Cleanup, Resume, Rebooting
<1>8. CASE StopBegin \/ StopClients \/ Peers \/ Drain
  BY <1>8 DEF StopBegin, StopClients, Peers, Drain, Rebooting
<1>9. CASE UNCHANGED vars
  BY <1>9 DEF vars, Rebooting
<1> QED
  BY <1>1, <1>2, <1>3, <1>4, <1>5, <1>6, <1>7, <1>8, <1>9 DEF Next, Handler

LEMMA FiniteBoots ==
  /\ IsFiniteSet(Rebooting) /\ Cardinality(Rebooting) \in Nat
  /\ \A k \in Nat : /\ IsFiniteSet({b \in BootThreads : id[b] \in 1..k})
                     /\ Started(k) \in Nat
  BY FS_Subset, FS_CardinalityType DEF Rebooting, Started

LEMMA BootInit == Init => BootInv
<1> SUFFICES ASSUME Init PROVE BootInv
  OBVIOUS
<1>1. IdsBounded /\ TakingTurns /\ Rebooting = {}
  BY DEF Init, IdsBounded, TakingTurns, Rebooting
<1>2. {b \in BootThreads : id[b] \in 1..1} = {FirstBoot} /\ bootId = 1
  BY DEF Init
<1>3. Started(1) = 1 /\ Cardinality(Rebooting) = 0
  BY <1>1, <1>2, FS_Singleton, FS_EmptySet DEF Started
<1> QED BY <1>1, <1>2, <1>3 DEF BootInv, BootsMatchResets

\* A reset, the start of a boot thread and a step of one keep the invariant.
LEMMA BootNext == TypeInv /\ BootInv /\ [Next]_vars => BootInv'
<1> SUFFICES ASSUME TypeInv, BootInv, [Next]_vars PROVE BootInv'
  OBVIOUS
<1>0. /\ bootId \in Nat \ {0} /\ stage \in 1..READY /\ overlapped \in BOOLEAN
      /\ id \in [BootThreads -> Nat] /\ at \in [BootThreads -> 0..GaveUp]
      /\ Rebooting \subseteq Clients
  BY DEF TypeInv, TypeOK, Rebooting
<1>counts. /\ Started(bootId) \in Nat /\ Cardinality(Rebooting) \in Nat
      /\ Started(bootId) + Cardinality(Rebooting) = bootId
      /\ \A k \in 1..bootId : Started(k) \in Nat /\ Started(k) <= k
  <2>1. Cardinality(Rebooting) \in Nat
    BY FiniteBoots
  <2>2. \A k \in Nat : Started(k) \in Nat
    BY FiniteBoots
  <2>3. /\ Started(bootId) + Cardinality(Rebooting) = bootId
        /\ \A k \in 1..bootId : Started(k) <= k
    BY DEF BootInv, BootsMatchResets
  <2>4. bootId \in Nat /\ \A k \in 1..bootId : k \in Nat
    BY <1>0
  <2> QED BY <2>1, <2>2, <2>3, <2>4
<1>1. ASSUME NEW c \in Clients, hpc[c] = "recv", Reset(c), UNCHANGED <<id, at>>,
             Rebooting' = Rebooting \cup {c}
      PROVE  BootInv'
  <2>1. IdsBounded'
    BY <1>0, <1>1 DEF Reset, BootInv, IdsBounded
  <2>2. TakingTurns'
    <3> SUFFICES ASSUME ~overlapped' PROVE TakingTurns'
      BY DEF TakingTurns
    <3>1. ~overlapped /\ Rebooting' = {c} /\ bootId' = bootId + 1 /\ id' = id /\ at' = at
      BY <1>1 DEF Reset
    <3>2. \A b \in BootThreads : id[b] <= bootId /\ id[b] \in Nat
      BY <1>0 DEF BootInv, IdsBounded
    <3>3. \A b \in BootThreads : id'[b] < bootId'
      BY <1>0, <3>1, <3>2
    <3>4. \A b, d \in BootThreads : id'[b] = id'[d] /\ id'[b] # 0 => b = d
      BY <3>1 DEF BootInv, TakingTurns
    <3> QED BY <1>0, <3>1, <3>2, <3>3, <3>4 DEF TakingTurns
  <2>3. c \notin Rebooting
    BY <1>1 DEF Rebooting
  <2>4. Cardinality(Rebooting') = Cardinality(Rebooting) + 1
    BY <1>1, <2>3, FiniteBoots, FS_AddElement
  <2>5. /\ Started(bootId)' = Started(bootId)
        /\ Started(bootId + 1) = Started(bootId)
    <3>1. {b \in BootThreads : id[b] \in 1..(bootId + 1)} = {b \in BootThreads : id[b] \in 1..bootId}
      BY <1>0 DEF BootInv, IdsBounded
    <3>2. id' = id /\ bootId' = bootId + 1
      BY <1>1 DEF Reset
    <3> QED BY <3>1, <3>2 DEF Started
  <2>6. bootId' = bootId + 1 /\ (~overlapped' => ~overlapped /\ Rebooting = {})
    BY <1>1 DEF Reset
  <2>7. ~overlapped' => Cardinality(Rebooting) = 0
    BY <2>6, FS_EmptySet
  <2>8. BootsMatchResets'
    <3> USE DEF BootInv, BootsMatchResets
    <3>1. Started(bootId)' + Cardinality(Rebooting') = bootId'
      BY <1>0, <1>counts, <2>4, <2>5, <2>6
    <3>2. ASSUME NEW k \in 1..bootId' PROVE Started(k)' <= k
      <4>1. Started(k)' = Started(k)
        BY <1>1 DEF Started
      <4>2. CASE k \in 1..bootId
        BY <4>1, <4>2
      <4>3. CASE k = bootId + 1
        BY <1>0, <1>counts, <2>5, <4>1, <4>3
      <4> QED BY <1>0, <2>6, <4>2, <4>3
    <3>3. ASSUME ~overlapped', NEW k \in 1..(bootId' - Cardinality(Rebooting')) PROVE Started(k)' = k
      <4>1. Started(k)' = Started(k)
        BY <1>1 DEF Started
      <4>2. k \in 1..(bootId - Cardinality(Rebooting))
        BY <1>0, <2>4, <2>6, <2>7, <3>3, FiniteBoots
      <4> QED BY <2>6, <3>3, <4>1, <4>2
    <3> QED BY <3>1, <3>2, <3>3
  <2> QED BY <2>1, <2>2, <2>8 DEF BootInv
<1>2. ASSUME NEW c \in Clients, Spawn(c), Rebooting' = Rebooting \ {c} PROVE BootInv'
  <2>1. PICK b \in BootThreads : id[b] = 0 /\ id' = [id EXCEPT ![b] = bootId]
    BY <1>2 DEF Spawn
  <2>2. /\ at' = at /\ bootId' = bootId /\ stage' = stage /\ overlapped' = overlapped
        /\ c \in Rebooting
    BY <1>2 DEF Spawn, deviceVars, Rebooting
  <2>3. \A d \in BootThreads : id'[d] = IF d = b THEN bootId ELSE id[d]
    BY <1>0, <2>1
  <2>4. IdsBounded'
    BY <1>0, <2>1, <2>2, <2>3 DEF BootInv, IdsBounded
  <2>5. TakingTurns'
    BY <1>0, <1>2, <2>1, <2>2, <2>3 DEF BootInv, IdsBounded, TakingTurns
  <2>6. Cardinality(Rebooting') = Cardinality(Rebooting) - 1
    BY <1>2, <2>2, FiniteBoots, FS_RemoveElement
  <2>7. ASSUME NEW k \in 1..(bootId - 1) PROVE Started(k)' = Started(k)
    <3>1. {d \in BootThreads : id'[d] \in 1..k} = {d \in BootThreads : id[d] \in 1..k}
      BY <1>0, <2>1, <2>3, <2>7
    <3> QED BY <3>1 DEF Started
  <2>8. Started(bootId)' = Started(bootId) + 1
    <3>1. /\ {d \in BootThreads : id'[d] \in 1..bootId'} = {d \in BootThreads : id[d] \in 1..bootId} \cup {b}
          /\ b \notin {d \in BootThreads : id[d] \in 1..bootId}
      BY <1>0, <2>1, <2>2, <2>3
    <3> QED BY <1>0, <3>1, FiniteBoots, FS_AddElement DEF Started
  <2>9. ~overlapped => Cardinality(Rebooting) = 1
    <3>1. ~overlapped => Rebooting = {c}
      BY <2>2 DEF BootInv, TakingTurns
    <3> QED BY <3>1, FS_Singleton
  <2>10. BootsMatchResets'
    <3> USE DEF BootInv, BootsMatchResets
    <3>1. Started(bootId)' + Cardinality(Rebooting') = bootId'
      BY <1>0, <1>counts, <2>2, <2>6, <2>8
    <3>2. ASSUME NEW k \in 1..bootId' PROVE Started(k)' <= k
      <4>1. CASE k = bootId
        <5>1. Started(k)' = Started(bootId)'
          BY <2>2, <4>1 DEF Started
        <5>2. Cardinality(Rebooting') \in Nat
          BY <1>0, <1>2, FiniteBoots, FS_RemoveElement, FS_CardinalityType
        <5> QED BY <1>0, <1>counts, <2>2, <2>8, <3>1, <4>1, <5>1, <5>2
      <4>2. CASE k \in 1..(bootId - 1)
        BY <1>0, <2>7, <4>2
      <4> QED BY <1>0, <2>2, <4>1, <4>2
    <3>3. ASSUME ~overlapped', NEW k \in 1..(bootId' - Cardinality(Rebooting')) PROVE Started(k)' = k
      <4>0. Cardinality(Rebooting) = 1 /\ Cardinality(Rebooting') = 0 /\ k \in 1..bootId
        BY <1>0, <2>2, <2>6, <2>9, <3>3
      <4>1. CASE k = bootId
        <5>1. Started(k)' = Started(bootId)'
          BY <2>2, <4>1 DEF Started
        <5> QED BY <1>0, <2>2, <2>8, <3>1, <4>0, <4>1, <5>1, FiniteBoots
      <4>2. CASE k \in 1..(bootId - 1)
        <5>1. Started(k)' = Started(k)
          BY <2>7, <4>2
        <5> QED BY <1>0, <2>2, <3>3, <4>0, <4>2, <5>1
      <4> QED BY <1>0, <4>0, <4>1, <4>2
    <3> QED BY <3>1, <3>2, <3>3
  <2> QED BY <2>4, <2>5, <2>10 DEF BootInv
<1>3. ASSUME NEW b \in BootThreads, Boot(b), Rebooting' = Rebooting PROVE BootInv'
  <2>1. /\ id' = id /\ bootId' = bootId /\ overlapped' = overlapped /\ id[b] # 0
    BY <1>3 DEF Boot
  <2>2. BootsMatchResets'
    BY <1>3, <2>1 DEF BootInv, BootsMatchResets, Started
  <2>3. IdsBounded'
    BY <1>0, <1>3, <2>1 DEF Boot, BootInv, IdsBounded
  <2>4. TakingTurns'
    BY <1>0, <1>3, <2>1 DEF Boot, BootInv, IdsBounded, TakingTurns
  <2> QED BY <2>2, <2>3, <2>4 DEF BootInv
<1>4. ASSUME UNCHANGED <<id, at, bootId, stage, overlapped>>, Rebooting' = Rebooting PROVE BootInv'
  BY <1>4 DEF BootInv, IdsBounded, TakingTurns, BootsMatchResets, Started
<1> QED
  BY <1>1, <1>2, <1>3, <1>4, StepKinds

\* However many reboots overlap, every reset gets a boot thread, and while they take
\* turns each gets the one that has its id.
THEOREM BootsMatch == Spec => []BootsMatchResets
<1>1. BootInv => BootsMatchResets
  BY DEF BootInv
<1> QED
  BY <1>1, TypeInit, TypeNext, BootInit, BootNext, PTL DEF Spec

\* While reboots take turns, the stages follow each other or start again.
THEOREM StagesFollow == Spec => StagesInOrder
<1>1. TypeInv /\ BootInv /\ [Next]_vars => [stage' \in {1, stage, stage + 1} \/ overlapped]_vars
  <2> SUFFICES ASSUME TypeInv, BootInv, [Next]_vars, ~overlapped PROVE stage' \in {1, stage, stage + 1}
    OBVIOUS
  <2>1. ASSUME NEW b \in BootThreads, Boot(b) PROVE stage' \in {1, stage, stage + 1}
    <3>1. at[b] \in 0..GaveUp /\ stage \in 1..READY
      BY DEF TypeInv, TypeOK
    <3> QED BY <2>1, <3>1 DEF Boot, BootInv, TakingTurns
  <2>2. ASSUME NEW c \in Clients, Reset(c) \/ Spawn(c) PROVE stage' \in {1, stage, stage + 1}
    BY <2>2 DEF Reset, Spawn, deviceVars
  <2> QED BY <2>1, <2>2, StepKinds
<1> QED
  BY <1>1, TypeInit, TypeNext, BootInit, BootNext, PTL DEF Spec, StagesInOrder

-----------------------------------------------------------------------------
(* Waiting.                                                                *)

\* What the steps WriteOut, Cast and Send of a log_write wait for.
LogGoesOn(t) ==
  \/ log[t] = "print" /\ pipe < PipeCap
  \/ log[t] = "cast" /\ lock = NoThread
  \/ log[t] = "send" /\ Stalled = {}

\* A held clients_lock is held by a thread in a broadcast, never by one that waits for
\* stdout or for the lock, and that thread goes on when no client is stalled.  A thread
\* that logs can therefore go on, or another one can that logs too, or the pipe is full,
\* or a listed client does not read: the threads never wait for each other in a circle
\* (log_write).
WaitsForOutsideOnly ==
  /\ lock # NoThread => log[lock] = "send" /\ (LogGoesOn(lock) \/ Stalled # {})
  /\ \A t \in Threads : ~Free(t) =>
        LogGoesOn(t) \/ pipe = PipeCap \/ Stalled # {} \/ (lock # t /\ LogGoesOn(lock))

\* For any number of clients and boots, and a pipe of any size, a standstill of the
\* emulator's threads is caused from outside: nobody reads its output, or a client
\* does not read (device_emulator.py).
THEOREM NoCircularWait == Spec => []WaitsForOutsideOnly
<1>1. TypeInv => WaitsForOutsideOnly
  <2> SUFFICES ASSUME TypeInv PROVE WaitsForOutsideOnly
    OBVIOUS
  <2>1. /\ lock \in Threads \cup {NoThread} /\ \A t \in Threads : log[t] = "send" <=> lock = t
        /\ log \in [Threads -> {"none", "print", "cast", "send"}] /\ NoThread \notin Threads
    BY Kinds DEF TypeInv, TypeOK
  <2>2. ~(pipe < PipeCap) => pipe = PipeCap
    BY DEF TypeInv, TypeOK
  <2>3. lock # NoThread => log[lock] = "send" /\ (LogGoesOn(lock) \/ Stalled # {})
    BY <2>1 DEF LogGoesOn
  <2>4. ASSUME NEW t \in Threads, ~Free(t)
        PROVE  LogGoesOn(t) \/ pipe = PipeCap \/ Stalled # {} \/ (lock # t /\ LogGoesOn(lock))
    BY <2>1, <2>2, <2>3, <2>4 DEF LogGoesOn, Free
  <2> QED BY <2>3, <2>4 DEF WaitsForOutsideOnly
<1> QED
  BY <1>1, TypeInit, TypeNext, PTL DEF Spec
=============================================================================
