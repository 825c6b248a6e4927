-------------------------- MODULE SocketServerProofs ---------------------------
(***************************************************************************)
(* Proofs about SocketServer for any number of connections, descriptors,   *)
(* lines and log lines.                                                    *)
(***************************************************************************)
EXTENDS SocketServer, SequenceTheorems, WellFoundedInduction, TLAPS

-----------------------------------------------------------------------------
(* Sequences and sets.                                                     *)

\* accept() finds the lowest free descriptor if there is one.
LEMMA LowestFree ==
  ASSUME NEW S, S \subseteq Nat, S # {}
  PROVE  Min(S) \in S
<1>1. \E x \in S : \A y \in S : ~(<<y, x>> \in OpToRel(<, Nat))
  BY NatLessThanWellFounded, WFMin
<1>2. \E x \in S : \A y \in S : x <= y
  <2>1. PICK x \in S : \A y \in S : ~(<<y, x>> \in OpToRel(<, Nat))
    BY <1>1
  <2>2. ASSUME NEW y \in S PROVE x <= y
    <3>1. ~(y < x)
      <4>1. <<y, x>> \in Nat \X Nat /\ <<y, x>>[1] = y /\ <<y, x>>[2] = x
        OBVIOUS
      <4>2. y < x => <<y, x>> \in OpToRel(<, Nat)
        BY <4>1 DEF OpToRel
      <4> QED BY <2>1, <4>2
    <3> QED BY <3>1
  <2> QED BY <2>2
<1> QED BY <1>2 DEF Min

\* Erasing one place of a list without duplicates takes its number off the list.
LEMMA EraseOne ==
  ASSUME NEW S, NEW s \in Seq(S), IsInjective(s), NEW i \in DOMAIN s
  PROVE  /\ RemoveAt(s, i) \in Seq(S)
         /\ IsInjective(RemoveAt(s, i))
         /\ ToSet(RemoveAt(s, i)) = ToSet(s) \ {s[i]}
<1> DEFINE r == RemoveAt(s, i)
           n == Len(s)
<1>1. n \in Nat /\ i \in 1..n /\ DOMAIN s = 1..n
  OBVIOUS
<1>2. /\ SubSeq(s, 1, i - 1) \in Seq(S) /\ Len(SubSeq(s, 1, i - 1)) = i - 1
      /\ \A k \in 1..(i - 1) : SubSeq(s, 1, i - 1)[k] = s[k]
  BY <1>1
<1>3. /\ SubSeq(s, i + 1, n) \in Seq(S) /\ Len(SubSeq(s, i + 1, n)) = n - i
      /\ \A k \in 1..(n - i) : SubSeq(s, i + 1, n)[k] = s[i + k]
  BY <1>1
<1>4. r = SubSeq(s, 1, i - 1) \o SubSeq(s, i + 1, n)
  BY DEF RemoveAt
<1>5. r \in Seq(S) /\ Len(r) = n - 1
  <2>1. r \in Seq(S) /\ Len(r) = (i - 1) + (n - i)
    BY <1>2, <1>3, <1>4, ConcatProperties
  <2> QED BY <1>1, <2>1
<1>6. /\ \A k \in 1..(i - 1) : r[k] = s[k]
      /\ \A k \in i..(n - 1) : r[k] = s[k + 1]
  <2>1. ASSUME NEW k \in 1..(i - 1) PROVE r[k] = s[k]
    BY <1>1, <1>2, <1>3, <1>4, <2>1
  <2>2. ASSUME NEW k \in i..(n - 1) PROVE r[k] = s[k + 1]
    <3>1. r[k] = SubSeq(s, i + 1, n)[k - (i - 1)]
      BY <1>1, <1>2, <1>3, <1>4, <2>2
    <3>2. k - (i - 1) \in 1..(n - i) /\ i + (k - (i - 1)) = k + 1
      BY <1>1, <2>2
    <3> QED BY <1>3, <3>1, <3>2
  <2> QED BY <2>1, <2>2
<1> HIDE DEF r
<1>7. DOMAIN r = 1..(n - 1)
  BY <1>1, <1>5
<1>8. IsInjective(r)
  <2> SUFFICES ASSUME NEW a \in 1..(n - 1), NEW b \in 1..(n - 1), r[a] = r[b] PROVE a = b
    BY <1>7 DEF IsInjective
  <2> DEFINE at(k) == IF k < i THEN k ELSE k + 1
  <2>1. r[a] = s[at(a)] /\ r[b] = s[at(b)] /\ at(a) \in DOMAIN s /\ at(b) \in DOMAIN s
    BY <1>1, <1>6
  <2>2. at(a) = at(b)
    BY <2>1 DEF IsInjective
  <2> QED BY <1>1, <2>2
<1>9. ToSet(r) = ToSet(s) \ {s[i]}
  <2>1. ASSUME NEW k \in DOMAIN r PROVE r[k] \in ToSet(s) \ {s[i]}
    <3> DEFINE j == IF k < i THEN k ELSE k + 1
    <3>1. r[k] = s[j] /\ j \in DOMAIN s /\ j # i
      BY <1>1, <1>6, <1>7, <2>1
    <3> QED BY <3>1 DEF IsInjective, ToSet
  <2>2. ASSUME NEW j \in DOMAIN s, s[j] # s[i] PROVE s[j] \in ToSet(r)
    <3> DEFINE k == IF j < i THEN j ELSE j - 1
    <3>1. k \in DOMAIN r /\ r[k] = s[j]
      BY <1>1, <1>6, <1>7, <2>2
    <3> QED BY <3>1 DEF ToSet
  <2> QED BY <2>1, <2>2 DEF ToSet
<1> QED BY <1>5, <1>8, <1>9 DEF r

\* Appending a number that is not listed.
LEMMA AppendNew ==
  ASSUME NEW S, NEW s \in Seq(S), NEW e \in S
  PROVE  /\ Append(s, e) \in Seq(S)
         /\ ToSet(Append(s, e)) = ToSet(s) \cup {e}
         /\ IsInjective(s) /\ e \notin ToSet(s) => IsInjective(Append(s, e))
<1> DEFINE r == Append(s, e)
           n == Len(s)
<1>1. /\ r \in Seq(S) /\ n \in Nat /\ DOMAIN s = 1..n /\ DOMAIN r = 1..(n + 1)
      /\ r[n + 1] = e /\ \A k \in 1..n : r[k] = s[k]
  OBVIOUS
<1> HIDE DEF r, n
<1>2. ToSet(r) = ToSet(s) \cup {e}
  BY <1>1 DEF ToSet
<1>3. ASSUME IsInjective(s), e \notin ToSet(s) PROVE IsInjective(r)
  BY <1>1, <1>3 DEF ToSet, IsInjective
<1> QED BY <1>1, <1>2, <1>3 DEF r

\* To be listed is to be in the set of the listed.
LEMMA ListedIsMember ==
  ASSUME NEW S, NEW s \in Seq(S), NEW e
  PROVE  Contains(s, e) <=> e \in ToSet(s)
BY DEF Contains, ToSet

-----------------------------------------------------------------------------
(* Types and descriptors.                                                  *)

\* What a thread is about to use exists: an accepted connection and its number, the
\* number of a handler, the socket of a recv(), the thread that broadcasts.
InHand ==
  /\ lpc \in {"push", "spawn"} => lfd \in Fds /\ lconn \in Conns
  /\ \A c \in Conns : /\ hpc[c] # "none" => hfd[c] \in Fds
                      /\ hpc[c] = "recv" => entered[c] \in Conns
  /\ logger \in Conns => hfd[logger] \in Fds

TypeInv == TypeOK /\ InHand

\* A server that has just been started.
LEMMA TypeInit == Init => TypeInv
<1> SUFFICES ASSUME Init PROVE TypeInv
  OBVIOUS
<1>1. /\ 0 \in 0..MaxFd /\ 0 \in 0..MaxLogs /\ 0 \in 0..MaxStalls /\ Nobody \notin Conns
      /\ 0 \in 0..PipeCap
  BY BoundAssumption, PipeAssumption, ConnAssumption
<1>2. InHand
  BY <1>1 DEF Init, InHand
<1>3. clients \in Seq(Fds) /\ backlog \in Seq(Conns)
  BY DEF Init
<1> QED BY <1>1, <1>2, <1>3 DEF Init, TypeInv, TypeOK, HandlerStates

\* A line more in the pipe.
LEMMA PrintsType == TypeInv /\ Prints => pipe' \in 0..PipeCap
BY PipeAssumption DEF TypeInv, TypeOK, Prints

\* One case per action of a thread, a peer or stop().
LEMMA TypeNext == TypeInv /\ IsInjective(clients) /\ [Next]_vars => TypeInv'
<1> SUFFICES ASSUME TypeInv, IsInjective(clients), [Next]_vars PROVE TypeInv'
  OBVIOUS
<1> USE DEF listenVars, handlerVars, castVars, peerVars, wireVars, tableVars, stopVars,
        HandlerStates
<1>drop. ASSUME NEW i \in DOMAIN clients, Drop(i)
      PROVE  clients' \in Seq(Fds) /\ fdConn' \in [Fds -> Conns \cup {NoConn}]
  <2>1. clients \in Seq(Fds) /\ fdConn \in [Fds -> Conns \cup {NoConn}]
    BY DEF TypeInv, TypeOK
  <2>2. clients' \in Seq(Fds)
    BY <1>drop, <2>1, EraseOne DEF Drop
  <2> QED BY <1>drop, <2>1, <2>2 DEF Drop
<1>1. ASSUME NEW c \in Conns, Peer(c) PROVE TypeInv'
  <2>1. CASE Connect(c)
    BY <2>1 DEF Connect, TypeInv, TypeOK, InHand
  <2>2. CASE SendLine(c)
    BY <2>2 DEF SendLine, TypeInv, TypeOK, InHand
  <2>3. CASE Stall(c)
    <3>1. stalls' \in 0..MaxStalls
      BY <2>3, BoundAssumption DEF Stall, TypeInv, TypeOK
    <3> QED BY <2>3, <3>1 DEF Stall, TypeInv, TypeOK, InHand
  <2>4. CASE Resume(c)
    BY <2>4 DEF Resume, TypeInv, TypeOK, InHand
  <2>5. CASE Close(c)
    BY <2>5 DEF Close, TypeInv, TypeOK, InHand
  <2> QED BY <1>1, <2>1, <2>2, <2>3, <2>4, <2>5 DEF Peer
<1>2. CASE ListenTop \/ AcceptFails
  BY <1>2 DEF ListenTop, AcceptFails, TypeInv, TypeOK, InHand
<1>3. CASE Accept
  <2>1. Min(FreeFds) \in FreeFds
    <3>1. FreeFds \subseteq Nat /\ FreeFds # {}
      BY <1>3, BoundAssumption DEF Accept, FreeFds, Fds
    <3> QED BY <3>1, LowestFree
  <2>2. lfd' \in Fds /\ lfd' \in 0..MaxFd
    BY <1>3, <2>1, BoundAssumption DEF Accept, FreeFds, Fds
  <2>3. lconn' \in Conns /\ backlog' \in Seq(Conns)
    BY <1>3 DEF Accept, TypeInv, TypeOK
  <2>4. fdConn' \in [Fds -> Conns \cup {NoConn}]
    BY <1>3, <2>3 DEF Accept, TypeInv, TypeOK
  <2> QED BY <1>3, <2>2, <2>3, <2>4 DEF Accept, TypeInv, TypeOK, InHand
<1>4. CASE Push
  <2>1. clients' \in Seq(Fds)
    BY <1>4, AppendNew DEF Push, TypeInv, TypeOK, InHand
  <2> QED BY <1>4, <2>1 DEF Push, TypeInv, TypeOK, InHand
<1>5. CASE SpawnHandler
  <2>1. lconn \in Conns /\ lfd \in Fds
    BY <1>5 DEF SpawnHandler, TypeInv, InHand
  <2>2. pipe' \in 0..PipeCap
    BY <1>5, PrintsType DEF SpawnHandler
  <2> QED BY <1>5, <2>1, <2>2, BoundAssumption DEF HandlerStates, SpawnHandler, TypeInv, TypeOK, InHand
<1>6. ASSUME NEW c \in Conns, EnterRecv(c) PROVE TypeInv'
  <2>1. hfd[c] \in Fds
    BY <1>6 DEF EnterRecv, TypeInv, InHand
  <2>2. entered'[c] \in Conns \cup {NoConn} /\ entered' \in [Conns -> Conns \cup {NoConn}]
    BY <1>6, <2>1 DEF EnterRecv, TypeInv, TypeOK
  <2>3. hpc' = [hpc EXCEPT ![c] = IF entered'[c] = NoConn THEN "cleanup" ELSE "recv"]
    BY <1>6 DEF EnterRecv
  <2>4. /\ hpc' \in [Conns -> HandlerStates]
        /\ hpc'[c] = "recv" => entered'[c] \in Conns
        /\ hpc'[c] = IF entered'[c] = NoConn THEN "cleanup" ELSE "recv"
        /\ \A d \in Conns : d # c => hpc'[d] = hpc[d] /\ entered'[d] = entered[d]
    BY <1>6, <2>2, <2>3 DEF EnterRecv, TypeInv, TypeOK
  <2> QED BY <1>6, <2>1, <2>2, <2>4 DEF EnterRecv, TypeInv, TypeOK, InHand
<1>7. ASSUME NEW c \in Conns, LeaveRecv(c) PROVE TypeInv'
  <2>1. entered[c] \in Conns /\ hfd[c] \in Fds
    BY <1>7 DEF LeaveRecv, TypeInv, InHand
  <2>2. unread' \in [Conns -> Nat]
    <3> DEFINE e == entered[c]
    <3>1. unread \in [Conns -> Nat] /\ e \in Conns
      BY <2>1 DEF TypeInv, TypeOK
    <3>2. UNCHANGED unread \/ (unread[e] > 0 /\ unread' = [unread EXCEPT ![e] = @ - 1])
      BY <1>7 DEF LeaveRecv
    <3> HIDE DEF e
    <3> QED BY <3>1, <3>2
  <2>3. /\ hpc' \in [Conns -> HandlerStates]
        /\ hpc'[c] \in {"got", "cleanup"}
        /\ \A d \in Conns : d # c => hpc'[d] = hpc[d]
    <3>1. hpc \in [Conns -> HandlerStates]
      BY DEF TypeInv, TypeOK
    <3>2. PICK next \in {"got", "cleanup"} : hpc' = [hpc EXCEPT ![c] = next]
      BY <1>7 DEF LeaveRecv
    <3> QED BY <3>1, <3>2 DEF HandlerStates
  <2>4. /\ entered' \in [Conns -> Conns \cup {NoConn}]
        /\ \A d \in Conns : d # c => entered'[d] = entered[d]
    <3>1. entered \in [Conns -> Conns \cup {NoConn}]
      BY DEF TypeInv, TypeOK
    <3>2. entered' = [entered EXCEPT ![c] = NoConn]
      BY <1>7 DEF LeaveRecv
    <3> QED BY <3>1, <3>2
  <2>5. UNCHANGED <<listenVars, hfd, castVars, peerVars, answers, tableVars, stopVars, lock,
                    backlog, pipe>>
    BY <1>7 DEF LeaveRecv
  <2>6. InHand'
    BY <2>1, <2>3, <2>4, <2>5 DEF TypeInv, InHand
  <2> QED BY <2>2, <2>3, <2>4, <2>5, <2>6 DEF TypeInv, TypeOK
<1>8. ASSUME NEW c \in Conns, Respond(c) PROVE TypeInv'
  <2>1. hfd[c] \in Fds
    BY <1>8 DEF Respond, TypeInv, InHand
  <2>2. answers' \in [Conns -> Nat]
    <3> DEFINE d == fdConn[hfd[c]]
    <3>1. d \in Conns \cup {NoConn} /\ answers \in [Conns -> Nat]
      BY <2>1 DEF TypeInv, TypeOK
    <3>2. UNCHANGED answers \/ (d # NoConn /\ answers' = [answers EXCEPT ![d] = @ + 1])
      BY <1>8 DEF Respond
    <3> HIDE DEF d
    <3> QED BY <3>1, <3>2
  <2>3. /\ hpc' \in [Conns -> HandlerStates]
        /\ \A d \in Conns : hpc'[d] = hpc[d] \/ (d = c /\ hpc'[d] = "top")
    BY <1>8 DEF Respond, TypeInv, TypeOK
  <2>4. UNCHANGED <<listenVars, hfd, entered, castVars, peerVars, unread, tableVars, stopVars,
                    lock, backlog, pipe>>
    BY <1>8 DEF Respond
  <2>5. InHand'
    BY <2>1, <2>3, <2>4 DEF TypeInv, InHand
  <2> QED BY <2>2, <2>3, <2>4, <2>5 DEF TypeInv, TypeOK
<1>9. ASSUME NEW c \in Conns, Cleanup(c) PROVE TypeInv'
  <2>1. clients' \in Seq(Fds) /\ fdConn' \in [Fds -> Conns \cup {NoConn}]
    <3>1. CASE UNCHANGED tableVars
      BY <3>1 DEF TypeInv, TypeOK
    <3>2. CASE \E i \in DOMAIN clients : FirstPlace(i, hfd[c]) /\ Drop(i)
      BY <1>drop, <3>2
    <3> QED BY <1>9, <3>1, <3>2 DEF Cleanup
  <2> QED BY <1>9, <2>1 DEF Cleanup, TypeInv, TypeOK, InHand
<1>9a. ASSUME NEW c \in Conns, PrintCommand(c) \/ Leave(c) PROVE TypeInv'
  <2>1. pipe' \in 0..PipeCap
    BY <1>9a, PrintsType DEF PrintCommand, Leave
  <2>2. PICK next \in {"respond", "log", "done"} : hpc' = [hpc EXCEPT ![c] = next]
    BY <1>9a DEF PrintCommand, Leave
  <2>3. hpc[c] # "none" /\ hpc' \in [Conns -> HandlerStates]
    BY <1>9a, <2>2 DEF PrintCommand, Leave, TypeInv, TypeOK, HandlerStates
  <2> QED BY <1>9a, <2>1, <2>2, <2>3 DEF PrintCommand, Leave, TypeInv, TypeOK, InHand
<1>10. ASSUME NEW t \in Threads, BeginLog(t) PROVE TypeInv'
  <2>1. logs' \in 0..MaxLogs
    BY <1>10, BoundAssumption DEF BeginLog, TypeInv, TypeOK
  <2> QED BY <1>10, <2>1, ConnAssumption DEF BeginLog, TypeInv, TypeOK, InHand
<1>10a. CASE WriteLog
  <2>1. pipe' \in 0..PipeCap
    BY <1>10a, PrintsType DEF WriteLog
  <2> QED BY <1>10a, <2>1 DEF WriteLog, TypeInv, TypeOK, InHand
<1>10b. CASE Drain
  <2>1. pipe' \in 0..PipeCap
    BY <1>10b, PipeAssumption DEF Drain, TypeInv, TypeOK
  <2> QED BY <1>10b, <2>1 DEF Drain, TypeInv, TypeOK, InHand
<1>11. CASE LockClients
  BY <1>11 DEF LockClients, TypeInv, TypeOK, InHand
<1>12. CASE CastSent
  BY <1>12 DEF CastSent, TypeInv, TypeOK, InHand
<1>13. CASE CastFailed
  <2>1. clients' \in Seq(Fds) /\ fdConn' \in [Fds -> Conns \cup {NoConn}]
    BY <1>13, <1>drop DEF CastFailed
  <2> QED BY <1>13, <2>1 DEF CastFailed, TypeInv, TypeOK, InHand
<1>14. CASE EndLog
  <2>1. /\ hpc' \in [Conns -> HandlerStates]
        /\ \A c \in Conns : hpc'[c] # "none" => hfd[c] \in Fds
        /\ \A c \in Conns : hpc'[c] = "recv" => hpc[c] = "recv"
    BY <1>14 DEF EndLog, TypeInv, TypeOK, InHand
  <2> QED BY <1>14, <2>1, ConnAssumption DEF EndLog, TypeInv, TypeOK, InHand
<1>14a. CASE StopBegin
  <2>1. pipe' \in 0..PipeCap
    BY <1>14a, PrintsType DEF StopBegin
  <2> QED BY <1>14a, <2>1 DEF StopBegin, TypeInv, TypeOK, InHand
<1>15. CASE Signal \/ CloseServer \/ JoinListener
  BY <1>15 DEF Signal, CloseServer, JoinListener, TypeInv, TypeOK, InHand
<1>16. CASE CloseClients
  <2>1. clients' \in Seq(Fds) /\ fdConn' \in [Fds -> Conns \cup {NoConn}]
    BY <1>16 DEF CloseClients, TypeInv, TypeOK
  <2> QED BY <1>16, <2>1 DEF CloseClients, TypeInv, TypeOK, InHand
<1>17. CASE UNCHANGED vars
  BY <1>17 DEF vars, TypeInv, TypeOK, InHand
<1> QED
  BY <1>1, <1>2, <1>3, <1>4, <1>5, <1>6, <1>7, <1>8, <1>9, <1>9a, <1>10, <1>10a, <1>10b, <1>11,
     <1>12, <1>13, <1>14, <1>14a, <1>15, <1>16, <1>17
  DEF Next, Listen, Handler, Broadcast, Stopping, Threads

-----------------------------------------------------------------------------
(* The descriptor table.                                                   *)

\* Every step that touches the table or the list touches both alike.
LEMMA FdsNext == TypeInv /\ FdsAccounted /\ [Next]_vars => FdsAccounted'
<1> SUFFICES ASSUME TypeInv, FdsAccounted, [Next]_vars PROVE FdsAccounted'
  OBVIOUS
<1> USE DEF listenVars, handlerVars, castVars, peerVars, wireVars, tableVars, stopVars
<1> DEFINE Pending == IF lpc = "push" THEN {lfd} ELSE {}
<1>types. /\ clients \in Seq(Fds) /\ fdConn \in [Fds -> Conns \cup {NoConn}]
          /\ lpc = "push" => lfd \in Fds /\ lconn \in Conns
  BY DEF TypeInv, TypeOK, InHand
<1>table. /\ ToSet(clients) \cup Pending = Fds \ FreeFds /\ IsInjective(clients)
          /\ lpc = "push" => lfd \notin ToSet(clients)
  BY <1>types, ListedIsMember DEF FdsAccounted
<1>goal. ASSUME clients' \in Seq(Fds),
             ToSet(clients)' \cup Pending' = Fds \ FreeFds', IsInjective(clients'),
             lpc' = "push" => lfd' \notin ToSet(clients)'
      PROVE  FdsAccounted'
  BY <1>goal, ListedIsMember DEF FdsAccounted
<1>1. CASE UNCHANGED tableVars /\ lpc # "push" /\ lpc' # "push"
  BY <1>1, <1>types, <1>table, <1>goal DEF FreeFds, ToSet
<1>2. CASE UNCHANGED <<tableVars, lpc, lfd>>
  BY <1>2, <1>types, <1>table, <1>goal DEF FreeFds, ToSet
<1>3. CASE Accept
  <2>1. Min(FreeFds) \in FreeFds
    <3>1. FreeFds \subseteq Nat /\ FreeFds # {}
      BY <1>3, BoundAssumption DEF Accept, FreeFds, Fds
    <3> QED BY <3>1, LowestFree
  <2>2. lconn' \in Conns /\ lconn' # NoConn
    BY <1>3, ConnAssumption DEF Accept, TypeInv, TypeOK
  <2>3. lfd' \in FreeFds /\ lfd' \in Fds /\ fdConn' = [fdConn EXCEPT ![lfd'] = lconn']
        /\ clients' = clients /\ lpc # "push" /\ lpc' = "push"
    BY <1>3, <2>1 DEF Accept, FreeFds
  <2>4. FreeFds' = FreeFds \ {lfd'}
    BY <2>2, <2>3, <1>types DEF FreeFds
  <2> QED BY <1>table, <1>goal, <1>types, <2>3, <2>4 DEF ToSet
<1>4. CASE Push
  <2>1. clients' = Append(clients, lfd) /\ lpc = "push" /\ lpc' # "push" /\ fdConn' = fdConn
    BY <1>4 DEF Push
  <2>2. /\ ToSet(clients') = ToSet(clients) \cup {lfd} /\ IsInjective(clients')
        /\ clients' \in Seq(Fds)
    BY <2>1, <1>types, <1>table, AppendNew
  <2>3. FreeFds' = FreeFds /\ ToSet(clients)' = ToSet(clients')
    BY <2>1 DEF FreeFds, ToSet
  <2> QED BY <1>table, <1>goal, <2>1, <2>2, <2>3
<1>5. ASSUME NEW i \in DOMAIN clients, Drop(i), UNCHANGED <<lpc, lfd>> PROVE FdsAccounted'
  <2>1. /\ clients' \in Seq(Fds) /\ IsInjective(clients')
        /\ ToSet(clients') = ToSet(clients) \ {clients[i]}
    BY <1>5, <1>types, <1>table, EraseOne DEF Drop
  <2>2. clients[i] \in Fds /\ clients[i] \in ToSet(clients)
    BY <1>types DEF ToSet
  <2>3. FreeFds' = FreeFds \cup {clients[i]}
    BY <1>5, <1>types, <2>2 DEF Drop, FreeFds
  <2>4. ToSet(clients)' = ToSet(clients')
    BY DEF ToSet
  <2> QED BY <1>5, <1>table, <1>goal, <2>1, <2>2, <2>3, <2>4
<1>6. CASE CloseClients
  <2>1. /\ clients' = <<>> /\ UNCHANGED <<lpc, lfd>>
        /\ fdConn' = [f \in Fds |-> IF f \in ToSet(clients) THEN NoConn ELSE fdConn[f]]
    BY <1>6, <1>types, ListedIsMember DEF CloseClients
  <2>2. FreeFds' = FreeFds \cup ToSet(clients)
    <3>1. ToSet(clients) \subseteq Fds
      BY <1>types DEF ToSet
    <3> QED BY <2>1, <3>1 DEF FreeFds
  <2>3. clients' \in Seq(Fds) /\ ToSet(clients)' = {} /\ IsInjective(clients')
    BY <2>1 DEF ToSet, IsInjective
  <2> QED BY <1>table, <1>goal, <2>1, <2>2, <2>3
<1>7. CASE \E c \in Conns : Cleanup(c)
  <2>1. PICK c \in Conns : Cleanup(c)
    BY <1>7
  <2> QED BY <1>2, <1>5, <2>1 DEF Cleanup
<1>8. CASE CastFailed
  BY <1>5, <1>8 DEF CastFailed
<1>9. \/ UNCHANGED tableVars /\ lpc # "push" /\ lpc' # "push"
      \/ UNCHANGED <<tableVars, lpc, lfd>>
      \/ Accept \/ Push \/ CloseClients \/ (\E c \in Conns : Cleanup(c)) \/ CastFailed
  BY DEF Next, Listen, ListenTop, AcceptFails, SpawnHandler, Peer, Connect, SendLine, Stall, Resume,
     Close, Handler, EnterRecv, LeaveRecv, PrintCommand, Respond, Leave, BeginLog, Broadcast, WriteLog,
     LockClients, CastSent, Drain, Signal, EndLog, StopBegin, Stopping, CloseServer, JoinListener, vars
<1> QED BY <1>1, <1>2, <1>3, <1>4, <1>6, <1>7, <1>8, <1>9

\* No descriptor is open at first.
LEMMA FdsInit == Init => FdsAccounted
BY DEF Init, FdsAccounted, FreeFds, ToSet, IsInjective

\* Types and the table keep each other: the list must be free of duplicates for a
\* dead client to be erased.
LEMMA TypesAndFds == Spec => [](TypeInv /\ FdsAccounted)
<1>1. FdsAccounted => IsInjective(clients)
  BY DEF FdsAccounted
<1> QED BY <1>1, TypeInit, TypeNext, FdsInit, FdsNext, PTL DEF Spec

\* Descriptors, positions and thread states keep their types (socket_server.hpp).
THEOREM TypeCorrect == Spec => []TypeOK
<1>1. TypeInv => TypeOK
  BY DEF TypeInv
<1> QED BY <1>1, TypesAndFds, PTL

\* However many clients come and go while lines are broadcast and the server stops, no
\* descriptor is closed twice and none is leaked (listen_loop, client_loop,
\* broadcast_log, stop).
THEOREM DescriptorsAccounted == Spec => []FdsAccounted
BY TypesAndFds, PTL

-----------------------------------------------------------------------------
(* Handlers and their connections.                                         *)

\* A connection waits once, and none that waits or is in the listen thread's hands has
\* a handler yet.
Fresh(c) == hpc[c] = "none" /\ peer[c] # "new"

BacklogFresh ==
  /\ IsInjective(backlog)
  /\ \A c \in ToSet(backlog) : Fresh(c) /\ c # lconn
  /\ IF lpc \in {"push", "spawn"} THEN Fresh(lconn) ELSE lconn = NoConn

\* stop() empties the table only when running_ is false.
StopOrder == mpc \in {"closeServer", "closeClients"} => ~running

PendingOwn == running /\ ~dropped /\ lpc \in {"push", "spawn"} => fdConn[lfd] = lconn

\* A handler that broadcasts is in its command until it has.
LoggerWaits == logger \in Conns => hpc[logger] = "log"

StartedOnce == /\ BacklogFresh /\ LoggerWaits
               /\ \A c \in Conns : peer[c] = "new" => hpc[c] = "none"

OwnInv == StartedOnce /\ StopOrder /\ PendingOwn /\ HandlersOwnFds

\* Connections become handlers once, in the order of the code.
LEMMA FreshNext == TypeInv /\ StartedOnce /\ [Next]_vars => StartedOnce'
<1> SUFFICES ASSUME TypeInv, StartedOnce, [Next]_vars PROVE StartedOnce'
  OBVIOUS
<1> USE DEF listenVars, handlerVars, castVars, peerVars, wireVars, tableVars, stopVars
<1>types. /\ backlog \in Seq(Conns) /\ ToSet(backlog) \subseteq Conns /\ NoConn \notin Conns
          /\ Device \notin Conns /\ Nobody \notin Conns
          /\ hpc \in [Conns -> HandlerStates]
          /\ peer \in [Conns -> {"new", "open", "stalled", "closed"}]
          /\ lpc \in {"push", "spawn"} => lconn \in Conns
  BY ConnAssumption DEF TypeInv, TypeOK, InHand, ToSet
<1>once. /\ BacklogFresh /\ LoggerWaits
         /\ \A c \in Conns : peer[c] = "new" => hpc[c] = "none"
  BY DEF StartedOnce
\* Steps that connect nobody and start no handler.
<1>1. ASSUME UNCHANGED <<backlog, lconn>>,
             lpc' \in {"push", "spawn"} <=> lpc \in {"push", "spawn"},
             \A c \in Conns : hpc'[c] = "none" <=> hpc[c] = "none",
             \A c \in Conns : peer'[c] = "new" <=> peer[c] = "new",
             LoggerWaits'
      PROVE  StartedOnce'
  <2>1. \A c \in Conns : Fresh(c) => hpc'[c] = "none" /\ peer'[c] # "new"
    BY <1>1 DEF Fresh
  <2>2. BacklogFresh'
    <3>1. ToSet(backlog)' = ToSet(backlog)
      BY <1>1 DEF ToSet
    <3>2. \A c \in ToSet(backlog)' : hpc'[c] = "none" /\ peer'[c] # "new" /\ c # lconn'
      BY <1>1, <1>once, <1>types, <2>1, <3>1 DEF BacklogFresh
    <3>3. IF lpc' \in {"push", "spawn"} THEN hpc'[lconn'] = "none" /\ peer'[lconn'] # "new"
                                        ELSE lconn' = NoConn
      BY <1>1, <1>once, <1>types, <2>1 DEF BacklogFresh
    <3>4. IsInjective(backlog')
      BY <1>1, <1>once DEF BacklogFresh
    <3> QED BY <3>2, <3>3, <3>4 DEF BacklogFresh, Fresh
  <2> QED BY <1>1, <1>once, <2>2 DEF StartedOnce
<1>2. CASE Accept
  <2>1. /\ lconn' = Head(backlog) /\ backlog' = Tail(backlog) /\ lpc' = "push"
        /\ UNCHANGED <<hpc, peer, logger>> /\ backlog # <<>>
    BY <1>2 DEF Accept
  <2>2. /\ ToSet(backlog)' \subseteq ToSet(backlog) /\ lconn' \notin ToSet(backlog)'
        /\ lconn' \in ToSet(backlog) /\ IsInjective(backlog')
    BY <1>once, <1>types, <2>1 DEF BacklogFresh, ToSet, IsInjective
  <2> QED BY <2>1, <2>2, <1>once, <1>types DEF StartedOnce, LoggerWaits, BacklogFresh, Fresh
<1>3. CASE SpawnHandler
  <2>1. /\ lpc = "spawn" /\ lpc' = "top" /\ lconn' = NoConn /\ lconn \in Conns
        /\ hpc' = [hpc EXCEPT ![lconn] = "top"] /\ UNCHANGED <<backlog, peer, logger>>
    BY <1>3, <1>types DEF SpawnHandler
  <2>2. Fresh(lconn) /\ \A c \in ToSet(backlog) : Fresh(c) /\ c # lconn
    BY <1>once, <2>1 DEF BacklogFresh
  <2>3. BacklogFresh'
    BY <1>once, <1>types, <2>1, <2>2 DEF BacklogFresh, Fresh, ToSet
  <2> QED BY <1>once, <1>types, <2>1, <2>2, <2>3 DEF StartedOnce, LoggerWaits, Fresh
<1>4. ASSUME NEW c \in Conns, Connect(c) PROVE StartedOnce'
  <2>1. /\ peer[c] = "new" /\ peer' = [peer EXCEPT ![c] = "open"]
        /\ backlog' = Append(backlog, c) /\ UNCHANGED <<hpc, lpc, lconn, logger>>
    BY <1>4 DEF Connect
  <2>2. c \notin ToSet(backlog) /\ c # lconn /\ hpc[c] = "none"
    BY <1>once, <1>types, <2>1 DEF BacklogFresh, Fresh
  <2>3. IsInjective(backlog') /\ ToSet(backlog') = ToSet(backlog) \cup {c}
    BY <1>once, <1>types, <2>1, <2>2, AppendNew DEF BacklogFresh
  <2>4. ToSet(backlog)' = ToSet(backlog')
    BY DEF ToSet
  <2>5. BacklogFresh'
    BY <1>once, <1>types, <2>1, <2>2, <2>3, <2>4 DEF BacklogFresh, Fresh
  <2> QED BY <1>once, <1>types, <2>1, <2>5 DEF StartedOnce, LoggerWaits
<1>5. ASSUME NEW c \in Conns, SendLine(c) \/ Stall(c) \/ Resume(c) \/ Close(c) PROVE StartedOnce'
  <2>1. UNCHANGED <<backlog, lconn, lpc, hpc, logger>>
    BY <1>5 DEF SendLine, Stall, Resume, Close
  <2>2. \A d \in Conns : peer'[d] = "new" <=> peer[d] = "new"
    BY <1>5, <1>types DEF SendLine, Stall, Resume, Close, Connected
  <2> QED BY <1>1, <1>once, <2>1, <2>2 DEF LoggerWaits
<1>6. ASSUME NEW c \in Conns, EnterRecv(c) \/ LeaveRecv(c) \/ PrintCommand(c) \/ Respond(c)
                              \/ Cleanup(c) \/ Leave(c)
      PROVE  StartedOnce'
  <2>1. /\ UNCHANGED <<backlog, lconn, lpc, peer, logger>>
        /\ hpc[c] \in {"top", "recv", "got", "respond", "cleanup", "bye"}
    BY <1>6 DEF EnterRecv, LeaveRecv, PrintCommand, Respond, Cleanup, Leave
  <2>2. PICK next \in HandlerStates \ {"none"} : hpc' = [hpc EXCEPT ![c] = next]
    BY <1>6 DEF EnterRecv, LeaveRecv, PrintCommand, Respond, Cleanup, Leave, HandlerStates
  <2>3. \A d \in Conns : hpc'[d] = "none" <=> hpc[d] = "none"
    BY <1>types, <2>1, <2>2
  <2>4. LoggerWaits'
    BY <1>once, <1>types, <2>1, <2>2 DEF LoggerWaits
  <2> QED BY <1>1, <2>1, <2>3, <2>4
<1>7. ASSUME NEW t \in Threads, BeginLog(t) PROVE StartedOnce'
  <2>1. UNCHANGED <<backlog, lconn, lpc, hpc, peer>>
    BY <1>7 DEF BeginLog
  <2>2. LoggerWaits'
    BY <1>7, <1>types DEF BeginLog, LoggerWaits
  <2> QED BY <1>1, <2>1, <2>2
<1>8. CASE EndLog
  <2>1. UNCHANGED <<backlog, lconn, lpc, peer>> /\ logger' = Nobody
    BY <1>8 DEF EndLog
  <2>2. \A c \in Conns : hpc'[c] = "none" <=> hpc[c] = "none"
    BY <1>8, <1>once, <1>types DEF EndLog, LoggerWaits
  <2> QED BY <1>1, <1>types, <2>1, <2>2 DEF LoggerWaits
<1>9. CASE /\ UNCHANGED <<backlog, lconn, hpc, peer, logger>>
           /\ lpc' \in {"push", "spawn"} <=> lpc \in {"push", "spawn"}
  BY <1>1, <1>9, <1>once DEF LoggerWaits
<1>10. \/ Accept \/ SpawnHandler \/ EndLog
       \/ \E c \in Conns : \/ Connect(c) \/ SendLine(c) \/ Stall(c) \/ Resume(c) \/ Close(c)
                           \/ EnterRecv(c) \/ LeaveRecv(c) \/ PrintCommand(c) \/ Respond(c)
                           \/ Cleanup(c) \/ Leave(c)
       \/ \E t \in Threads : BeginLog(t)
       \/ /\ UNCHANGED <<backlog, lconn, hpc, peer, logger>>
          /\ lpc' \in {"push", "spawn"} <=> lpc \in {"push", "spawn"}
  BY DEF Next, Listen, ListenTop, AcceptFails, Push, Peer, Handler, Broadcast, WriteLog, LockClients,
     CastSent, CastFailed, Drain, Signal, StopBegin, Stopping, CloseServer, CloseClients, JoinListener, vars, Threads
<1> QED BY <1>2, <1>3, <1>4, <1>5, <1>6, <1>7, <1>8, <1>9, <1>10

\* Until a broadcast or stop() closes a descriptor, only its handler does.
LEMMA OwnNext == TypeInv /\ FdsAccounted /\ OwnInv /\ [Next]_vars => OwnInv'
<1> SUFFICES ASSUME TypeInv, FdsAccounted, OwnInv, [Next]_vars PROVE OwnInv'
  OBVIOUS
<1> USE DEF listenVars, handlerVars, castVars, peerVars, wireVars, tableVars, stopVars
<1>types. /\ NoConn \notin Conns
          /\ hpc \in [Conns -> HandlerStates]
          /\ hfd \in [Conns -> 0..MaxFd]
          /\ clients \in Seq(Fds) /\ fdConn \in [Fds -> Conns \cup {NoConn}]
          /\ \A c \in Conns : hpc[c] # "none" => hfd[c] \in Fds
          /\ lpc \in {"push", "spawn"} => lfd \in Fds /\ lconn \in Conns
  BY ConnAssumption DEF TypeInv, TypeOK, InHand
<1>once. StartedOnce'
  BY FreshNext DEF OwnInv
<1>order. StopOrder'
  BY DEF OwnInv, StopOrder, Next, Listen, ListenTop, Accept, AcceptFails, Push, SpawnHandler, Peer,
     Connect, SendLine, Stall, Resume, Close, Handler, EnterRecv, LeaveRecv, PrintCommand, Respond, Cleanup, Leave,
     BeginLog, Broadcast, WriteLog, Drain, Signal, LockClients, CastSent, CastFailed, EndLog, StopBegin, Stopping,
     CloseServer, CloseClients, JoinListener, vars
<1>own. running /\ ~dropped =>
        /\ \A c \in Conns : Serving(c) => fdConn[hfd[c]] = c
        /\ lpc \in {"push", "spawn"} => fdConn[lfd] = lconn /\ hpc[lconn] = "none"
  BY DEF OwnInv, HandlersOwnFds, PendingOwn, StartedOnce, BacklogFresh, Fresh
<1>goal. ASSUME running' /\ ~dropped' =>
               /\ \A c \in Conns : hpc'[c] \notin {"none", "bye", "done"} => fdConn'[hfd'[c]] = c
               /\ lpc' \in {"push", "spawn"} => fdConn'[lfd'] = lconn'
      PROVE  OwnInv'
  BY <1>goal, <1>once, <1>order DEF OwnInv, HandlersOwnFds, PendingOwn, Serving
\* Steps that leave the table and the numbers alone.
<1>1. ASSUME UNCHANGED <<fdConn, hfd, lfd, lconn>>, running' => running, dropped' = dropped,
             lpc' \in {"push", "spawn"} <=> lpc \in {"push", "spawn"},
             \A c \in Conns : hpc'[c] \notin {"none", "bye", "done"} => hpc[c] \notin {"none", "bye", "done"}
      PROVE  OwnInv'
  BY <1>1, <1>goal, <1>own DEF Serving
<1>2. CASE Accept
  <2>1. Min(FreeFds) \in FreeFds
    <3>1. FreeFds \subseteq Nat /\ FreeFds # {}
      BY <1>2, BoundAssumption DEF Accept, FreeFds, Fds
    <3> QED BY <3>1, LowestFree
  <2>2. /\ lfd' \in Fds /\ fdConn[lfd'] = NoConn /\ fdConn' = [fdConn EXCEPT ![lfd'] = lconn']
        /\ UNCHANGED <<hpc, hfd, running, dropped>>
    BY <1>2, <2>1 DEF Accept, FreeFds
  <2> QED BY <1>goal, <1>own, <1>types, <2>2 DEF Serving
<1>3. CASE SpawnHandler
  <2>1. /\ lpc = "spawn" /\ lconn \in Conns /\ lpc' = "top"
        /\ hpc' = [hpc EXCEPT ![lconn] = "top"] /\ hfd' = [hfd EXCEPT ![lconn] = lfd]
        /\ UNCHANGED <<fdConn, running, dropped>>
    BY <1>3, <1>types DEF SpawnHandler
  <2> QED BY <1>goal, <1>own, <1>types, <2>1 DEF Serving
<1>4. ASSUME NEW c \in Conns, Cleanup(c) PROVE OwnInv'
  <2>1. /\ hpc[c] = "cleanup" /\ hpc' = [hpc EXCEPT ![c] = "bye"] /\ hfd[c] \in Fds
        /\ UNCHANGED <<hfd, lpc, lfd, lconn, running, dropped>>
    BY <1>4, <1>types DEF Cleanup
  <2>2. CASE UNCHANGED fdConn
    BY <1>goal, <1>own, <1>types, <2>1, <2>2 DEF Serving
  <2>3. CASE fdConn' = [fdConn EXCEPT ![hfd[c]] = NoConn]
    <3>1. running /\ ~dropped =>
            /\ \A d \in Conns : Serving(d) /\ d # c => hfd[d] # hfd[c]
            /\ lpc \in {"push", "spawn"} => lfd # hfd[c]
      BY <1>own, <1>types, <2>1 DEF Serving
    <3> QED BY <1>goal, <1>own, <1>types, <2>1, <2>3, <3>1 DEF Serving
  <2> QED BY <1>4, <2>2, <2>3 DEF Cleanup, FirstPlace, Drop
<1>5. CASE CloseClients
  BY <1>5, <1>goal DEF CloseClients, OwnInv, StopOrder
<1>6. CASE CastFailed
  BY <1>6, <1>goal DEF CastFailed
<1>7. ASSUME NEW c \in Conns, EnterRecv(c) \/ LeaveRecv(c) \/ PrintCommand(c) \/ Respond(c)
      PROVE  OwnInv'
  <2>1. /\ UNCHANGED <<fdConn, hfd, lfd, lconn, lpc, running, dropped>>
        /\ hpc[c] \in {"top", "recv", "got", "respond"}
    BY <1>7 DEF EnterRecv, LeaveRecv, PrintCommand, Respond
  <2>2. PICK next \in HandlerStates : hpc' = [hpc EXCEPT ![c] = next]
    BY <1>7 DEF EnterRecv, LeaveRecv, PrintCommand, Respond, HandlerStates
  <2> QED BY <1>1, <1>types, <2>1, <2>2
<1>8. CASE EndLog
  <2>1. UNCHANGED <<fdConn, hfd, lfd, lconn, lpc, running, dropped>>
    BY <1>8 DEF EndLog
  <2>2. \A c \in Conns : hpc'[c] \notin {"none", "bye", "done"} => hpc[c] \notin {"none", "bye", "done"}
    BY <1>8, <1>types DEF EndLog, OwnInv, StartedOnce, LoggerWaits
  <2> QED BY <1>1, <2>1, <2>2
<1>leave. ASSUME NEW c \in Conns, Leave(c) PROVE OwnInv'
  <2>1. /\ UNCHANGED <<fdConn, hfd, lfd, lconn, lpc, running, dropped>>
        /\ hpc' = [hpc EXCEPT ![c] = "done"]
    BY <1>leave DEF Leave
  <2> QED BY <1>1, <1>types, <2>1
<1>9. CASE /\ UNCHANGED <<fdConn, hfd, lfd, lconn, hpc, dropped>> /\ (running' => running)
           /\ lpc' \in {"push", "spawn"} <=> lpc \in {"push", "spawn"}
  BY <1>1, <1>9
<1>10. \/ Accept \/ SpawnHandler \/ CloseClients \/ CastFailed \/ EndLog
       \/ \E c \in Conns : \/ EnterRecv(c) \/ LeaveRecv(c) \/ PrintCommand(c) \/ Respond(c)
                           \/ Cleanup(c) \/ Leave(c)
       \/ /\ UNCHANGED <<fdConn, hfd, lfd, lconn, hpc, dropped>> /\ (running' => running)
          /\ lpc' \in {"push", "spawn"} <=> lpc \in {"push", "spawn"}
  BY DEF Next, Listen, ListenTop, AcceptFails, Push, Peer, Connect, SendLine, Stall, Resume, Close,
     Handler, BeginLog, Broadcast, WriteLog, LockClients, CastSent, Drain, Signal, StopBegin,
     Stopping, CloseServer, JoinListener, vars
<1> QED BY <1>2, <1>3, <1>4, <1>5, <1>6, <1>7, <1>leave, <1>8, <1>9, <1>10

\* No handler runs at first.
LEMMA OwnInit == Init => OwnInv
<1> SUFFICES ASSUME Init PROVE OwnInv
  OBVIOUS
<1>1. \A c \in Conns : ~Serving(c) /\ hpc[c] = "none"
  BY DEF Init, Serving
<1>2. BacklogFresh /\ LoggerWaits
  BY ConnAssumption DEF Init, BacklogFresh, LoggerWaits, ToSet, IsInjective
<1> QED BY <1>1, <1>2 DEF Init, OwnInv, StartedOnce, StopOrder, PendingOwn, HandlersOwnFds

\* The invariants of the server together.
LEMMA ServerInvariants == Spec => [](TypeInv /\ FdsAccounted /\ OwnInv)
BY TypesAndFds, OwnInit, OwnNext, PTL DEF Spec

\* However numbers are closed and handed out again, a handler works on its own
\* connection until a broadcast or stop() interferes (client_loop).
THEOREM HandlersOwn == Spec => []HandlersOwnFds
<1>1. OwnInv => HandlersOwnFds
  BY DEF OwnInv
<1> QED BY <1>1, ServerInvariants, PTL

-----------------------------------------------------------------------------
(* Answers.                                                                *)

\* A handler in recv() reads its own connection.
ReadsOwn ==
  running /\ ~dropped => \A c \in Conns : hpc[c] = "recv" => entered[c] = c

Executing(c) == IF hpc[c] \in {"got", "log", "respond"} THEN 1 ELSE 0

AnswerInv == ReadsOwn /\ OneAnswerPerLine

\* A line is unread, in execution or answered, at its own handler.
LEMMA AnswerNext == TypeInv /\ OwnInv /\ AnswerInv /\ [Next]_vars => AnswerInv'
<1> SUFFICES ASSUME TypeInv, OwnInv, AnswerInv, [Next]_vars PROVE AnswerInv'
  OBVIOUS
<1> USE DEF listenVars, handlerVars, castVars, peerVars, wireVars, tableVars, stopVars
<1>types. /\ NoConn \notin Conns
          /\ hpc \in [Conns -> HandlerStates]
          /\ entered \in [Conns -> Conns \cup {NoConn}]
          /\ unread \in [Conns -> Nat] /\ lines \in [Conns -> Nat] /\ answers \in [Conns -> Nat]
          /\ lpc \in {"push", "spawn"} => lconn \in Conns
  BY ConnAssumption DEF TypeInv, TypeOK, InHand
<1>own. running /\ ~dropped =>
        \A c \in Conns : /\ hpc[c] = "recv" => entered[c] = c
                        /\ answers[c] + unread[c] + Executing(c) <= lines[c]
  BY DEF AnswerInv, ReadsOwn, OneAnswerPerLine, Executing
<1>goal. ASSUME running' /\ ~dropped' =>
               \A c \in Conns :
                 /\ hpc'[c] = "recv" => entered'[c] = c
                 /\ answers'[c] + unread'[c] + (IF hpc'[c] \in {"got", "log", "respond"} THEN 1
                                              ELSE 0)
                      <= lines'[c]
      PROVE  AnswerInv'
  BY <1>goal DEF AnswerInv, ReadsOwn, OneAnswerPerLine
<1>1. CASE /\ UNCHANGED <<hpc, entered, answers, unread, lines>> /\ (running' => running)
           /\ (dropped => dropped')
  BY <1>1, <1>goal, <1>own DEF Executing
<1>2. ASSUME NEW c \in Conns, SendLine(c) PROVE AnswerInv'
  <2>1. /\ lines' = [lines EXCEPT ![c] = @ + 1] /\ unread' = [unread EXCEPT ![c] = @ + 1]
        /\ UNCHANGED <<hpc, entered, answers, running, dropped>>
    BY <1>2 DEF SendLine
  <2> QED BY <1>goal, <1>own, <1>types, <2>1 DEF Executing
<1>3. CASE SpawnHandler
  <2>1. /\ hpc' = [hpc EXCEPT ![lconn] = "top"] /\ lconn \in Conns
        /\ UNCHANGED <<entered, answers, unread, lines, running, dropped>>
    BY <1>3, <1>types DEF SpawnHandler
  <2> QED BY <1>goal, <1>own, <1>types, <2>1 DEF Executing
<1>4. ASSUME NEW c \in Conns, EnterRecv(c) PROVE AnswerInv'
  <2>1. /\ hpc[c] = "top" /\ UNCHANGED <<answers, unread, lines, running, dropped>>
        /\ entered' = [entered EXCEPT ![c] = IF running THEN fdConn[hfd[c]] ELSE NoConn]
    BY <1>4 DEF EnterRecv
  <2>2. PICK next \in {"recv", "cleanup"} : hpc' = [hpc EXCEPT ![c] = next]
    BY <1>4 DEF EnterRecv
  <2>3. running /\ ~dropped => fdConn[hfd[c]] = c
    BY <2>1 DEF OwnInv, HandlersOwnFds, Serving
  <2> QED BY <1>goal, <1>own, <1>types, <2>1, <2>2, <2>3 DEF Executing
<1>5. ASSUME NEW c \in Conns, LeaveRecv(c) PROVE AnswerInv'
  <2>1. /\ hpc[c] = "recv" /\ UNCHANGED <<answers, lines, running, dropped>>
        /\ entered' = [entered EXCEPT ![c] = NoConn]
    BY <1>5 DEF LeaveRecv
  <2>2. CASE /\ unread[entered[c]] > 0 /\ unread' = [unread EXCEPT ![entered[c]] = @ - 1]
             /\ hpc' = [hpc EXCEPT ![c] = "got"]
    <3>2. running /\ ~dropped => entered[c] = c
      BY <1>own, <2>1
    <3>3. CASE running /\ ~dropped
      <4>1. unread[c] > 0 /\ unread' = [unread EXCEPT ![c] = @ - 1]
        BY <2>2, <3>2, <3>3
      <4> QED BY <1>goal, <1>own, <1>types, <2>1, <2>2, <3>3, <4>1 DEF Executing
    <3> QED BY <1>goal, <2>1, <3>3
  <2>3. CASE UNCHANGED unread /\ hpc' = [hpc EXCEPT ![c] = "cleanup"]
    BY <1>goal, <1>own, <1>types, <2>1, <2>3 DEF Executing
  <2> QED BY <1>5, <2>2, <2>3 DEF LeaveRecv
<1>6. ASSUME NEW c \in Conns, Respond(c) PROVE AnswerInv'
  <2>1. /\ hpc[c] = "respond" /\ UNCHANGED <<entered, unread, lines, running, dropped>>
        /\ hpc' = [hpc EXCEPT ![c] = "top"]
    BY <1>6 DEF Respond
  <2>2. CASE running /\ ~dropped
    <3>1. fdConn[hfd[c]] = c
      BY <2>1, <2>2 DEF OwnInv, HandlersOwnFds, Serving
    <3>2. answers' = answers \/ answers' = [answers EXCEPT ![c] = @ + 1]
      BY <1>6, <3>1 DEF Respond
    <3> QED BY <1>goal, <1>own, <1>types, <2>1, <2>2, <3>2 DEF Executing
  <2> QED BY <1>goal, <2>1, <2>2
<1>7. ASSUME NEW c \in Conns, Cleanup(c) PROVE AnswerInv'
  <2>1. /\ hpc' = [hpc EXCEPT ![c] = "bye"]
        /\ UNCHANGED <<entered, answers, unread, lines, running, dropped>>
    BY <1>7 DEF Cleanup
  <2> QED BY <1>goal, <1>own, <1>types, <2>1 DEF Executing
<1>7a. ASSUME NEW c \in Conns, PrintCommand(c) \/ Leave(c) PROVE AnswerInv'
  <2>1. /\ UNCHANGED <<entered, answers, unread, lines, running, dropped>>
        /\ \/ /\ hpc[c] = "got"
              /\ \E next \in {"respond", "log"} : hpc' = [hpc EXCEPT ![c] = next]
           \/ hpc' = [hpc EXCEPT ![c] = "done"]
    BY <1>7a DEF PrintCommand, Leave
  <2> QED BY <1>goal, <1>own, <1>types, <2>1 DEF Executing
<1>8. CASE EndLog
  <2>1. /\ hpc' = IF logger \in Conns THEN [hpc EXCEPT ![logger] = "respond"] ELSE hpc
        /\ UNCHANGED <<entered, answers, unread, lines, running, dropped>>
        /\ logger \in Conns => hpc[logger] = "log"
    BY <1>8 DEF EndLog, OwnInv, StartedOnce, LoggerWaits
  <2> QED BY <1>goal, <1>own, <1>types, <2>1 DEF Executing
<1>9. \/ SpawnHandler \/ EndLog
      \/ \E c \in Conns : \/ SendLine(c) \/ EnterRecv(c) \/ LeaveRecv(c) \/ Respond(c)
                          \/ Cleanup(c) \/ PrintCommand(c) \/ Leave(c)
      \/ /\ UNCHANGED <<hpc, entered, answers, unread, lines>>
         /\ (running' => running) /\ (dropped => dropped')
  BY DEF Next, Listen, ListenTop, Accept, AcceptFails, Push, Peer, Connect, Stall, Resume, Close,
     Handler, BeginLog, Broadcast, WriteLog, LockClients, CastSent, CastFailed, Drain, Signal,
     StopBegin, Stopping, CloseServer, CloseClients, JoinListener, vars
<1> QED BY <1>1, <1>2, <1>3, <1>4, <1>5, <1>6, <1>7, <1>7a, <1>8, <1>9

\* No line is answered twice and no answer goes to another client until a broadcast or
\* stop() has closed a descriptor under its handler (client_loop).
THEOREM AnswersAreOwn == Spec => []OneAnswerPerLine
<1>1. Init => AnswerInv
  BY DEF Init, AnswerInv, ReadsOwn, OneAnswerPerLine
<1>2. Spec => []AnswerInv
  BY <1>1, ServerInvariants, AnswerNext, PTL DEF Spec
<1>3. AnswerInv => OneAnswerPerLine
  BY DEF AnswerInv
<1> QED BY <1>2, <1>3, PTL

-----------------------------------------------------------------------------
(* Mutexes.                                                                *)

\* Whoever holds clients_mutex_ across a send() is the thread that holds log_mutex_: the
\* two are taken in one order, and given back together (log_write, broadcast_log).
MutexOrder ==
  /\ bpos = 0 <=> lock = Nobody
  /\ lock # Nobody => lock = logger /\ printed
  /\ printed => logger # Nobody

\* What the steps WriteLog, LockClients, CastSent and EndLog of a logger wait for.
CastGoesOn ==
  \/ logger # Nobody /\ ~printed /\ pipe < PipeCap
  \/ printed /\ bpos = 0 /\ lock = Nobody
  \/ bpos \in DOMAIN clients /\ Target \in Conns /\ peer[Target] # "stalled"
  \/ bpos > Len(clients)

\* The logger prints, and the pipe behind stdout is full.
WaitsForReader == logger # Nobody /\ ~printed /\ pipe = PipeCap

\* The logger is in send() to an open connection whose peer does not read.
WaitsForPeer == bpos \in DOMAIN clients /\ Target \in Conns /\ peer[Target] = "stalled"

\* A mutex that is held is held by a logger that can go on, or that waits for something
\* outside the server: for the reader of stdout, with log_mutex_ held and clients_mutex_
\* free, or for a peer, with both held.  The threads of the server therefore never wait
\* for each other in a circle, and an unread stdout stops the loggers and who waits for
\* them but no thread that only needs clients_mutex_ (log_write, broadcast_log,
\* listen_loop, client_loop, stop).
WaitsOutsideOnly ==
  /\ logger # Nobody => CastGoesOn \/ WaitsForReader \/ WaitsForPeer
  /\ lock # Nobody => CastGoesOn \/ WaitsForPeer
  /\ WaitsForReader => lock = Nobody

\* Every step that takes or gives back a mutex keeps their order.
LEMMA MutexNext == TypeInv /\ MutexOrder /\ [Next]_vars => MutexOrder'
<1> SUFFICES ASSUME TypeInv, MutexOrder, [Next]_vars PROVE MutexOrder'
  OBVIOUS
<1> USE DEF castVars, listenVars, handlerVars, peerVars, wireVars, tableVars, stopVars
<1>0. bpos \in Nat /\ Len(clients) \in Nat /\ Nobody \notin Threads
  BY ConnAssumption DEF TypeInv, TypeOK, Threads, Nobody, Device
<1>1. CASE Broadcast
  BY <1>0, <1>1 DEF Broadcast, WriteLog, LockClients, CastSent, CastFailed, EndLog, MutexOrder
<1>2. ASSUME NEW t \in Threads, BeginLog(t) PROVE MutexOrder'
  BY <1>0, <1>2 DEF BeginLog, MutexOrder
<1>3. CASE UNCHANGED <<lock, logger, printed, bpos>>
  BY <1>3 DEF MutexOrder
<1>4. \/ Broadcast
      \/ \E t \in Threads : BeginLog(t)
      \/ UNCHANGED <<lock, logger, printed, bpos>>
  BY DEF Next, Listen, ListenTop, Accept, AcceptFails, Push, SpawnHandler, Peer, Connect,
     SendLine, Stall, Resume, Close, Handler, EnterRecv, LeaveRecv, PrintCommand,
     Respond, Cleanup, Leave, Drain, Signal, StopBegin, Stopping, CloseServer, CloseClients,
     JoinListener, vars, Threads
<1> QED BY <1>1, <1>2, <1>3, <1>4

\* For any number of connections and log lines, only a peer that does not read, or a
\* stdout that nobody reads, can keep a thread of the server from its mutex
\* (socket_server.cpp, log_write).
THEOREM NoCircularWait == Spec => [](MutexOrder /\ WaitsOutsideOnly)
<1>1. Init => MutexOrder
  BY DEF Init, MutexOrder
<1>2. TypeInv /\ FdsAccounted /\ MutexOrder => WaitsOutsideOnly
  <2> SUFFICES ASSUME TypeInv, FdsAccounted, MutexOrder PROVE WaitsOutsideOnly
    OBVIOUS
  <2>0. /\ bpos \in Nat /\ clients \in Seq(Fds) /\ fdConn \in [Fds -> Conns \cup {NoConn}]
        /\ pipe \in 0..PipeCap /\ printed \in BOOLEAN
    BY DEF TypeInv, TypeOK
  <2>1. pipe < PipeCap \/ pipe = PipeCap
    BY <2>0, PipeAssumption
  <2>2. bpos = 0 \/ bpos > Len(clients) \/ bpos \in 1..Len(clients)
    BY <2>0
  <2>3. ASSUME bpos \in 1..Len(clients) PROVE bpos \in DOMAIN clients /\ Target \in Conns
    <3>1. bpos \in DOMAIN clients /\ clients[bpos] \in ToSet(clients)
      BY <2>0, <2>3 DEF ToSet
    <3>2. clients[bpos] \in Fds \ FreeFds
      BY <3>1 DEF FdsAccounted
    <3> QED BY <2>0, <3>1, <3>2 DEF FreeFds, Target
  <2>4. lock # Nobody => CastGoesOn \/ WaitsForPeer
    BY <2>2, <2>3 DEF MutexOrder, CastGoesOn, WaitsForPeer
  <2>5. logger # Nobody => CastGoesOn \/ WaitsForReader \/ WaitsForPeer
    BY <2>1, <2>4 DEF MutexOrder, CastGoesOn, WaitsForReader
  <2>6. WaitsForReader => lock = Nobody
    BY DEF MutexOrder, WaitsForReader
  <2> QED BY <2>4, <2>5, <2>6 DEF WaitsOutsideOnly
<1> QED
  BY <1>1, <1>2, TypesAndFds, MutexNext, PTL DEF Spec
=============================================================================
