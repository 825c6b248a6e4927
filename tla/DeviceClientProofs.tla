------------------------- MODULE DeviceClientProofs -------------------------
(***************************************************************************)
(* Theorems about DeviceClient for any number of threads, calls, retries   *)
(* and lines under way: its types, that no answer is lost, that it         *)
(* implements ConsoleCalls, and what its callers may conclude from that.   *)
(***************************************************************************)
EXTENDS DeviceClient, SequenceTheorems, TLAPS

USE DEF ownVars, callVars, wireVars

-----------------------------------------------------------------------------
(* Type correctness.                                                       *)

Requests == CallIds \X Commands
Lines    == CallIds \cup {Log}

\* A call under way has a number and a command.
Calling == \A t \in Callers : pc[t] # "idle" => made[t] \in 1..MaxCalls /\ cmd[t] \in Commands

\* connect() has an attempt left.
Trying == opc = "connect" => attempt < Retries

TypeInv == TypeOK /\ Calling /\ Trying

\* Empty queues are queues.
LEMMA Nothing ==
  [ch \in Chans |-> <<>>] \in [Chans -> Seq(Requests)] \cap [Chans -> Seq(Lines)]
<1>1. <<>> \in Seq(Requests) /\ <<>> \in Seq(Lines)
  BY EmptySeq
<1> QED
  BY <1>1

\* The caller's thread is one channel, the console is another.
LEMMA ChanFacts ==
  /\ \A t \in Callers : t \in Chans /\ t # Console
  /\ Console \in Chans
  /\ \A ch \in Chans : ch \in Callers \/ ch = Console
BY OwnerAssumption DEF Chans, Console

\* An id is a pair, and neither a log line nor the answer "".
LEMMA IdFacts ==
  /\ \A t \in Callers, n \in 1..MaxCalls : <<t, n>> \in CallIds
  /\ \A id \in CallIds : /\ id[1] \in Callers /\ id[2] \in 1..MaxCalls
                         /\ id = <<id[1], id[2]>>
                         /\ id # Log /\ id # Empty
BY OwnerAssumption DEF CallIds, Log, Empty

\* The request and the line that a queue yields.
LEMMA HeadFacts ==
  ASSUME TypeInv
  PROVE  /\ \A ch \in Chans : req[ch] # <<>> =>
              /\ Head(req[ch]) \in Requests /\ Head(req[ch])[1] \in CallIds
              /\ Tail(req[ch]) \in Seq(Requests)
         /\ \A ch \in Chans : out[ch] # <<>> =>
              /\ Head(out[ch]) \in Lines /\ Tail(out[ch]) \in Seq(Lines)
<1>1. \A ch \in Chans : req[ch] \in Seq(Requests) /\ out[ch] \in Seq(Lines)
  BY DEF TypeInv, TypeOK, Requests, Lines
<1>2. ASSUME NEW ch \in Chans, req[ch] # <<>>
      PROVE  /\ Head(req[ch]) \in Requests /\ Head(req[ch])[1] \in CallIds
             /\ Tail(req[ch]) \in Seq(Requests)
  BY <1>1, <1>2, HeadTailProperties DEF Requests
<1>3. ASSUME NEW ch \in Chans, out[ch] # <<>>
      PROVE  Head(out[ch]) \in Lines /\ Tail(out[ch]) \in Seq(Lines)
  BY <1>1, <1>3, HeadTailProperties
<1> QED
  BY <1>2, <1>3

\* A client that has not connected yet.
LEMMA TypeInit == Init => TypeInv
<1> SUFFICES ASSUME Init PROVE TypeInv
  OBVIOUS
<1>1. Retries \in Nat \ {0} /\ MaxCalls \in Nat
  BY BoundAssumption
<1>2. TypeOK
  <2>1. req \in [Chans -> Seq(Requests)] /\ out \in [Chans -> Seq(Lines)]
    BY Nothing DEF Init
  <2>2. /\ emu \in {"starting", "up", "hung", "down"} /\ attempt \in 0..Retries
        /\ opc = "connect" /\ file = "open" /\ lpc = "none"
    BY <1>1 DEF Init
  <2>3. sock \in BOOLEAN /\ listening \in BOOLEAN
    BY Zenon DEF Init
  <2>4. /\ pc \in [Callers -> {"idle", "wait", "recv"}]
        /\ made \in [Callers -> 0..MaxCalls]
        /\ cmd \in [Callers -> Commands \cup {NoCommand}]
        /\ ret \in [Callers -> CallIds \cup {Empty}]
        /\ ran \in [CallIds -> Nat]
    BY <1>1 DEF Init
  <2> QED
    BY <2>1, <2>2, <2>3, <2>4 DEF TypeOK, Requests, Lines
<1>3. Calling /\ Trying
  BY <1>1 DEF Init, Calling, Trying
<1> QED
  BY <1>2, <1>3 DEF TypeInv

\* Lines appended by the emulator are answers or log lines.
LEMMA LinesAppended ==
  ASSUME TypeInv, NEW id \in Lines
  PROVE  \A ch \in Chans : Append(out[ch], id) \in Seq(Lines)
<1>1. \A ch \in Chans : out[ch] \in Seq(Lines)
  BY DEF TypeInv, TypeOK, Lines
<1> QED
  BY <1>1, AppendProperties

\* Each action keeps the types.
LEMMA TypeStep == TypeInv /\ [Next]_vars => TypeInv'
<1> SUFFICES ASSUME TypeInv, [Next]_vars PROVE TypeInv'
  OBVIOUS
<1>0. /\ TypeOK /\ Calling /\ Trying
      /\ out \in [Chans -> Seq(Lines)] /\ req \in [Chans -> Seq(Requests)]
      /\ MaxCalls \in Nat /\ Retries \in Nat \ {0}
  BY BoundAssumption DEF TypeInv, TypeOK, Lines, Trying, Requests
<1> DEFINE Same == UNCHANGED <<pc, made, cmd, ret, req, ran>>
<1>a. ASSUME NEW t \in Callers, NEW answer \in CallIds \cup {Empty}, Finish(t, answer),
             UNCHANGED <<made, emu, ownVars, lpc>>, UNCHANGED ran, UNCHANGED req
      PROVE  TypeInv'
  <2>1. /\ pc' \in [Callers -> {"idle", "wait", "recv"}]
        /\ ret' \in [Callers -> CallIds \cup {Empty}]
        /\ cmd' \in [Callers -> Commands \cup {NoCommand}]
    BY <1>0, <1>a DEF Finish, TypeOK
  <2>2. out' \in [Chans -> Seq(Lines)]
    BY <1>0, <1>a, ChanFacts DEF Finish
  <2>3. Calling'
    BY <1>0, <1>a DEF Finish, Calling, TypeOK
  <2> QED
    BY <1>0, <1>a, <2>1, <2>2, <2>3 DEF TypeInv, TypeOK, Lines, Trying
<1>1. CASE Connect
  <2>1. attempt' \in 0..Retries /\ Trying'
    BY <1>0, <1>1 DEF Connect, TypeOK, Trying
  <2>2. TypeOK'
    BY <1>0, <1>1, <2>1 DEF Connect, TypeOK
  <2> QED
    BY <1>0, <1>1, <2>1, <2>2 DEF Connect, Calling, TypeInv
<1>2. CASE CloseSocket \/ CloseFile \/ ListenTest \/ ListenEnter \/ ListenWrite
  BY <1>0, <1>2 DEF CloseSocket, CloseFile, ListenTest, ListenEnter, ListenWrite, TypeInv,
     TypeOK, Calling, Trying
<1>3. CASE ListenRecv
  <2>1. out' \in [Chans -> Seq(Lines)]
    BY <1>0, <1>3, HeadFacts, ChanFacts DEF ListenRecv
  <2> QED
    BY <1>0, <1>3, <2>1 DEF ListenRecv, TypeInv, TypeOK, Calling, Trying, Lines
<1>4. ASSUME NEW t \in Callers, SendCopy(t) PROVE TypeInv'
  <2>1. made[t] < MaxCalls /\ made[t] \in 0..MaxCalls /\ made' = [made EXCEPT ![t] = @ + 1]
    BY <1>0, <1>4 DEF SendCopy, MayCall, TypeOK
  <2>2. made' \in [Callers -> 0..MaxCalls] /\ made'[t] \in 1..MaxCalls
    BY <1>0, <2>1 DEF TypeOK
  <2>3. PICK c \in Commands :
           \/ /\ req' = IF emu = "down" THEN req
                        ELSE [req EXCEPT ![Console] = Append(@, <<<<t, made'[t]>>, c>>)]
              /\ cmd' = [cmd EXCEPT ![t] = c]
              /\ pc' = [pc EXCEPT ![t] = "wait"]
              /\ UNCHANGED <<ret, out>>
           \/ Finish(t, Empty) /\ UNCHANGED req
    BY <1>4 DEF SendCopy
  <2>4. UNCHANGED <<emu, ownVars, lpc, ran>>
    BY <1>4 DEF SendCopy
  <2>5. CASE /\ req' = IF emu = "down" THEN req
                       ELSE [req EXCEPT ![Console] = Append(@, <<<<t, made'[t]>>, c>>)]
             /\ cmd' = [cmd EXCEPT ![t] = c]
             /\ pc' = [pc EXCEPT ![t] = "wait"]
             /\ UNCHANGED <<ret, out>>
    <3>1. <<<<t, made'[t]>>, c>> \in Requests
      BY <2>2, IdFacts DEF Requests
    <3>2. req[Console] \in Seq(Requests)
      BY <1>0, ChanFacts
    <3>3. Append(req[Console], <<<<t, made'[t]>>, c>>) \in Seq(Requests)
      BY <3>1, <3>2, AppendProperties
    <3>4. req' \in [Chans -> Seq(Requests)]
      BY <1>0, <2>5, <3>3
    <3>5. /\ cmd' \in [Callers -> Commands \cup {NoCommand}]
          /\ pc' \in [Callers -> {"idle", "wait", "recv"}]
      BY <1>0, <2>5 DEF TypeOK
    <3>6. TypeOK'
      BY <1>0, <2>2, <2>4, <2>5, <3>4, <3>5 DEF TypeOK, Requests
    <3>7. Calling'
      BY <1>0, <2>1, <2>2, <2>5 DEF Calling, TypeOK
    <3> QED
      BY <1>0, <2>4, <3>6, <3>7 DEF TypeInv, Trying
  <2>6. CASE Finish(t, Empty) /\ UNCHANGED req
    <3>1. /\ pc' \in [Callers -> {"idle", "wait", "recv"}]
          /\ ret' \in [Callers -> CallIds \cup {Empty}]
          /\ cmd' \in [Callers -> Commands \cup {NoCommand}]
      BY <1>0, <2>6 DEF Finish, TypeOK
    <3>2. out' \in [Chans -> Seq(Lines)]
      BY <1>0, <2>6, ChanFacts DEF Finish
    <3>3. TypeOK'
      BY <1>0, <2>2, <2>4, <2>6, <3>1, <3>2 DEF TypeOK, Lines
    <3>4. Calling'
      BY <1>0, <2>1, <2>6 DEF Finish, Calling, TypeOK
    <3> QED
      BY <1>0, <2>4, <3>3, <3>4 DEF TypeInv, Trying
  <2> QED
    BY <2>3, <2>5, <2>6
<1>5. ASSUME NEW t \in Callers, Dial(t) PROVE TypeInv'
  <2>1. UNCHANGED <<emu, ownVars, lpc, made, ran>> /\ pc[t] = "wait"
    BY <1>5 DEF Dial
  <2>2. CASE /\ pc' = [pc EXCEPT ![t] = "recv"]
             /\ req' = [req EXCEPT ![t] = <<<<<<t, made[t]>>, cmd[t]>>>>]
             /\ UNCHANGED <<ret, cmd, out>>
    <3>1. made[t] \in 1..MaxCalls /\ cmd[t] \in Commands
      BY <1>0, <2>1 DEF Calling
    <3>2. <<<<t, made[t]>>, cmd[t]>> \in Requests
      BY <3>1, IdFacts DEF Requests
    <3>3. <<<<<<t, made[t]>>, cmd[t]>>>> \in Seq(Requests)
      BY <3>2
    <3>4. req' \in [Chans -> Seq(Requests)]
      BY <1>0, <2>2, <3>3
    <3>5. TypeOK'
      BY <1>0, <2>1, <2>2, <3>4 DEF TypeOK, Requests
    <3>6. Calling'
      BY <1>0, <2>1, <2>2, <3>1 DEF Calling, TypeOK
    <3> QED
      BY <1>0, <2>1, <3>5, <3>6 DEF TypeInv, Trying
  <2>3. CASE Finish(t, Empty) /\ UNCHANGED req
    BY <1>a, <2>1, <2>3
  <2> QED
    BY <1>5, <2>2, <2>3 DEF Dial
<1>6. ASSUME NEW t \in Callers, Read(t) PROVE TypeInv'
  <2>1. UNCHANGED <<emu, ownVars, lpc, made, req, ran>>
    BY <1>6 DEF Read
  <2>2. CASE out[t] # <<>> /\ Head(out[t]) = Log /\ Skip(t)
    <3>1. out' \in [Chans -> Seq(Lines)]
      BY <1>0, <2>2, HeadFacts, ChanFacts DEF Skip
    <3> QED
      BY <1>0, <2>1, <2>2, <3>1 DEF Skip, TypeInv, TypeOK, Calling, Trying, Lines
  <2>3. CASE out[t] # <<>> /\ Head(out[t]) # Log /\ Finish(t, Head(out[t]))
    <3>1. Head(out[t]) \in CallIds
      BY <2>3, HeadFacts, ChanFacts DEF Lines
    <3> QED
      BY <1>a, <2>1, <2>3, <3>1
  <2>4. CASE Finish(t, Empty)
    BY <1>a, <2>1, <2>4
  <2> QED
    BY <1>6, <2>2, <2>3, <2>4 DEF Read
<1>7. ASSUME NEW ch \in Chans, Serve(ch) PROVE TypeInv'
  <2> DEFINE id == Head(req[ch])[1]
  <2>1. id \in CallIds /\ Tail(req[ch]) \in Seq(Requests)
    BY <1>7, HeadFacts DEF Serve
  <2>2. /\ ran' = [ran EXCEPT ![id] = @ + 1] /\ UNCHANGED <<ownVars, lpc, callVars>>
        /\ emu' \in {emu, "down"}
        /\ req' = NothingToRead \/ req' = [req EXCEPT ![ch] = Tail(@)]
        /\ out' = out \/ out' = [out EXCEPT ![ch] = Append(@, id)]
    BY <1>7 DEF Serve
  <2>3. ran' \in [CallIds -> Nat]
    BY <1>0, <2>1, <2>2 DEF TypeOK
  <2>4. req' \in [Chans -> Seq(Requests)]
    BY <1>0, <2>1, <2>2, Nothing DEF NothingToRead
  <2>5. id \in Lines
    BY <2>1 DEF Lines
  <2>6. Append(out[ch], id) \in Seq(Lines)
    BY <2>5, LinesAppended
  <2>7. out' \in [Chans -> Seq(Lines)]
    BY <1>0, <2>2, <2>6
  <2> QED
    BY <1>0, <2>2, <2>3, <2>4, <2>7 DEF TypeInv, TypeOK, Calling, Trying, Lines, Requests
<1>8. CASE LogLine
  <2>1. \A ch \in Chans : Append(out[ch], Log) \in Seq(Lines)
    BY LinesAppended DEF Lines
  <2>2. /\ out' = [ch \in Chans |-> IF Alive(ch) THEN Append(out[ch], Log) ELSE out[ch]]
        /\ UNCHANGED <<emu, ownVars, lpc, callVars, req, ran>>
    BY <1>8 DEF LogLine
  <2>3. out' \in [Chans -> Seq(Lines)]
    BY <1>0, <2>1, <2>2
  <2> QED
    BY <1>0, <2>2, <2>3 DEF TypeInv, TypeOK, Calling, Trying, Lines
<1>9. CASE Environment
  <2>1. req' \in [Chans -> Seq(Requests)]
    BY <1>0, <1>9, Nothing DEF Environment, Start, Hang, Exit, NothingToRead
  <2>2. emu' \in {"starting", "up", "hung", "down"}
    BY <1>9 DEF Environment, Start, Hang, Exit
  <2> QED
    BY <1>0, <1>9, <2>1, <2>2 DEF Environment, TypeInv, TypeOK, Calling, Trying, Requests
<1>10. CASE UNCHANGED vars
  BY <1>0, <1>10 DEF vars, TypeInv, TypeOK, Calling, Trying
<1> QED
  BY <1>1, <1>2, <1>3, <1>4, <1>5, <1>6, <1>7, <1>8, <1>9, <1>10 DEF Next, Listener, Call

\* Every variable of DeviceClient keeps its type.
THEOREM TypeCorrect == Spec => []TypeOK
<1>1. Spec => []TypeInv
  BY TypeInit, TypeStep, PTL DEF Spec
<1> QED
  BY <1>1, PTL DEF TypeInv

\* A call returns "" only when the emulator is gone.
THEOREM AnswersAreKept == Spec => LosesNoAnswer
<1> DEFINE Kept == \A t \in Callers : pc[t] = "recv" /\ pc'[t] = "idle" /\ ret'[t] = Empty
                                        => emu = "down"
<1>1. Spec => []TypeInv
  BY TypeInit, TypeStep, PTL DEF Spec
<1>2. TypeInv /\ [Next]_vars => [Kept]_vars
  <2> SUFFICES ASSUME TypeInv, Next, NEW t \in Callers,
                      pc[t] = "recv", pc'[t] = "idle", ret'[t] = Empty
               PROVE  emu = "down"
    BY DEF vars
  <2>0. pc \in [Callers -> {"idle", "wait", "recv"}] /\ ret \in [Callers -> CallIds \cup {Empty}]
    BY DEF TypeInv, TypeOK
  <2>1. ASSUME NEW s \in Callers, SendCopy(s) \/ Dial(s) PROVE s # t /\ pc'[t] = pc[t]
    BY <2>0, <2>1 DEF SendCopy, MayCall, Dial, Finish
  <2>2. ASSUME NEW s \in Callers, Read(s), s # t PROVE pc'[t] = pc[t]
    BY <2>0, <2>2 DEF Read, Skip, Finish
  <2>3. ASSUME Read(t) PROVE emu = "down"
    <3>1. CASE out[t] # <<>>
      <4>1. Head(out[t]) # Log => Head(out[t]) # Empty
        BY <3>1, HeadFacts, ChanFacts, IdFacts DEF Lines
      <4> QED
        BY <2>0, <2>3, <4>1 DEF Read, Skip, Finish
    <3>2. CASE out[t] = <<>>
      BY <2>3, <3>2 DEF Read
    <3> QED
      BY <3>1, <3>2
  <2>4. ASSUME \/ Connect \/ CloseSocket \/ CloseFile \/ Listener
               \/ \E ch \in Chans : Serve(ch)
               \/ LogLine \/ Environment
        PROVE  pc' = pc
    BY <2>4 DEF Connect, CloseSocket, CloseFile, Listener, ListenTest, ListenEnter, ListenRecv,
       ListenWrite, Serve, LogLine, Environment
  <2> QED
    BY <2>1, <2>2, <2>3, <2>4 DEF Next, Call
<1> QED
  BY <1>1, <1>2, PTL DEF Spec, LosesNoAnswer
-----------------------------------------------------------------------------
(* Copies of a call: ran alone does not bound itself, the copies still     *)
(* under way must be counted with it.                                      *)

\* The calls that requests in a queue belong to.
IdsIn(q)  == {q[i][1] : i \in DOMAIN q}
Unique(q) == \A i, j \in DOMAIN q : q[i][1] = q[j][1] => i = j

\* The second copy of a thread's latest call is to be sent or under way.
Pending(t, n)  == n = made[t] /\ (pc[t] = "wait" \/ req[t] # <<>>)
Queued(t, n)   == <<t, n>> \in IdsIn(req[Console])
OneIf(b)       == IF b THEN 1 ELSE 0

\* However often a call was carried out, with the copies left it will be twice at most.
CopiesInv ==
  \A t \in Callers, n \in 1..MaxCalls :
     /\ ran[<<t, n>>] + OneIf(Queued(t, n)) + OneIf(Pending(t, n)) <= 2
     /\ n > made[t] => ran[<<t, n>>] = 0 /\ ~Queued(t, n)

\* A thread's own socket carries one copy of its call at most, and until that is served
\* log lines; then the answer to that call.
OwnInv ==
  \A t \in Callers :
     /\ req[t] # <<>> => /\ pc[t] = "recv"
                         /\ Len(req[t]) = 1 /\ Head(req[t])[1] = <<t, made[t]>>
                         /\ \A i \in DOMAIN out[t] : out[t][i] = Log
     /\ \A i \in DOMAIN out[t] :
           out[t][i] # Log => out[t][i] = <<t, made[t]>> /\ ran[<<t, made[t]>>] > 0
     /\ pc[t] # "recv" => out[t] = <<>>

DownInv == emu = "down" => req = NothingToRead

WireInv == CopiesInv /\ OwnInv /\ Unique(req[Console]) /\ DownInv

\* A request appended to a queue that has none of its call.
LEMMA IdsAppended ==
  ASSUME NEW q \in Seq(Requests), NEW r \in Requests
  PROVE  /\ IdsIn(Append(q, r)) = IdsIn(q) \cup {r[1]}
         /\ Unique(q) /\ r[1] \notin IdsIn(q) => Unique(Append(q, r))
<1>1. /\ Len(q) \in Nat /\ DOMAIN q = 1..Len(q)
      /\ DOMAIN Append(q, r) = 1..(Len(q) + 1)
      /\ \A i \in 1..Len(q) : Append(q, r)[i] = q[i]
      /\ Append(q, r)[Len(q) + 1] = r
  BY AppendProperties, LenProperties
<1>2. \A i \in 1..(Len(q) + 1) : i \in 1..Len(q) \/ i = Len(q) + 1
  BY <1>1
<1> DEFINE a == Append(q, r)
<1> HIDE DEF a
<1>3. /\ DOMAIN a = 1..(Len(q) + 1) /\ \A i \in 1..Len(q) : a[i] = q[i]
      /\ a[Len(q) + 1] = r /\ 1..Len(q) \subseteq 1..(Len(q) + 1) /\ Len(q) + 1 \in 1..(Len(q) + 1)
  BY <1>1 DEF a
<1>4. IdsIn(a) = IdsIn(q) \cup {r[1]}
  BY <1>1, <1>2, <1>3 DEF IdsIn
<1>5. ASSUME Unique(q), r[1] \notin IdsIn(q) PROVE Unique(a)
  BY <1>1, <1>2, <1>3, <1>5 DEF IdsIn, Unique
<1> QED
  BY <1>4, <1>5 DEF a

\* The head of a queue taken from it.
LEMMA IdsTaken ==
  ASSUME NEW q \in Seq(Requests), q # <<>>, Unique(q)
  PROVE  IdsIn(Tail(q)) = IdsIn(q) \ {Head(q)[1]} /\ Unique(Tail(q)) /\ Head(q)[1] \in IdsIn(q)
<1>1. /\ Len(q) \in Nat \ {0} /\ DOMAIN q = 1..Len(q) /\ Head(q) = q[1]
      /\ Len(Tail(q)) = Len(q) - 1 /\ DOMAIN Tail(q) = 1..(Len(q) - 1)
      /\ \A i \in 1..(Len(q) - 1) : Tail(q)[i] = q[i + 1]
  BY HeadTailProperties, LenProperties, EmptySeq
<1> DEFINE a == Tail(q)
           n == Len(q) - 1
<1>2. DOMAIN a = 1..n /\ n \in Nat /\ DOMAIN q = 1..(n + 1) /\ \A i \in 1..n : a[i] = q[i + 1]
  BY <1>1
<1> HIDE DEF a, n
<1>3. /\ \A i \in 1..n : i + 1 \in 1..(n + 1) /\ i + 1 # 1
      /\ \A i \in 1..(n + 1) : i # 1 => i - 1 \in 1..n /\ (i - 1) + 1 = i
      /\ \A i, j \in 1..n : i + 1 = j + 1 => i = j
      /\ 1 \in 1..(n + 1)
  BY <1>2
<1>4. \A i \in 1..n : a[i][1] \in IdsIn(q) /\ a[i][1] # q[1][1]
  BY <1>2, <1>3 DEF IdsIn, Unique
<1>5. \A i \in 1..(n + 1) : q[i][1] # q[1][1] => q[i][1] \in IdsIn(a)
  <2> SUFFICES ASSUME NEW i \in 1..(n + 1), q[i][1] # q[1][1] PROVE q[i][1] \in IdsIn(a)
    OBVIOUS
  <2>1. i - 1 \in 1..n /\ a[i - 1] = q[i]
    BY <1>2, <1>3
  <2> QED
    BY <1>2, <2>1 DEF IdsIn
<1>6. IdsIn(a) = IdsIn(q) \ {q[1][1]}
  BY <1>2, <1>4, <1>5 DEF IdsIn
<1>7. Unique(a)
  BY <1>2, <1>3 DEF Unique
<1>8. q[1][1] \in IdsIn(q)
  BY <1>2, <1>3 DEF IdsIn
<1> QED
  BY <1>1, <1>6, <1>7, <1>8 DEF a

\* Nothing has been sent.
LEMMA WireInit == Init => WireInv
<1> SUFFICES ASSUME Init PROVE WireInv
  OBVIOUS
<1>1. req = NothingToRead /\ \A ch \in Chans : req[ch] = <<>> /\ out[ch] = <<>>
  BY DEF Init, NothingToRead
<1>2. IdsIn(req[Console]) = {} /\ Unique(req[Console])
  BY <1>1, ChanFacts DEF IdsIn, Unique
<1>3. \A t \in Callers, n \in 1..MaxCalls : ran[<<t, n>>] = 0 /\ ~Queued(t, n) /\ ~Pending(t, n)
  BY <1>1, <1>2, ChanFacts, IdFacts DEF Init, Queued, Pending
<1>4. CopiesInv
  <2> SUFFICES ASSUME NEW t \in Callers, NEW n \in 1..MaxCalls
               PROVE  /\ ran[<<t, n>>] + OneIf(Queued(t, n)) + OneIf(Pending(t, n)) <= 2
                      /\ n > made[t] => ran[<<t, n>>] = 0 /\ ~Queued(t, n)
    BY DEF CopiesInv
  <2>1. ran[<<t, n>>] = 0 /\ ~Queued(t, n) /\ ~Pending(t, n)
    BY <1>3
  <2>2. OneIf(Queued(t, n)) = 0 /\ OneIf(Pending(t, n)) = 0
    BY <2>1 DEF OneIf
  <2> QED
    BY <2>1, <2>2
<1>5. OwnInv
  <2> SUFFICES ASSUME NEW t \in Callers
               PROVE  /\ req[t] = <<>> /\ out[t] = <<>>
                      /\ \A i \in DOMAIN out[t] : FALSE
    BY DEF OwnInv
  <2> QED
    BY <1>1, ChanFacts
<1> QED
  BY <1>1, <1>2, <1>4, <1>5 DEF WireInv, DownInv

\* Which steps call, send, read or serve.
LEMMA WireKinds ==
  ASSUME TypeInv, [Next]_vars
  PROVE  \/ \E t \in Callers : SendCopy(t) \/ Dial(t) \/ Read(t)
         \/ \E ch \in Chans : Serve(ch)
         \/ /\ UNCHANGED <<pc, made, ran, ret>>
            /\ \/ req' = req /\ (emu' = "down" => emu = "down")
               \/ req' = NothingToRead
            /\ \/ \A t \in Callers : out'[t] = out[t]
               \/ /\ req' = req
                  /\ \A t \in Callers : out'[t] = IF pc[t] = "recv" THEN Append(out[t], Log)
                                                                   ELSE out[t]
<1>0. out \in [Chans -> Seq(Lines)]
  BY DEF TypeInv, TypeOK, Lines
<1>1. CASE Connect \/ CloseSocket \/ CloseFile \/ ListenTest \/ ListenEnter \/ ListenWrite
           \/ UNCHANGED vars
  BY <1>1 DEF Connect, CloseSocket, CloseFile, ListenTest, ListenEnter, ListenWrite, vars
<1>2. CASE ListenRecv
  BY <1>0, <1>2, ChanFacts DEF ListenRecv
<1>3. CASE LogLine
  BY <1>3, ChanFacts DEF LogLine, Alive
<1>4. CASE Environment
  BY <1>4 DEF Environment, Start, Hang, Exit
<1> QED
  BY <1>1, <1>2, <1>3, <1>4 DEF Next, Listener, Call

\* Lines a caller has when a log line has come.
LEMMA LogAppended ==
  ASSUME TypeInv, NEW t \in Callers, NEW s, s = out[t] \/ s = Append(out[t], Log)
  PROVE  \A i \in DOMAIN s : s[i] = Log \/ (i \in DOMAIN out[t] /\ s[i] = out[t][i])
<1>1. out[t] \in Seq(Lines) /\ Log \in Lines
  BY ChanFacts DEF TypeInv, TypeOK, Lines
<1>2. /\ Len(out[t]) \in Nat /\ DOMAIN out[t] = 1..Len(out[t])
      /\ DOMAIN Append(out[t], Log) = 1..(Len(out[t]) + 1)
      /\ \A i \in 1..Len(out[t]) : Append(out[t], Log)[i] = out[t][i]
      /\ Append(out[t], Log)[Len(out[t]) + 1] = Log
  BY <1>1, AppendProperties, LenProperties
<1>3. \A i \in 1..(Len(out[t]) + 1) : i \in 1..Len(out[t]) \/ i = Len(out[t]) + 1
  BY <1>2
<1> QED
  BY <1>2, <1>3

\* Log lines and the end of the emulator bring no copies and no answers.
LEMMA QuietStep ==
  ASSUME TypeInv, WireInv,
         UNCHANGED <<pc, made, ran>>,
         \/ req' = req /\ (emu' = "down" => emu = "down")
         \/ req' = NothingToRead,
         \/ \A t \in Callers : out'[t] = out[t]
         \/ /\ req' = req
            /\ \A t \in Callers : out'[t] = IF pc[t] = "recv" THEN Append(out[t], Log)
                                                             ELSE out[t]
  PROVE  WireInv'
<1>0. ran \in [CallIds -> Nat]
  BY DEF TypeInv, TypeOK
<1>1. \A ch \in Chans : req'[ch] = req[ch] \/ req'[ch] = <<>>
  BY DEF NothingToRead
<1>2. IdsIn(req'[Console]) \subseteq IdsIn(req[Console]) /\ Unique(req'[Console])
  BY <1>1, ChanFacts DEF IdsIn, Unique, WireInv
<1>3. CopiesInv'
  <2> SUFFICES ASSUME NEW t \in Callers, NEW n \in 1..MaxCalls
               PROVE  /\ ran[<<t, n>>] + OneIf(Queued(t, n)') + OneIf(Pending(t, n)') <= 2
                      /\ n > made[t] => ran[<<t, n>>] = 0 /\ ~Queued(t, n)'
    BY DEF CopiesInv, OneIf
  <2>1. (Queued(t, n)' => Queued(t, n)) /\ (Pending(t, n)' => Pending(t, n))
    BY <1>1, <1>2, ChanFacts DEF Queued, Pending
  <2>2. /\ ran[<<t, n>>] + OneIf(Queued(t, n)) + OneIf(Pending(t, n)) <= 2
        /\ n > made[t] => ran[<<t, n>>] = 0 /\ ~Queued(t, n)
    BY DEF WireInv, CopiesInv
  <2>3. ran[<<t, n>>] \in Nat
    BY <1>0, IdFacts
  <2> QED
    BY <2>1, <2>2, <2>3 DEF OneIf
<1>4. OwnInv'
  <2> SUFFICES ASSUME NEW t \in Callers
               PROVE  /\ req'[t] # <<>> => /\ pc[t] = "recv"
                                           /\ Len(req'[t]) = 1 /\ Head(req'[t])[1] = <<t, made[t]>>
                                           /\ \A i \in DOMAIN out'[t] : out'[t][i] = Log
                      /\ \A i \in DOMAIN out'[t] :
                            out'[t][i] # Log => out'[t][i] = <<t, made[t]>> /\ ran[<<t, made[t]>>] > 0
                      /\ pc[t] # "recv" => out'[t] = <<>>
    BY DEF OwnInv
  <2>1. out'[t] = out[t] \/ (pc[t] = "recv" /\ out'[t] = Append(out[t], Log))
    OBVIOUS
  <2>2. \A i \in DOMAIN out'[t] : out'[t][i] = Log \/ (i \in DOMAIN out[t] /\ out'[t][i] = out[t][i])
    BY <2>1, LogAppended
  <2> QED
    BY <1>1, <2>1, <2>2, ChanFacts DEF WireInv, OwnInv
<1>5. DownInv'
  BY DEF WireInv, DownInv, NothingToRead
<1> QED
  BY <1>2, <1>3, <1>4, <1>5 DEF WireInv

\* Sending a first copy: the call is new, and one more copy is to follow.
LEMMA SendStep ==
  ASSUME TypeInv, WireInv, NEW t \in Callers, SendCopy(t)
  PROVE  WireInv'
<1> DEFINE m == made[t] + 1
<1>0. /\ ran \in [CallIds -> Nat] /\ made \in [Callers -> 0..MaxCalls]
      /\ pc \in [Callers -> {"idle", "wait", "recv"}]
      /\ req \in [Chans -> Seq(Requests)] /\ out \in [Chans -> Seq(Lines)]
  BY DEF TypeInv, TypeOK, Requests, Lines
<1>1. /\ pc[t] = "idle" /\ m \in 1..MaxCalls /\ m > made[t]
      /\ made' = [made EXCEPT ![t] = m] /\ made'[t] = m
      /\ UNCHANGED <<emu, ran>>
  <2>1. /\ pc[t] = "idle" /\ made[t] < MaxCalls
        /\ made' = [made EXCEPT ![t] = @ + 1] /\ UNCHANGED <<emu, ran>>
    BY DEF SendCopy, MayCall
  <2>2. MaxCalls \in Nat /\ made[t] \in 0..MaxCalls
    BY <1>0, BoundAssumption
  <2>3. m \in 1..MaxCalls /\ m > made[t]
    BY <2>1, <2>2
  <2> QED
    BY <1>0, <2>1, <2>3
<1>2. PICK c \in Commands :
         \/ /\ req' = IF emu = "down" THEN req
                      ELSE [req EXCEPT ![Console] = Append(@, <<<<t, m>>, c>>)]
            /\ pc' = [pc EXCEPT ![t] = "wait"]
            /\ UNCHANGED out
         \/ Finish(t, Empty) /\ UNCHANGED req
  BY <1>1 DEF SendCopy
<1>3. /\ req[t] = <<>> /\ out[t] = <<>>
      /\ ran[<<t, m>>] = 0 /\ <<t, m>> \notin IdsIn(req[Console])
  BY <1>1 DEF WireInv, OwnInv, CopiesInv, Queued
<1>4. /\ UNCHANGED out /\ \A s \in Callers : req'[s] = req[s]
      /\ \A s \in Callers : s # t => pc'[s] = pc[s] /\ made'[s] = made[s]
      /\ pc'[t] # "recv" /\ (emu = "down" => req' = req)
  <2>1. CASE Finish(t, Empty) /\ UNCHANGED req
    BY <1>0, <1>1, <1>3, <2>1, ChanFacts DEF Finish
  <2>2. CASE /\ req' = IF emu = "down" THEN req
                       ELSE [req EXCEPT ![Console] = Append(@, <<<<t, m>>, c>>)]
             /\ pc' = [pc EXCEPT ![t] = "wait"]
             /\ UNCHANGED out
    BY <1>0, <1>1, <2>2, ChanFacts
  <2> QED
    BY <1>2, <2>1, <2>2
<1>5. /\ Unique(req'[Console])
      /\ IdsIn(req'[Console]) = IdsIn(req[Console])
           \/ IdsIn(req'[Console]) = IdsIn(req[Console]) \cup {<<t, m>>}
  <2>1. req'[Console] = req[Console] \/ req'[Console] = Append(req[Console], <<<<t, m>>, c>>)
    BY <1>0, <1>2, ChanFacts
  <2>2. <<<<t, m>>, c>> \in Requests /\ <<<<t, m>>, c>>[1] = <<t, m>>
    BY <1>1, IdFacts DEF Requests
  <2>3. req[Console] \in Seq(Requests) /\ Unique(req[Console])
    BY <1>0, ChanFacts DEF WireInv
  <2> QED
    BY <1>3, <2>1, <2>2, <2>3, IdsAppended
<1>6. CopiesInv'
  <2> SUFFICES ASSUME NEW s \in Callers, NEW n \in 1..MaxCalls
               PROVE  /\ ran[<<s, n>>] + OneIf(Queued(s, n)') + OneIf(Pending(s, n)') <= 2
                      /\ n > made'[s] => ran[<<s, n>>] = 0 /\ ~Queued(s, n)'
    BY <1>1 DEF CopiesInv, OneIf
  <2>1. /\ ran[<<s, n>>] + OneIf(Queued(s, n)) + OneIf(Pending(s, n)) <= 2
        /\ n > made[s] => ran[<<s, n>>] = 0 /\ ~Queued(s, n)
    BY DEF WireInv, CopiesInv
  <2>2. ran[<<s, n>>] \in Nat /\ made[s] \in Nat
    BY <1>0, IdFacts
  <2>3. CASE s = t /\ n = m
    BY <1>1, <1>3, <2>3 DEF OneIf
  <2>4. CASE s = t /\ n # m
    <3>1. ~Pending(s, n)' /\ (Queued(s, n)' => Queued(s, n))
      BY <1>1, <1>5, <2>4 DEF Pending, Queued
    <3> QED
      BY <1>1, <2>1, <2>2, <2>4, <3>1 DEF OneIf
  <2>5. CASE s # t
    <3>1. (Pending(s, n)' <=> Pending(s, n)) /\ (Queued(s, n)' => Queued(s, n))
      BY <1>1, <1>4, <1>5, <2>5 DEF Pending, Queued
    <3> QED
      BY <1>4, <2>1, <2>2, <2>5, <3>1 DEF OneIf
  <2> QED
    BY <2>3, <2>4, <2>5
<1>7. OwnInv'
  <2> SUFFICES ASSUME NEW s \in Callers
               PROVE  /\ req'[s] # <<>> => /\ pc'[s] = "recv"
                                           /\ Len(req'[s]) = 1 /\ Head(req'[s])[1] = <<s, made'[s]>>
                                           /\ \A i \in DOMAIN out'[s] : out'[s][i] = Log
                      /\ \A i \in DOMAIN out'[s] :
                            out'[s][i] # Log => out'[s][i] = <<s, made'[s]>> /\ ran'[<<s, made'[s]>>] > 0
                      /\ pc'[s] # "recv" => out'[s] = <<>>
    BY DEF OwnInv
  <2>1. CASE s = t
    BY <1>3, <1>4, <2>1
  <2>2. CASE s # t
    BY <1>1, <1>4, <2>2 DEF WireInv, OwnInv
  <2> QED
    BY <2>1, <2>2
<1>8. DownInv'
  BY <1>1, <1>4 DEF WireInv, DownInv, NothingToRead
<1> QED
  BY <1>5, <1>6, <1>7, <1>8 DEF WireInv

\* The second copy: the one that was to follow is under way, or will never be sent.
LEMMA DialStep ==
  ASSUME TypeInv, WireInv, NEW t \in Callers, Dial(t)
  PROVE  WireInv'
<1>0. /\ ran \in [CallIds -> Nat] /\ pc \in [Callers -> {"idle", "wait", "recv"}]
      /\ req \in [Chans -> Seq(Requests)] /\ out \in [Chans -> Seq(Lines)]
  BY DEF TypeInv, TypeOK, Requests, Lines
<1> DEFINE q == <<<<<<t, made[t]>>, cmd[t]>>>>
<1>1. /\ pc[t] = "wait" /\ UNCHANGED <<emu, made, ran>>
      /\ req[t] = <<>> /\ out[t] = <<>>
  BY DEF Dial, WireInv, OwnInv
<1>2. /\ UNCHANGED out /\ \A s \in Chans : s # t => req'[s] = req[s]
      /\ \A s \in Callers : s # t => pc'[s] = pc[s]
      /\ \/ pc'[t] = "recv" /\ req'[t] = q /\ emu # "down"
         \/ pc'[t] = "idle" /\ req' = req
  <2>1. CASE Finish(t, Empty) /\ UNCHANGED req
    BY <1>0, <1>1, <2>1, ChanFacts DEF Finish
  <2>2. CASE /\ Accepting
             /\ pc' = [pc EXCEPT ![t] = "recv"]
             /\ req' = [req EXCEPT ![t] = q]
             /\ UNCHANGED out
    BY <1>0, <2>2, ChanFacts DEF Accepting
  <2> QED
    BY <2>1, <2>2 DEF Dial
<1>3. req'[Console] = req[Console]
  BY <1>2, ChanFacts
<1>4. CopiesInv'
  <2> SUFFICES ASSUME NEW s \in Callers, NEW n \in 1..MaxCalls
               PROVE  /\ ran[<<s, n>>] + OneIf(Queued(s, n)') + OneIf(Pending(s, n)') <= 2
                      /\ n > made[s] => ran[<<s, n>>] = 0 /\ ~Queued(s, n)'
    BY <1>1 DEF CopiesInv, OneIf
  <2>1. /\ ran[<<s, n>>] + OneIf(Queued(s, n)) + OneIf(Pending(s, n)) <= 2
        /\ n > made[s] => ran[<<s, n>>] = 0 /\ ~Queued(s, n)
    BY DEF WireInv, CopiesInv
  <2>2. ran[<<s, n>>] \in Nat
    BY <1>0, IdFacts
  <2>3. (Pending(s, n)' => Pending(s, n)) /\ (Queued(s, n)' <=> Queued(s, n))
    BY <1>1, <1>2, <1>3, ChanFacts DEF Pending, Queued
  <2> QED
    BY <2>1, <2>2, <2>3 DEF OneIf
<1>5. OwnInv'
  <2> SUFFICES ASSUME NEW s \in Callers
               PROVE  /\ req'[s] # <<>> => /\ pc'[s] = "recv"
                                           /\ Len(req'[s]) = 1 /\ Head(req'[s])[1] = <<s, made[s]>>
                                           /\ \A i \in DOMAIN out[s] : out[s][i] = Log
                      /\ \A i \in DOMAIN out[s] :
                            out[s][i] # Log => out[s][i] = <<s, made[s]>> /\ ran[<<s, made[s]>>] > 0
                      /\ pc'[s] # "recv" => out[s] = <<>>
    BY <1>1, <1>2 DEF OwnInv
  <2>1. CASE s = t
    <3>1. Len(q) = 1 /\ Head(q)[1] = <<t, made[t]>>
      OBVIOUS
    <3>2. \A i \in DOMAIN out[t] : FALSE
      BY <1>1
    <3> HIDE DEF q
    <3> QED
      BY <1>1, <1>2, <2>1, <3>1, <3>2
  <2>2. CASE s # t
    BY <1>2, <2>2, ChanFacts DEF WireInv, OwnInv
  <2> QED
    BY <2>1, <2>2
<1>6. DownInv'
  BY <1>1, <1>2 DEF WireInv, DownInv, NothingToRead
<1> QED
  BY <1>3, <1>4, <1>5, <1>6 DEF WireInv

\* Reading: an answer comes after the copy it answers has gone from the queue.
LEMMA ReadStep ==
  ASSUME TypeInv, WireInv, NEW t \in Callers, Read(t)
  PROVE  /\ WireInv'
         /\ \/ pc' = pc /\ ret' = ret
            \/ /\ pc' = [pc EXCEPT ![t] = "idle"]
               /\ \/ ret' = [ret EXCEPT ![t] = Empty]
                  \/ /\ ret' = [ret EXCEPT ![t] = <<t, made[t]>>]
                     /\ ran[<<t, made[t]>>] > 0
<1>0. /\ ran \in [CallIds -> Nat] /\ pc \in [Callers -> {"idle", "wait", "recv"}]
      /\ out \in [Chans -> Seq(Lines)]
  BY DEF TypeInv, TypeOK, Lines
<1>1. pc[t] = "recv" /\ UNCHANGED <<emu, made, req, ran>>
  BY DEF Read
<1>2. out[t] # <<>> =>
         /\ Len(out[t]) \in Nat \ {0} /\ DOMAIN out[t] = 1..Len(out[t]) /\ Head(out[t]) = out[t][1]
         /\ DOMAIN Tail(out[t]) = 1..(Len(out[t]) - 1)
         /\ \A i \in 1..(Len(out[t]) - 1) : Tail(out[t])[i] = out[t][i + 1]
  BY <1>0, ChanFacts, HeadTailProperties, LenProperties, EmptySeq
<1>2a. out[t] # <<>> =>
         /\ 1 \in DOMAIN out[t]
         /\ \A i \in DOMAIN Tail(out[t]) : i + 1 \in DOMAIN out[t] /\ Tail(out[t])[i] = out[t][i + 1]
  BY <1>2
<1>3. \A s \in Callers, n \in 1..MaxCalls : Queued(s, n)' = Queued(s, n)
  BY <1>1 DEF Queued
<1>4. ASSUME pc' = pc \/ (pc' = [pc EXCEPT ![t] = "idle"] /\ req[t] = <<>>) PROVE CopiesInv'
  <2> SUFFICES ASSUME NEW s \in Callers, NEW n \in 1..MaxCalls
               PROVE  /\ ran[<<s, n>>] + OneIf(Queued(s, n)') + OneIf(Pending(s, n)') <= 2
                      /\ n > made[s] => ran[<<s, n>>] = 0 /\ ~Queued(s, n)'
    BY <1>1 DEF CopiesInv, OneIf
  <2>1. /\ ran[<<s, n>>] + OneIf(Queued(s, n)) + OneIf(Pending(s, n)) <= 2
        /\ n > made[s] => ran[<<s, n>>] = 0 /\ ~Queued(s, n)
    BY DEF WireInv, CopiesInv
  <2>2. ran[<<s, n>>] \in Nat
    BY <1>0, IdFacts
  <2>3. Pending(s, n)' => Pending(s, n)
    BY <1>0, <1>1, <1>4 DEF Pending
  <2> QED
    BY <1>3, <2>1, <2>2, <2>3 DEF OneIf
<1>5. DownInv' /\ Unique(req'[Console])
  BY <1>1 DEF WireInv, DownInv, NothingToRead
<1>6. CASE out[t] # <<>> /\ Head(out[t]) = Log /\ Skip(t)
  <2>1. pc' = pc /\ ret' = ret /\ out' = [out EXCEPT ![t] = Tail(@)]
    BY <1>6 DEF Skip
  <2>2. \A s \in Callers : s # t => out'[s] = out[s]
    BY <1>0, <2>1, ChanFacts
  <2>3. out'[t] = Tail(out[t])
    BY <1>0, <2>1, ChanFacts
  <2>4. OwnInv'
    <3> SUFFICES ASSUME NEW s \in Callers
                 PROVE  /\ req[s] # <<>> => /\ pc[s] = "recv"
                                            /\ Len(req[s]) = 1 /\ Head(req[s])[1] = <<s, made[s]>>
                                            /\ \A i \in DOMAIN out'[s] : out'[s][i] = Log
                        /\ \A i \in DOMAIN out'[s] :
                              out'[s][i] # Log => out'[s][i] = <<s, made[s]>> /\ ran[<<s, made[s]>>] > 0
                        /\ pc[s] # "recv" => out'[s] = <<>>
      BY <1>1, <2>1 DEF OwnInv
    <3>1. CASE s = t
      BY <1>1, <1>2a, <1>6, <2>3, <3>1 DEF WireInv, OwnInv
    <3>2. CASE s # t
      BY <2>2, <3>2 DEF WireInv, OwnInv
    <3> QED
      BY <3>1, <3>2
  <2> QED
    BY <1>4, <1>5, <2>1, <2>4 DEF WireInv
<1>7. ASSUME NEW answer, Finish(t, answer), req[t] = <<>>
      PROVE  WireInv' /\ pc' = [pc EXCEPT ![t] = "idle"] /\ ret' = [ret EXCEPT ![t] = answer]
  <2>1. /\ pc' = [pc EXCEPT ![t] = "idle"] /\ ret' = [ret EXCEPT ![t] = answer]
        /\ out' = [out EXCEPT ![t] = <<>>]
    BY <1>7 DEF Finish
  <2>2. /\ \A s \in Callers : s # t => out'[s] = out[s] /\ pc'[s] = pc[s]
        /\ out'[t] = <<>> /\ pc'[t] = "idle" /\ \A i \in DOMAIN out'[t] : FALSE
    BY <1>0, <2>1, ChanFacts
  <2>3. OwnInv'
    <3> SUFFICES ASSUME NEW s \in Callers
                 PROVE  /\ req[s] # <<>> => /\ pc'[s] = "recv"
                                            /\ Len(req[s]) = 1 /\ Head(req[s])[1] = <<s, made[s]>>
                                            /\ \A i \in DOMAIN out'[s] : out'[s][i] = Log
                        /\ \A i \in DOMAIN out'[s] :
                              out'[s][i] # Log => out'[s][i] = <<s, made[s]>> /\ ran[<<s, made[s]>>] > 0
                        /\ pc'[s] # "recv" => out'[s] = <<>>
      BY <1>1 DEF OwnInv
    <3>1. CASE s = t
      BY <1>7, <2>2, <3>1
    <3>2. CASE s # t
      BY <2>2, <3>2 DEF WireInv, OwnInv
    <3> QED
      BY <3>1, <3>2
  <2> QED
    BY <1>4, <1>5, <1>7, <2>1, <2>3 DEF WireInv
<1>8. CASE out[t] # <<>> /\ Head(out[t]) # Log /\ Finish(t, Head(out[t]))
  <2>1. /\ Head(out[t]) = <<t, made[t]>> /\ ran[<<t, made[t]>>] > 0
        /\ req[t] = <<>>
    BY <1>2, <1>2a, <1>8 DEF WireInv, OwnInv
  <2> QED
    BY <1>7, <1>8, <2>1
<1>9. CASE emu = "down" /\ Finish(t, Empty)
  <2>1. req[t] = <<>>
    BY <1>9, ChanFacts DEF WireInv, DownInv, NothingToRead
  <2> QED
    BY <1>7, <1>9, <2>1
<1> QED
  BY <1>6, <1>8, <1>9 DEF Read

\* Serving: a copy under way becomes a call carried out once more.
LEMMA ServeStep ==
  ASSUME TypeInv, WireInv, NEW ch \in Chans, Serve(ch)
  PROVE  /\ WireInv'
         /\ \E id \in CallIds : /\ made[id[1]] >= id[2] /\ ran[id] < 2
                                 /\ ran' = [ran EXCEPT ![id] = @ + 1]
<1> DEFINE id == Head(req[ch])[1]
           t  == id[1]
           n  == id[2]
<1>0. /\ ran \in [CallIds -> Nat] /\ made \in [Callers -> 0..MaxCalls]
      /\ req \in [Chans -> Seq(Requests)] /\ out \in [Chans -> Seq(Lines)]
  BY DEF TypeInv, TypeOK, Requests, Lines
<1>1. /\ req[ch] # <<>> /\ req[ch] \in Seq(Requests) /\ id \in CallIds
      /\ t \in Callers /\ n \in 1..MaxCalls /\ id = <<t, n>>
  BY <1>0, HeadFacts, IdFacts DEF Serve
<1>2. /\ ran' = [ran EXCEPT ![id] = @ + 1] /\ UNCHANGED <<pc, made, ret>>
      /\ \/ req' = NothingToRead /\ UNCHANGED out
         \/ /\ req' = [req EXCEPT ![ch] = Tail(@)] /\ emu' = emu /\ emu = "up"
            /\ out' = IF Alive(ch) THEN [out EXCEPT ![ch] = Append(@, id)] ELSE out
  BY DEF Serve
<1>3. \A s \in Callers, k \in 1..MaxCalls :
         ran'[<<s, k>>] = IF <<s, k>> = id THEN ran[<<s, k>>] + 1 ELSE ran[<<s, k>>]
  BY <1>0, <1>1, <1>2, IdFacts
<1>4. \A s \in Callers, k \in 1..MaxCalls : ran[<<s, k>>] \in Nat /\ ran'[<<s, k>>] \in Nat
  <2> SUFFICES ASSUME NEW s \in Callers, NEW k \in 1..MaxCalls
               PROVE  ran[<<s, k>>] \in Nat /\ ran'[<<s, k>>] \in Nat
    OBVIOUS
  <2>1. ran[<<s, k>>] \in Nat
    BY <1>0, IdFacts
  <2>2. ran'[<<s, k>>] = ran[<<s, k>>] + 1 \/ ran'[<<s, k>>] = ran[<<s, k>>]
    BY <1>3
  <2> QED
    BY <2>1, <2>2
<1>5. \A s \in Callers : req[s] # <<>> => Len(req[s]) = 1 /\ Tail(req[s]) = <<>>
  <2> SUFFICES ASSUME NEW s \in Callers, req[s] # <<>>
               PROVE  Len(req[s]) = 1 /\ Tail(req[s]) = <<>>
    OBVIOUS
  <2>1. Len(req[s]) = 1 /\ req[s] \in Seq(Requests)
    BY <1>0, ChanFacts DEF WireInv, OwnInv
  <2>2. Tail(req[s]) \in Seq(Requests) /\ Len(Tail(req[s])) = 0
    BY <2>1, HeadTailProperties
  <2> QED
    BY <2>1, <2>2, EmptySeq
<1>6. /\ \A c \in Chans : c # ch => req'[c] = req[c] \/ req'[c] = <<>>
      /\ req'[ch] = Tail(req[ch]) \/ req'[ch] = <<>>
  BY <1>0, <1>2 DEF NothingToRead
\* The console queue loses the call if that is where it was served.
<1>7. /\ Unique(req'[Console])
      /\ IdsIn(req'[Console]) \subseteq IdsIn(req[Console])
      /\ ch = Console => id \in IdsIn(req[Console]) /\ id \notin IdsIn(req'[Console])
  <2>1. Unique(req[Console])
    BY DEF WireInv
  <2>2. Unique(<<>>) /\ IdsIn(<<>>) = {}
    BY DEF Unique, IdsIn
  <2>3. CASE ch # Console
    BY <1>6, <2>1, <2>2, <2>3, ChanFacts
  <2>4. CASE ch = Console
    BY <1>1, <1>6, <2>1, <2>2, <2>4, IdsTaken
  <2> QED
    BY <2>3, <2>4
\* A thread's own queue is empty when its copy has been served.
<1>8. /\ \A s \in Callers : s # ch => req'[s] = req[s] \/ req'[s] = <<>>
      /\ ch # Console => /\ ch \in Callers /\ req'[ch] = <<>>
                         /\ t = ch /\ n = made[ch] /\ pc[ch] = "recv"
  <2>1. ch # Console => ch \in Callers /\ req'[ch] = <<>>
    BY <1>1, <1>5, <1>6, ChanFacts
  <2>2. ch # Console => id = <<ch, made[ch]>> /\ pc[ch] = "recv"
    BY <1>1, <2>1 DEF WireInv, OwnInv
  <2>3. <<t, n>> = <<ch, made[ch]>> => t = ch /\ n = made[ch]
    OBVIOUS
  <2> QED
    BY <1>1, <1>6, <2>1, <2>2, <2>3, ChanFacts
<1>9. /\ ran[id] + OneIf(Queued(t, n)) + OneIf(Pending(t, n)) <= 2
      /\ n > made[t] => ran[id] = 0 /\ ~Queued(t, n)
  BY <1>1 DEF WireInv, CopiesInv
<1>10. Queued(t, n) \/ Pending(t, n)
  <2>1. CASE ch = Console
    BY <1>1, <1>7, <2>1 DEF Queued
  <2>2. CASE ch # Console
    BY <1>1, <1>8, <2>2 DEF Pending
  <2> QED
    BY <2>1, <2>2
<1>11. made[t] >= n /\ ran[id] < 2
  <2>1. ran[id] \in Nat /\ made[t] \in Nat /\ n \in Nat
    BY <1>0, <1>1
  <2>2. n <= made[t]
    BY <1>9, <1>10, <2>1 DEF Pending
  <2>3. OneIf(Queued(t, n)) + OneIf(Pending(t, n)) >= 1
    BY <1>10 DEF OneIf
  <2>4. OneIf(Queued(t, n)) \in Nat /\ OneIf(Pending(t, n)) \in Nat
    BY DEF OneIf
  <2> QED
    BY <1>9, <2>1, <2>2, <2>3, <2>4
<1>12. CopiesInv'
  <2> SUFFICES ASSUME NEW s \in Callers, NEW k \in 1..MaxCalls
               PROVE  /\ ran'[<<s, k>>] + OneIf(Queued(s, k)') + OneIf(Pending(s, k)') <= 2
                      /\ k > made[s] => ran'[<<s, k>>] = 0 /\ ~Queued(s, k)'
    BY <1>2 DEF CopiesInv, OneIf
  <2>1. /\ ran[<<s, k>>] + OneIf(Queued(s, k)) + OneIf(Pending(s, k)) <= 2
        /\ k > made[s] => ran[<<s, k>>] = 0 /\ ~Queued(s, k)
    BY DEF WireInv, CopiesInv
  <2>2. (Queued(s, k)' => Queued(s, k)) /\ (Pending(s, k)' => Pending(s, k))
    BY <1>1, <1>2, <1>7, <1>8 DEF Queued, Pending
  <2>3. CASE <<s, k>> # id
    BY <1>3, <1>4, <2>1, <2>2, <2>3 DEF OneIf
  <2>4. CASE <<s, k>> = id
    <3>0. s = t /\ k = n
      BY <1>1, <2>4
    <3>1. \/ Queued(s, k) /\ ~Queued(s, k)'
          \/ Pending(s, k) /\ ~Pending(s, k)'
      <4>1. CASE ch = Console
        BY <1>1, <1>7, <2>4, <4>1 DEF Queued
      <4>2. CASE ch # Console
        BY <1>1, <1>2, <1>8, <2>4, <3>0, <4>2 DEF Pending
      <4> QED
        BY <4>1, <4>2
    <3>2. ran'[<<s, k>>] = ran[<<s, k>>] + 1
      BY <1>3, <2>4
    <3>3. ~(k > made[s])
      BY <1>0, <1>1, <1>11, <3>0
    <3> QED
      BY <1>4, <2>1, <2>2, <3>1, <3>2, <3>3 DEF OneIf
  <2> QED
    BY <2>3, <2>4
<1>13. OwnInv'
  <2> SUFFICES ASSUME NEW s \in Callers
               PROVE  /\ req'[s] # <<>> => /\ pc[s] = "recv"
                                           /\ Len(req'[s]) = 1 /\ Head(req'[s])[1] = <<s, made[s]>>
                                           /\ \A i \in DOMAIN out'[s] : out'[s][i] = Log
                      /\ \A i \in DOMAIN out'[s] :
                            out'[s][i] # Log => out'[s][i] = <<s, made[s]>> /\ ran'[<<s, made[s]>>] > 0
                      /\ pc[s] # "recv" => out'[s] = <<>>
    BY <1>2 DEF OwnInv
  <2>1. \A i \in DOMAIN out[s] :
           out[s][i] # Log => out[s][i] = <<s, made[s]>> /\ ran'[<<s, made[s]>>] > 0
    <3> SUFFICES ASSUME NEW i \in DOMAIN out[s], out[s][i] # Log
                 PROVE  out[s][i] = <<s, made[s]>> /\ ran'[<<s, made[s]>>] > 0
      OBVIOUS
    <3>1. out[s][i] = <<s, made[s]>> /\ ran[<<s, made[s]>>] > 0
      BY DEF WireInv, OwnInv
    <3>2. out[s] \in Seq(Lines) /\ i \in 1..Len(out[s])
      BY <1>0, ChanFacts, LenProperties
    <3>3. <<s, made[s]>> \in CallIds
      BY <3>1, <3>2, ElementOfSeq DEF Lines
    <3>4. made[s] \in 1..MaxCalls
      BY <3>3 DEF CallIds
    <3> QED
      BY <1>3, <1>4, <3>1, <3>4
  <2>2. CASE s # ch
    <3>1. out'[s] = out[s]
      BY <1>0, <1>2, <2>2, ChanFacts
    <3> QED
      BY <1>8, <2>1, <2>2, <3>1 DEF WireInv, OwnInv
  <2>3. CASE s = ch
    <3>0. /\ req'[s] = <<>> /\ id = <<s, made[s]>> /\ pc[s] = "recv" /\ made[s] \in 1..MaxCalls
      BY <1>1, <1>8, <2>3, ChanFacts
    <3>1. ran'[<<s, made[s]>>] > 0
      BY <1>3, <1>4, <3>0
    <3>2. out'[s] = out[s] \/ out'[s] = Append(out[s], id)
      BY <1>0, <1>2, <2>3
    <3>3. out[s] \in Seq(Lines) /\ id \in Lines
      BY <1>0, <1>1, ChanFacts DEF Lines
    <3>4. /\ Len(out[s]) \in Nat /\ DOMAIN out[s] = 1..Len(out[s])
          /\ DOMAIN Append(out[s], id) = 1..(Len(out[s]) + 1)
          /\ \A i \in 1..Len(out[s]) : Append(out[s], id)[i] = out[s][i]
          /\ Append(out[s], id)[Len(out[s]) + 1] = id
      BY <3>3, AppendProperties, LenProperties
    <3>5. \A i \in 1..(Len(out[s]) + 1) : i \in 1..Len(out[s]) \/ i = Len(out[s]) + 1
      BY <3>4
    <3> HIDE DEF id
    <3> QED
      BY <2>1, <3>0, <3>1, <3>2, <3>4, <3>5
  <2> QED
    BY <2>2, <2>3
<1>14. DownInv'
  BY <1>2 DEF DownInv, NothingToRead
<1> QED
  BY <1>1, <1>2, <1>7, <1>11, <1>12, <1>13, <1>14 DEF WireInv
\* Every step keeps the copies in count.
LEMMA WireStep == TypeInv /\ WireInv /\ [Next]_vars => WireInv'
<1> SUFFICES ASSUME TypeInv, WireInv, [Next]_vars PROVE WireInv'
  OBVIOUS
<1>1. CASE \E t \in Callers : SendCopy(t) \/ Dial(t) \/ Read(t)
  BY <1>1, SendStep, DialStep, ReadStep
<1>2. CASE \E ch \in Chans : Serve(ch)
  BY <1>2, ServeStep
<1>3. CASE /\ UNCHANGED <<pc, made, ran, ret>>
           /\ \/ req' = req /\ (emu' = "down" => emu = "down")
              \/ req' = NothingToRead
           /\ \/ \A t \in Callers : out'[t] = out[t]
              \/ /\ req' = req
                 /\ \A t \in Callers : out'[t] = IF pc[t] = "recv" THEN Append(out[t], Log)
                                                                  ELSE out[t]
  BY <1>3, QuietStep
<1> QED
  BY <1>1, <1>2, <1>3, WireKinds

-----------------------------------------------------------------------------
(* The refinement of ConsoleCalls.                                         *)

Busy == {t \in Callers : pc[t] # "idle"}

\* Every step is one of ConsoleCalls, or changes nothing its callers see.
LEMMA CallsStep ==
  TypeInv /\ WireInv /\ [Next]_vars
    => [Abstract!Next]_<<made, {t \in Callers : pc[t] # "idle"}, ran, ret>>
<1> SUFFICES ASSUME TypeInv, WireInv, [Next]_vars
             PROVE  Abstract!Next \/ UNCHANGED <<made, Busy, ran, ret>>
  BY DEF Busy
<1>0. pc \in [Callers -> {"idle", "wait", "recv"}]
  BY DEF TypeInv, TypeOK
<1>1. ASSUME NEW t \in Callers, SendCopy(t) PROVE Abstract!Begin(t) \/ Abstract!Refuse(t)
  <2>1. /\ t \notin Busy /\ made[t] < MaxCalls /\ made' = [made EXCEPT ![t] = @ + 1]
        /\ ran' = ran
    BY <1>1 DEF SendCopy, MayCall, Busy
  <2>2. CASE pc' = [pc EXCEPT ![t] = "wait"] /\ ret' = ret
    <3>1. Busy' = Busy \cup {t}
      BY <1>0, <2>2 DEF Busy
    <3> QED
      BY <2>1, <2>2, <3>1 DEF Busy, Abstract!Begin
  <2>3. CASE Finish(t, Empty)
    <3>1. Busy' = Busy
      BY <1>0, <2>1, <2>3 DEF Finish, Busy
    <3>2. ret' = [ret EXCEPT ![t] = Empty] /\ Empty = Abstract!Empty
      BY <2>3 DEF Finish, Empty, Abstract!Empty
    <3> QED
      BY <2>1, <3>1, <3>2 DEF Busy, Abstract!Refuse
  <2> QED
    BY <1>1, <2>2, <2>3 DEF SendCopy
<1>2. ASSUME NEW t \in Callers, pc[t] # "idle", pc' = [pc EXCEPT ![t] = "idle"],
             UNCHANGED <<made, ran>>,
             \/ ret' = [ret EXCEPT ![t] = Empty]
             \/ ret' = [ret EXCEPT ![t] = <<t, made[t]>>] /\ ran[<<t, made[t]>>] > 0
      PROVE  Abstract!Return(t)
  <2>1. t \in Busy /\ Busy' = Busy \ {t}
    BY <1>0, <1>2 DEF Busy
  <2>2. Empty = Abstract!Empty
    BY DEF Empty, Abstract!Empty
  <2> QED
    BY <1>2, <2>1, <2>2 DEF Busy, Abstract!Return
<1>3. ASSUME NEW t \in Callers, Dial(t)
      PROVE  Abstract!Return(t) \/ UNCHANGED <<made, Busy, ran, ret>>
  <2>1. pc[t] = "wait" /\ UNCHANGED <<made, ran>>
    BY <1>3 DEF Dial
  <2>2. CASE pc' = [pc EXCEPT ![t] = "recv"] /\ ret' = ret
    BY <1>0, <2>1, <2>2 DEF Busy
  <2>3. CASE Finish(t, Empty)
    BY <1>2, <2>1, <2>3 DEF Finish
  <2> QED
    BY <1>3, <2>2, <2>3 DEF Dial
<1>4. ASSUME NEW t \in Callers, Read(t)
      PROVE  Abstract!Return(t) \/ UNCHANGED <<made, Busy, ran, ret>>
  <2>1. pc[t] = "recv" /\ UNCHANGED <<made, ran>>
    BY <1>4 DEF Read
  <2>2. CASE pc' = pc /\ ret' = ret
    BY <2>1, <2>2 DEF Busy
  <2> QED
    BY <1>2, <1>4, <2>1, <2>2, ReadStep
<1>5. ASSUME NEW ch \in Chans, Serve(ch) PROVE \E id \in CallIds : Abstract!CarryOut(id)
  <2>1. PICK id \in CallIds : /\ made[id[1]] >= id[2] /\ ran[id] < 2
                              /\ ran' = [ran EXCEPT ![id] = @ + 1]
    BY <1>5, ServeStep
  <2>2. UNCHANGED <<made, Busy, ret>>
    BY <1>5 DEF Serve, Busy
  <2> QED
    BY <2>1, <2>2 DEF Busy, Abstract!CarryOut
<1>6. CallIds = Abstract!CallIds
  BY DEF CallIds, Abstract!CallIds
<1>7. UNCHANGED <<pc, made, ran, ret>> => UNCHANGED <<made, Busy, ran, ret>>
  BY DEF Busy
<1> QED
  BY <1>1, <1>3, <1>4, <1>5, <1>6, <1>7, WireKinds DEF Abstract!Next

\* Every behaviour is one of ConsoleCalls: a call returns its own answer, after it was
\* carried out, and is carried out twice at most, in whatever order copies, log lines
\* and other threads' calls come.
THEOREM CallsImplemented == Spec => ImplementsConsoleCalls
<1>1. Init => Abstract!Init
  <2> SUFFICES ASSUME Init PROVE Abstract!Init
    OBVIOUS
  <2>1. {t \in Callers : pc[t] # "idle"} = {}
    BY DEF Init
  <2> QED
    BY <2>1 DEF Init, Abstract!Init, CallIds, Abstract!CallIds, Empty, Abstract!Empty
<1>2. Spec => [](TypeInv /\ WireInv)
  BY TypeInit, TypeStep, WireInit, WireStep, PTL DEF Spec
<1> QED
  BY <1>1, <1>2, CallsStep, PTL DEF Spec, ImplementsConsoleCalls, Abstract!Spec

-----------------------------------------------------------------------------
(* What a caller may conclude, from ConsoleCalls alone.                    *)

\* Only calls that were made are carried out, twice at most; an answer is to a call of
\* the same thread that was carried out.
Conclusions ==
  /\ made \in [Callers -> 0..MaxCalls] /\ ran \in [CallIds -> 0..2]
  /\ \A id \in CallIds : ran[id] > 0 => id[2] <= made[id[1]]
  /\ \A t \in Callers :
       ret[t] = Empty \/ \E n \in 1..made[t] : ret[t] = <<t, n>> /\ ran[<<t, n>>] > 0

\* Every step that ConsoleCalls allows keeps them.
LEMMA ConclusionsStep ==
  ASSUME TypeInv, Conclusions,
         [Abstract!Next]_<<made, {t \in Callers : pc[t] # "idle"}, ran, ret>>
  PROVE  Conclusions'
<1>1. /\ made \in [Callers -> 0..MaxCalls] /\ ran \in [CallIds -> 0..2] /\ MaxCalls \in Nat
      /\ CallIds = Callers \X (1..MaxCalls)
  BY BoundAssumption DEF Conclusions, CallIds
<1>0. ret \in [Callers -> CallIds \cup {Empty}]
  BY DEF TypeInv, TypeOK
<1>2. /\ \A id \in CallIds : ran[id] > 0 => id[2] <= made[id[1]]
      /\ \A t \in Callers :
           ret[t] = Empty \/ \E n \in 1..made[t] : ret[t] = <<t, n>> /\ ran[<<t, n>>] > 0
  BY DEF Conclusions
<1>3. Empty = Abstract!Empty
  BY DEF Empty, Abstract!Empty
<1>4. ASSUME NEW c \in Callers, made' = [made EXCEPT ![c] = @ + 1], made[c] < MaxCalls,
             ran' = ran, ret' = ret \/ ret' = [ret EXCEPT ![c] = Empty]
      PROVE  Conclusions'
  <2>1. made' \in [Callers -> 0..MaxCalls] /\ \A t \in Callers : made[t] <= made'[t]
    BY <1>1, <1>4
  <2>2. \A id \in CallIds : ran'[id] > 0 => id[2] <= made'[id[1]]
    <3>1. \A id \in CallIds : id[1] \in Callers /\ id[2] \in Int
      BY <1>1
    <3> QED
      BY <1>1, <1>2, <1>4, <2>1, <3>1
  <2>3. ASSUME NEW t \in Callers
        PROVE  ret'[t] = Empty \/ \E n \in 1..made'[t] : ret'[t] = <<t, n>> /\ ran'[<<t, n>>] > 0
    <3>1. ret'[t] = Empty \/ ret'[t] = ret[t]
      BY <1>0, <1>4
    <3>2. ret[t] = Empty \/ \E n \in 1..made'[t] : ret[t] = <<t, n>> /\ ran'[<<t, n>>] > 0
      BY <1>1, <1>2, <1>4, <2>1
    <3> QED
      BY <3>1, <3>2
  <2> QED
    BY <1>1, <1>4, <2>1, <2>2, <2>3 DEF Conclusions
<1>5. ASSUME NEW c \in Callers, made' = made, ran' = ran,
             \/ ret' = [ret EXCEPT ![c] = Empty]
             \/ ran[<<c, made[c]>>] > 0 /\ ret' = [ret EXCEPT ![c] = <<c, made[c]>>],
             made[c] \in 1..MaxCalls \/ ret' = [ret EXCEPT ![c] = Empty]
      PROVE  Conclusions'
  <2>1. ASSUME NEW t \in Callers
        PROVE  ret'[t] = Empty \/ \E n \in 1..made'[t] : ret'[t] = <<t, n>> /\ ran'[<<t, n>>] > 0
    <3>1. CASE ret'[t] = ret[t]
      BY <1>2, <1>5, <3>1
    <3>2. CASE ret'[t] = Empty
      BY <3>2
    <3>3. CASE t = c /\ ret'[t] = <<c, made[c]>> /\ ran[<<c, made[c]>>] > 0 /\ made[c] \in 1..MaxCalls
      <4>1. made[c] \in 1..made'[t]
        BY <1>5, <3>3
      <4> QED
        BY <1>5, <3>3, <4>1
    <3> QED
      BY <1>0, <1>5, <3>1, <3>2, <3>3
  <2> QED
    BY <1>1, <1>2, <1>5, <2>1 DEF Conclusions
<1>6. ASSUME NEW id \in CallIds, made[id[1]] >= id[2], ran[id] < 2,
             ran' = [ran EXCEPT ![id] = @ + 1], made' = made, ret' = ret
      PROVE  Conclusions'
  <2>1. ran' \in [CallIds -> 0..2] /\ \A i \in CallIds : ran[i] > 0 => ran'[i] > 0
    BY <1>1, <1>6
  <2>2. \A i \in CallIds : ran'[i] > 0 => i[2] <= made'[i[1]]
    <3>1. made[id[1]] \in Int /\ id[2] \in Int
      BY <1>1
    <3> QED
      BY <1>1, <1>2, <1>6, <3>1
  <2>3. \A t \in Callers : \A n \in 1..made[t] : <<t, n>> \in CallIds
    BY <1>1
  <2> QED
    BY <1>1, <1>2, <1>6, <2>1, <2>2, <2>3 DEF Conclusions
<1>7. CASE UNCHANGED <<made, {t \in Callers : pc[t] # "idle"}, ran, ret>>
  BY <1>7 DEF Conclusions
<1>8. CASE \E t \in Callers : Abstract!Begin(t) \/ Abstract!Refuse(t)
  BY <1>3, <1>4, <1>8 DEF Abstract!Begin, Abstract!Refuse
<1>9. ASSUME NEW t \in Callers, Abstract!Return(t) PROVE Conclusions'
  <2>1. made' = made /\ ran' = ran
    BY <1>9 DEF Abstract!Return
  <2>2. \/ ret' = [ret EXCEPT ![t] = Empty]
        \/ ran[<<t, made[t]>>] > 0 /\ ret' = [ret EXCEPT ![t] = <<t, made[t]>>]
    BY <1>3, <1>9 DEF Abstract!Return
  <2>3. made[t] \in 1..MaxCalls
    BY <1>9 DEF Abstract!Return, TypeInv, Calling
  <2> QED
    BY <1>5, <2>1, <2>2, <2>3
<1>10. CASE \E id \in CallIds : Abstract!CarryOut(id)
  BY <1>6, <1>10 DEF Abstract!CarryOut
<1>11. CallIds = Abstract!CallIds
  BY DEF CallIds, Abstract!CallIds
<1> QED
  BY <1>7, <1>8, <1>9, <1>10, <1>11 DEF Abstract!Next

\* A caller that gets an answer knows that its call was carried out, once or twice, and
\* no call is carried out that was not made (send_command).
THEOREM CallersMayConclude == Spec => []Conclusions
<1>1. Init => Conclusions
  BY BoundAssumption DEF Init, Conclusions
<1>2. Spec => [](TypeInv /\ WireInv)
  BY TypeInit, TypeStep, WireInit, WireStep, PTL DEF Spec
<1>3. TypeInv /\ WireInv /\ Conclusions /\ [Next]_vars => Conclusions'
  BY CallsStep, ConclusionsStep
<1> QED
  BY <1>1, <1>2, <1>3, PTL DEF Spec
=============================================================================
