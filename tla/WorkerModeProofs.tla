--------------------------- MODULE WorkerModeProofs ---------------------------
(***************************************************************************)
(* Safety of the worker mode, for any number of connections, descriptors,  *)
(* workers and requests.                                                   *)
(***************************************************************************)
EXTENDS WorkerMode, FiniteSetTheorems, FunctionTheorems, TLAPS

(* What is referred to lives: entries of the two tables, at their own      *)
(* descriptor, newConnection's local, and the tasks of the pool.           *)
OwnInv ==
  /\ \A c \in Conns : phase[c] # "unborn" => fdOf[c] \in Fds
  /\ \A c, d \in Conns : Alive(c) /\ Alive(d) /\ fdOf[c] = fdOf[d] => c = d
  /\ \A f \in Fds, c \in Conns :
       m_ConnectionMap[f] = c \/ m_elConnectionMap[f] = c => Alive(c) /\ fdOf[c] = f
  /\ \A c \in Conns : mconn = c => Alive(c)
  /\ lpc = "read" => raw \in Conns
  /\ \A r \in ToSet(works) : Alive(received[r])
  /\ \A w \in Workers : wtask[w] # NoTask => Alive(received[wtask[w]])

(* Until the idle timer takes it out, the loop's table holds a Connection, *)
(* and a DeviceInfo is where its Connection's descriptor says.             *)
DeviceInv ==
  /\ \A c \in Conns :
       phase[c] # "unborn" /\ c \notin expired => m_elConnectionMap[fdOf[c]] = c
  /\ \A f \in Fds, c \in Conns :
       m_deviceInfoMap[f] = c => phase[c] # "unborn" /\ fdOf[c] = f
  /\ \A w \in Workers : wpc[w] \in {"take", "lookup"} => dev[w] = NoConn
  /\ \A w \in Workers : wtask[w] = NoTask <=> wpc[w] = "take"
  /\ OwnDevice

(* What the idle timer has yet to erase is still in the loop's table.      *)
TimerInv ==
  \A f \in m_timeoutFdQueue :
    lpc = "expire" \/ (lpc = "forget" /\ ~Lowest(f, m_timeoutFdQueue))
      => m_elConnectionMap[f] \in Conns

IInv == TypeOK /\ OwnInv /\ DeviceInv /\ TimerInv

-----------------------------------------------------------------------------
(* Elements and heads of the two queues. *)
LEMMA InSeq ==
  ASSUME NEW S, NEW q \in Seq(S)
  PROVE  /\ \A x : x \in ToSet(q) <=> \E i \in 1 .. Len(q) : x = q[i]
         /\ DOMAIN q = 1 .. Len(q)
         /\ Len(q) \in Nat
         /\ ToSet(q) \subseteq S
<1>1. DOMAIN q = 1 .. Len(q) /\ Len(q) \in Nat /\ \A i \in 1 .. Len(q) : q[i] \in S
  OBVIOUS
<1>2. ToSet(q) = {q[i] : i \in 1 .. Len(q)}
  BY <1>1 DEF ToSet
<1>3. QED BY <1>1, <1>2

(* An appended element is the only new one, and stands last. *)
LEMMA Appended ==
  ASSUME NEW S, NEW q \in Seq(S), NEW x \in S
  PROVE  /\ Append(q, x) \in Seq(S)
         /\ ToSet(Append(q, x)) = ToSet(q) \union {x}
         /\ Len(Append(q, x)) = Len(q) + 1
         /\ \A i \in 1 .. Len(q) : Append(q, x)[i] = q[i]
         /\ Append(q, x)[Len(q) + 1] = x
<1> DEFINE r == Append(q, x)
<1>1. /\ r \in Seq(S)
      /\ Len(r) = Len(q) + 1 /\ Len(q) \in Nat
      /\ \A i \in 1 .. Len(q) : r[i] = q[i]
      /\ r[Len(q) + 1] = x
  OBVIOUS
<1>2. /\ \A y : y \in ToSet(r) <=> \E i \in 1 .. Len(r) : y = r[i]
      /\ \A y : y \in ToSet(q) <=> \E i \in 1 .. Len(q) : y = q[i]
  BY <1>1, InSeq
<1> HIDE DEF r
<1>3. ASSUME NEW y \in ToSet(r) PROVE y \in ToSet(q) \union {x}
  BY <1>1, <1>2
<1>4. ASSUME NEW y \in ToSet(q) \union {x} PROVE y \in ToSet(r)
  <2>1. CASE y = x
    BY <1>1, <1>2, <2>1
  <2>2. CASE y # x
    BY <1>1, <1>2, <1>4, <2>2
  <2>3. QED BY <2>1, <2>2
<1>5. QED BY <1>1, <1>3, <1>4 DEF r

(* The front element is one of the queue, and so are those behind it. *)
LEMMA HeadTail ==
  ASSUME NEW S, NEW q \in Seq(S), q # <<>>
  PROVE  /\ Head(q) = q[1] /\ Head(q) \in S /\ Head(q) \in ToSet(q)
         /\ Tail(q) \in Seq(S)
         /\ Len(Tail(q)) = Len(q) - 1
         /\ \A i \in 1 .. Len(Tail(q)) : Tail(q)[i] = q[i + 1]
         /\ ToSet(q) = ToSet(Tail(q)) \union {Head(q)}
<1> DEFINE r == Tail(q)
<1>1. /\ Head(q) = q[1] /\ Head(q) \in S
      /\ r \in Seq(S)
      /\ Len(r) = Len(q) - 1 /\ Len(q) >= 1
      /\ \A i \in 1 .. Len(r) : r[i] = q[i + 1]
      /\ Len(q) \in Nat /\ Len(r) \in Nat
  OBVIOUS
<1>2. /\ \A x : x \in ToSet(q) <=> \E i \in 1 .. Len(q) : x = q[i]
      /\ \A x : x \in ToSet(r) <=> \E i \in 1 .. Len(r) : x = r[i]
  BY <1>1, InSeq
<1> HIDE DEF r
<1>3. ASSUME NEW x \in ToSet(q) PROVE x \in ToSet(r) \union {q[1]}
  <2>1. PICK i \in 1 .. Len(q) : x = q[i]
    BY <1>2
  <2>2. CASE i = 1
    BY <2>1, <2>2
  <2>3. CASE i # 1
    <3>1. i - 1 \in 1 .. Len(r) /\ (i - 1) + 1 = i
      BY <1>1, <2>3
    <3>2. QED BY <1>1, <1>2, <2>1, <3>1
  <2>4. QED BY <2>2, <2>3
<1>4. ASSUME NEW x \in ToSet(r) \union {q[1]} PROVE x \in ToSet(q)
  <2>1. CASE x = q[1]
    BY <1>1, <1>2, <2>1
  <2>2. CASE x # q[1]
    <3>1. PICK i \in 1 .. Len(r) : x = r[i]
      BY <1>2, <1>4, <2>2
    <3>2. i + 1 \in 1 .. Len(q) /\ x = q[i + 1]
      BY <1>1, <3>1
    <3>3. QED BY <1>2, <3>2
  <2>3. QED BY <2>1, <2>2
<1>5. QED BY <1>1, <1>2, <1>3, <1>4 DEF r

(* A queue of requests is still one when there are more of them. *)
LEMMA SeqGrows ==
  ASSUME NEW S, NEW T, S \subseteq T, NEW q \in Seq(S)
  PROVE  q \in Seq(T)
OBVIOUS

(* A step that drops references ends the connections nothing refers to any *)
(* more, and no others.                                                    *)
LEMMA Destroying ==
  ASSUME TypeOK, NEW closing \in SUBSET Conns, DestroyUnheld(closing)
  PROVE  /\ phase' \in [Conns -> {"unborn", "alive", "destroyed"}]
         /\ tree' \in [Conns -> {"none", "read", "bare"}]
         /\ out' \in [Conns -> BOOLEAN]
         /\ sock' \in [Conns -> {"quiet", "data", "fin", "reset"}]
         /\ \A c \in Conns :
              /\ phase'[c] = "unborn" <=> phase[c] = "unborn"
              /\ Alive(c)' => Alive(c)
              /\ Alive(c) /\ Held(c)' => Alive(c)'
BY DEF TypeOK, DestroyUnheld, Alive

-----------------------------------------------------------------------------
(* A step of the main thread keeps the types. *)
LEMMA MainTypeOK ==
  ASSUME TypeOK, NEW c \in Conns, Accept(c) \/ InsertDevice
  PROVE  TypeOK'
<1> USE DEF TypeOK, Requests
<1>1. CASE Accept(c)
  <2>1. PICK f \in FreeFds :
          /\ fdOf' = [fdOf EXCEPT ![c] = f]
          /\ m_ConnectionMap' = [m_ConnectionMap EXCEPT ![f] = c]
          /\ m_elConnectionMap' = [m_elConnectionMap EXCEPT ![f] = c]
    BY <1>1 DEF Accept
  <2>2. f \in Fds
    BY DEF FreeFds
  <2>3. /\ fdOf' \in [Conns -> Fds \union {NoConn}]
        /\ m_ConnectionMap' \in [Fds -> Conns \union {NoConn}]
        /\ m_elConnectionMap' \in [Fds -> Conns \union {NoConn}]
    BY <2>1, <2>2
  <2>4. QED BY <1>1, <2>3 DEF Accept, loopVars, workVars, histVars, Requests
<1>2. CASE InsertDevice
  <2>1. mconn \in Conns
    BY <1>2 DEF InsertDevice
  <2>2. DestroyUnheld({})
    BY <1>2 DEF InsertDevice
  <2>3. QED BY <1>2, <2>1, <2>2, Destroying DEF InsertDevice, loopVars, workVars, histVars
<1>3. QED BY <1>1, <1>2

(* Closing a connection keeps the types. *)
LEMMA CloseTypeOK ==
  ASSUME TypeOK, NEW c \in Conns, NEW event \in Events, Take(event), Close(c)
  PROVE  TypeOK'
<1>1. DestroyUnheld({c})
  BY DEF Close
<1>2. QED BY <1>1, Destroying DEF TypeOK, Take, Close, workVars, histVars, Requests

(* A step of the loop keeps the types. *)
LEMMA LoopTypeOK ==
  ASSUME TypeOK, OwnInv, TimerInv, Loop
  PROVE  TypeOK'
<1> USE DEF TypeOK, Requests
<1>1. CASE EpollWait
  <2>1. Ready \union {<<"timer">>} \subseteq Events
    BY DEF Ready, Events
  <2>2. batch' \subseteq Events
    BY <1>1, <2>1 DEF EpollWait
  <2>3. QED BY <1>1, <2>2 DEF EpollWait, connVars, netVars, mapVars, workVars, histVars
<1>2. ASSUME NEW c \in Conns, HandleDangling(c) PROVE TypeOK'
  BY <1>2 DEF HandleDangling, Die, connVars, netVars, mapVars, loopVars, workVars, histVars
<1>3. ASSUME NEW c \in Conns, HandleRead(c) PROVE TypeOK'
  BY <1>3 DEF HandleRead, Take, connVars, mapVars, workVars, histVars
<1>4. ASSUME NEW c \in Conns, HandleHangup(c) \/ HandleError(c) PROVE TypeOK'
  <2>1. <<c, "in">> \in Events /\ <<c, "err">> \in Events
    BY DEF Events
  <2>2. QED BY <1>4, <2>1, CloseTypeOK DEF HandleHangup, HandleError
<1>5. ASSUME NEW c \in Conns, HandleWrite(c) PROVE TypeOK'
  BY <1>5 DEF HandleWrite, Take, Die, connVars, netVars, mapVars, loopVars, workVars, histVars
<1>6. CASE HandOver
  <2>1. raw \in Conns /\ Len(received) < MaxRequests
    BY <1>6 DEF HandOver, MoreRequests, OwnInv
  <2>2. /\ received' = Append(received, raw)
        /\ works' = Append(works, Len(received) + 1)
    BY <1>6 DEF HandOver
  <2>3. /\ received' \in Seq(Conns) /\ Len(received') = Len(received) + 1
        /\ Len(received) \in Nat
    BY <2>1, <2>2, Appended
  <2>4. Requests \subseteq Requests' /\ Len(received) + 1 \in Requests'
    BY <2>3 DEF Requests
  <2>5. works' \in Seq(Requests')
    BY <2>2, <2>4, SeqGrows, Appended
  <2>6. posted' \in Seq(Requests')
    BY <1>6, <2>4, SeqGrows DEF HandOver
  <2>7. /\ wtask' \in [Workers -> Requests' \union {NoTask}]
        /\ finished' \subseteq Requests'
    BY <1>6, <2>4 DEF HandOver
  <2>8. Len(received') <= MaxRequests
    BY <2>1, <2>3, WorkerAssumption
  <2>9. QED BY <1>6, <2>3, <2>5, <2>6, <2>7, <2>8 DEF HandOver, netVars, mapVars, loopVars
<1>7. CASE FinishRead
  BY <1>7 DEF FinishRead, connVars, netVars, mapVars, workVars, histVars
<1>8. CASE LoseConnection
  BY <1>8 DEF LoseConnection, Die, connVars, netVars, mapVars, loopVars, workVars, histVars
<1>9. CASE HandleTimer
  <2>1. m_timeoutFdQueue' \subseteq Fds
    BY <1>9 DEF HandleTimer, InLoopTable
  <2>2. QED BY <1>9, <2>1 DEF HandleTimer, Take, connVars, netVars, mapVars, workVars, histVars
<1>10. CASE ExpireFromLoop
  <2>1. PICK f \in m_timeoutFdQueue :
          /\ m_elConnectionMap' = [m_elConnectionMap EXCEPT ![f] = NoConn]
          /\ expired' = expired \union {m_elConnectionMap[f]}
    BY <1>10 DEF ExpireFromLoop
  <2>2. DestroyUnheld({})
    BY <1>10 DEF ExpireFromLoop
  <2>3. m_elConnectionMap[f] \in Conns
    BY <1>10 DEF ExpireFromLoop, TimerInv
  <2>4. expired' \subseteq Conns /\ m_elConnectionMap' \in [Fds -> Conns \union {NoConn}]
    BY <2>1, <2>3
  <2>5. QED BY <1>10, <2>2, <2>4, Destroying DEF ExpireFromLoop, workVars
<1>11. CASE ForgetInServer
  <2>1. DestroyUnheld({})
    BY <1>11 DEF ForgetInServer
  <2>2. /\ m_ConnectionMap' \in [Fds -> Conns \union {NoConn}]
        /\ m_timeoutFdQueue' \subseteq Fds
    BY <1>11 DEF ForgetInServer
  <2>3. QED BY <1>11, <2>1, <2>2, Destroying DEF ForgetInServer, workVars, histVars
<1>12. CASE HandleWakeup
  BY <1>12 DEF HandleWakeup, Take, connVars, netVars, mapVars, workVars, histVars
<1>13. CASE SendInLoop
  <2>1. posted # <<>> /\ Tail(posted) \in Seq(Requests)
    BY <1>13, HeadTail DEF SendInLoop
  <2>2. QED BY <1>13, <2>1, ZenonT(60)
            DEF SendInLoop, Die, connVars, netVars, mapVars, loopVars, workVars, histVars
<1>14. CASE EndWakeup
  BY <1>14 DEF EndWakeup, connVars, netVars, mapVars, workVars, histVars
<1>15. QED
  BY <1>1, <1>2, <1>3, <1>4, <1>5, <1>6, <1>7, <1>8, <1>9, <1>10, <1>11, <1>12, <1>13, <1>14
     DEF Loop

(* A worker with a task holds a request, on a connection that lives. *)
LEMMA HandOnTask ==
  ASSUME IInv, NEW w \in Workers, wpc[w] # "take"
  PROVE  /\ wtask[w] \in Requests
         /\ received[wtask[w]] \in Conns
         /\ Alive(received[wtask[w]])
         /\ fdOf[received[wtask[w]]] \in Fds
<1>1. wtask[w] \in Requests
  BY DEF IInv, TypeOK, DeviceInv
<1>2. wtask[w] # NoTask
  BY DEF IInv, DeviceInv
<1>3. received[wtask[w]] \in Conns
  BY <1>1 DEF IInv, TypeOK, Requests
<1>4. Alive(received[wtask[w]])
  BY <1>2 DEF IInv, OwnInv
<1>5. QED BY <1>1, <1>3, <1>4 DEF IInv, OwnInv, Alive

(* A step of a worker keeps the types. *)
LEMMA WorkerTypeOK ==
  ASSUME IInv, NEW w \in Workers, Worker(w)
  PROVE  TypeOK'
<1> USE DEF TypeOK, WorkerStep, Requests
<1>0. TypeOK
  BY DEF IInv
<1>1. CASE TakeTask(w)
  <2>1. Head(works) \in Requests /\ Tail(works) \in Seq(Requests)
    BY <1>0, <1>1, HeadTail DEF TakeTask
  <2>2. QED BY <1>0, <1>1, <2>1 DEF TakeTask, connVars, netVars, mapVars, loopVars, histVars
<1>2. CASE Lookup(w)
  <2> DEFINE f == fdOf[received[wtask[w]]]
             found == IF m_deviceInfoMap[f] = NoConn THEN NullDevice ELSE m_deviceInfoMap[f]
  <2>1. f \in Fds
    BY <1>2, HandOnTask DEF Lookup
  <2>2. found \in Conns \union {NoConn, NullDevice}
    BY <1>0, <2>1
  <2>3. /\ m_deviceInfoMap' = [m_deviceInfoMap EXCEPT ![f] = found]
        /\ dev' = [dev EXCEPT ![w] = found]
    BY <1>2 DEF Lookup
  <2> HIDE DEF found, f
  <2>4. m_deviceInfoMap' \in [Fds -> Conns \union {NoConn, NullDevice}]
    BY <1>0, <2>2, <2>3
  <2>5. dev' \in [Workers -> Conns \union {NoConn, NullDevice}]
    BY <1>0, <2>2, <2>3
  <2>6. QED BY <1>0, <1>2, <2>4, <2>5 DEF Lookup, connVars, netVars, loopVars, histVars
<1>3. CASE TornLookup(w) \/ ProcessNull(w) \/ ProcessTogether(w)
  BY <1>0, <1>3 DEF TornLookup, ProcessNull, ProcessTogether, Die,
     connVars, netVars, mapVars, loopVars, workVars, histVars
<1>4. CASE Process(w) \/ SendTest(w)
  BY <1>0, <1>4 DEF Process, SendTest, connVars, netVars, mapVars, loopVars, histVars
<1>5. CASE Post(w)
  <2>1. wtask[w] \in Requests
    BY <1>5, HandOnTask DEF Post
  <2>2. posted' \in Seq(Requests)
    BY <1>0, <1>5, <2>1, Appended DEF Post
  <2>3. QED BY <1>0, <1>5, <2>2 DEF Post, connVars, netVars, mapVars, loopVars, histVars
<1>6. CASE Return(w)
  <2>1. DestroyUnheld({})
    BY <1>6 DEF Return
  <2>2. wtask[w] \in Requests
    BY <1>6, HandOnTask DEF Return
  <2>3. QED BY <1>0, <1>6, <2>1, <2>2, Destroying DEF Return, mapVars, loopVars
<1>7. QED BY <1>1, <1>2, <1>3, <1>4, <1>5, <1>6 DEF Worker

(* Every step keeps the types. *)
LEMMA NextTypeOK ==
  ASSUME IInv, [Next]_vars
  PROVE  TypeOK'
<1>0. TypeOK
  BY DEF IInv
<1>1. CASE UNCHANGED vars
  BY <1>0, <1>1 DEF TypeOK, vars, connVars, netVars, mapVars, loopVars, workVars, histVars,
     Requests
<1>2. CASE Environment
  BY <1>0, <1>2, ZenonT(60) DEF Environment, ClientSends, ClientCloses, PeerResets, Arrive, TypeOK,
     connVars, mapVars, loopVars, workVars, histVars, Requests
<1>3. CASE InsertDevice
  <2>1. mconn \in Conns
    BY <1>0, <1>3 DEF TypeOK, InsertDevice
  <2>2. QED BY <1>0, <1>3, <2>1, MainTypeOK
<1>4. QED
  BY <1>0, <1>1, <1>2, <1>3, MainTypeOK, LoopTypeOK, WorkerTypeOK DEF Next, IInv

-----------------------------------------------------------------------------
(* What lives and who refers to it. *)
ownVars == <<phase, fdOf, m_ConnectionMap, m_elConnectionMap, mconn, works, wtask, received>>

(* Steps that leave all that alone keep the ownership. *)
LEMMA OwnFrame ==
  ASSUME OwnInv, UNCHANGED ownVars, lpc' = "read" => raw' \in Conns
  PROVE  OwnInv'
BY DEF OwnInv, ownVars, Alive, Requests

(* A step that only drops references keeps the ownership: what is still    *)
(* referred to does not end.                                               *)
LEMMA DroppingKeepsOwn ==
  ASSUME IInv, TypeOK', NEW closing \in SUBSET Conns, DestroyUnheld(closing),
         UNCHANGED <<fdOf, works, received, raw>>, lpc' = "read" => lpc = "read",
         \A f \in Fds, c \in Conns : m_ConnectionMap'[f] = c => m_ConnectionMap[f] = c,
         \A f \in Fds, c \in Conns : m_elConnectionMap'[f] = c => m_elConnectionMap[f] = c,
         \A c \in Conns : mconn' = c => mconn = c,
         \A w \in Workers : wtask'[w] # NoTask => wtask'[w] = wtask[w]
  PROVE  OwnInv'
<1>1. TypeOK /\ OwnInv
  BY DEF IInv
<1>2. \A c \in Conns :
        /\ phase'[c] = "unborn" <=> phase[c] = "unborn"
        /\ Alive(c)' => Alive(c)
        /\ Alive(c) /\ Held(c)' => Alive(c)'
  BY <1>1, Destroying
<1>3. \A c \in Conns : phase'[c] # "unborn" => fdOf'[c] \in Fds
  BY <1>1, <1>2 DEF OwnInv
<1>4. \A c, d \in Conns : Alive(c)' /\ Alive(d)' /\ fdOf'[c] = fdOf'[d] => c = d
  BY <1>1, <1>2 DEF OwnInv
<1>5. ASSUME NEW f \in Fds, NEW c \in Conns, m_ConnectionMap'[f] = c \/ m_elConnectionMap'[f] = c
      PROVE  Alive(c)' /\ fdOf'[c] = f
  <2>1. Alive(c) /\ fdOf[c] = f
    BY <1>1, <1>5 DEF OwnInv
  <2>2. Held(c)'
    BY <1>5 DEF Held
  <2>3. QED BY <1>2, <2>1, <2>2
<1>6. ASSUME NEW c \in Conns, mconn' = c PROVE Alive(c)'
  BY <1>1, <1>2, <1>6 DEF OwnInv, Held
<1>7. lpc' = "read" => raw' \in Conns
  BY <1>1 DEF OwnInv
<1>8. ASSUME NEW r \in ToSet(works') PROVE Alive(received[r])'
  <2>1. r \in Requests /\ r \in Requests'
    BY <1>1, <1>8, InSeq DEF TypeOK, Requests
  <2>2. received[r] \in Conns
    BY <1>1, <2>1 DEF TypeOK, Requests
  <2>3. Held(received[r])'
    BY <1>8, <2>1 DEF Held
  <2>4. Alive(received[r])
    BY <1>1, <1>8 DEF OwnInv
  <2>5. QED BY <1>2, <2>2, <2>3, <2>4 DEF Alive
<1>9. ASSUME NEW w \in Workers, wtask'[w] # NoTask PROVE Alive(received[wtask[w]])'
  <2>1. wtask'[w] = wtask[w] /\ wtask[w] \in Requests /\ wtask[w] \in Requests'
    BY <1>1, <1>9 DEF TypeOK, Requests
  <2>2. received[wtask[w]] \in Conns
    BY <1>1, <2>1 DEF TypeOK, Requests
  <2>3. Held(received[wtask[w]])'
    BY <2>1 DEF Held
  <2>4. Alive(received[wtask[w]])
    BY <1>1, <1>9, <2>1 DEF OwnInv
  <2>5. QED BY <1>2, <2>1, <2>2, <2>3, <2>4 DEF Alive
<1>10. QED BY <1>3, <1>4, <1>5, <1>6, <1>7, <1>8, <1>9 DEF OwnInv

(* A new connection gets a descriptor that no living one has. *)
LEMMA AcceptKeepsOwn ==
  ASSUME IInv, NEW c \in Conns, Accept(c)
  PROVE  OwnInv'
<1>1. TypeOK /\ OwnInv
  BY DEF IInv
<1>2. PICK f \in FreeFds :
        /\ fdOf' = [fdOf EXCEPT ![c] = f]
        /\ m_ConnectionMap' = [m_ConnectionMap EXCEPT ![f] = c]
        /\ m_elConnectionMap' = [m_elConnectionMap EXCEPT ![f] = c]
  BY DEF Accept
<1>3. /\ mconn = NoConn /\ phase[c] = "unborn" /\ mconn' = c
      /\ phase' = [phase EXCEPT ![c] = "alive"]
      /\ UNCHANGED <<lpc, raw, works, wtask, received>>
  BY DEF Accept, loopVars, workVars, histVars
<1>4. f \in Fds /\ \A d \in Conns : Alive(d) => fdOf[d] # f
  BY <1>2 DEF FreeFds
<1>5. \A d \in Conns : d # c => phase'[d] = phase[d] /\ fdOf'[d] = fdOf[d]
  BY <1>1, <1>2, <1>3 DEF TypeOK
<1>6. phase'[c] = "alive" /\ fdOf'[c] = f /\ ~Alive(c)
  BY <1>1, <1>2, <1>3 DEF TypeOK, Alive
<1>7. \A d \in Conns : Alive(d) => Alive(d)'
  BY <1>5, <1>6 DEF Alive
<1>8. \A d \in Conns : phase'[d] # "unborn" => fdOf'[d] \in Fds
  BY <1>1, <1>4, <1>5, <1>6 DEF OwnInv
<1>9. ASSUME NEW d \in Conns, NEW e \in Conns, Alive(d)', Alive(e)', fdOf'[d] = fdOf'[e]
      PROVE  d = e
  BY <1>1, <1>4, <1>5, <1>6, <1>9 DEF OwnInv, Alive
<1>10. ASSUME NEW g \in Fds, NEW d \in Conns,
              m_ConnectionMap'[g] = d \/ m_elConnectionMap'[g] = d
       PROVE  Alive(d)' /\ fdOf'[d] = g
  <2>1. CASE g = f
    <3>1. d = c
      BY <1>1, <1>2, <1>10, <2>1 DEF TypeOK
    <3>2. QED BY <1>6, <2>1, <3>1 DEF Alive
  <2>2. CASE g # f
    <3>1. m_ConnectionMap[g] = d \/ m_elConnectionMap[g] = d
      BY <1>1, <1>2, <1>10, <2>2 DEF TypeOK
    <3>2. Alive(d) /\ fdOf[d] = g
      BY <1>1, <3>1 DEF OwnInv
    <3>3. QED BY <1>5, <1>6, <1>7, <3>2
  <2>3. QED BY <2>1, <2>2
<1>11. \A d \in Conns : mconn' = d => Alive(d)'
  BY <1>3, <1>6 DEF Alive
<1>12. lpc' = "read" => raw' \in Conns
  BY <1>1, <1>3 DEF OwnInv
<1>13. ASSUME NEW r \in ToSet(works') PROVE Alive(received[r])'
  <2>1. r \in Requests /\ Alive(received[r])
    BY <1>1, <1>3, <1>13, InSeq DEF TypeOK, OwnInv
  <2>2. received[r] \in Conns
    BY <1>1, <2>1 DEF TypeOK, Requests
  <2>3. QED BY <1>3, <1>7, <2>1, <2>2 DEF Alive
<1>14. ASSUME NEW w \in Workers, wtask'[w] # NoTask PROVE Alive(received[wtask[w]])'
  <2>1. wtask[w] \in Requests /\ Alive(received[wtask[w]])
    BY <1>1, <1>3, <1>14 DEF TypeOK, OwnInv
  <2>2. received[wtask[w]] \in Conns
    BY <1>1, <2>1 DEF TypeOK, Requests
  <2>3. QED BY <1>3, <1>7, <2>1, <2>2 DEF Alive
<1>15. QED BY <1>8, <1>9, <1>10, <1>11, <1>12, <1>13, <1>14 DEF OwnInv

(* A request is queued with the connection that is being read. *)
LEMMA HandOverKeepsOwn ==
  ASSUME IInv, HandOver
  PROVE  OwnInv'
<1>1. TypeOK /\ OwnInv
  BY DEF IInv
<1>2. /\ raw \in Conns /\ Alive(raw)
      /\ received' = Append(received, raw)
      /\ works' = Append(works, Len(received) + 1)
      /\ UNCHANGED <<phase, fdOf, m_ConnectionMap, m_elConnectionMap, mconn, lpc, raw, wtask>>
  BY <1>1 DEF HandOver, OwnInv, mapVars, loopVars
<1>3. /\ Len(received) \in Nat
      /\ \A r \in Requests : received'[r] = received[r]
      /\ received'[Len(received) + 1] = raw
  BY <1>1, <1>2, Appended DEF TypeOK, Requests
<1>4. ToSet(works') = ToSet(works) \union {Len(received) + 1}
  <2>1. works \in Seq(Nat)
    BY <1>1, SeqGrows DEF TypeOK, Requests
  <2>2. QED BY <1>2, <1>3, <2>1, Appended
<1>5. ASSUME NEW r \in ToSet(works') PROVE Alive(received[r])'
  <2>1. CASE r = Len(received) + 1
    BY <1>2, <1>3, <2>1 DEF Alive
  <2>2. CASE r \in ToSet(works)
    <3>1. r \in Requests
      BY <1>1, <2>2, InSeq DEF TypeOK
    <3>2. QED BY <1>1, <1>2, <1>3, <2>2, <3>1 DEF OwnInv, Alive
  <2>3. QED BY <1>4, <1>5, <2>1, <2>2
<1>6. ASSUME NEW w \in Workers, wtask'[w] # NoTask PROVE Alive(received[wtask[w]])'
  <2>1. wtask[w] \in Requests
    BY <1>1, <1>2, <1>6 DEF TypeOK
  <2>2. QED BY <1>1, <1>2, <1>3, <1>6, <2>1 DEF OwnInv, Alive
<1>7. QED BY <1>1, <1>2, <1>5, <1>6 DEF OwnInv, Alive

(* A task that is taken holds its connection as it did in the queue. *)
LEMMA TakeTaskKeepsOwn ==
  ASSUME IInv, NEW w \in Workers, TakeTask(w)
  PROVE  OwnInv'
<1>1. TypeOK /\ OwnInv
  BY DEF IInv
<1>2. /\ works # <<>> /\ works' = Tail(works)
      /\ wtask' = [wtask EXCEPT ![w] = Head(works)]
      /\ UNCHANGED <<phase, fdOf, m_ConnectionMap, m_elConnectionMap, mconn, lpc, raw, received>>
  BY DEF TakeTask, connVars, mapVars, loopVars, histVars
<1>3. /\ Head(works) \in ToSet(works)
      /\ ToSet(works') \subseteq ToSet(works)
  BY <1>1, <1>2, HeadTail DEF TypeOK
<1>4. \A r \in ToSet(works') : Alive(received[r])'
  BY <1>1, <1>2, <1>3 DEF OwnInv, Alive
<1>5. \A v \in Workers : wtask'[v] # NoTask => Alive(received[wtask[v]])'
  BY <1>1, <1>2, <1>3 DEF OwnInv, Alive, TypeOK
<1>6. QED BY <1>1, <1>2, <1>4, <1>5 DEF OwnInv, Alive

(* Every step keeps the ownership. *)
LEMMA NextOwn ==
  ASSUME IInv, [Next]_vars
  PROVE  OwnInv'
<1>1. TypeOK /\ OwnInv /\ TypeOK'
  BY NextTypeOK DEF IInv
<1>2. CASE UNCHANGED vars \/ Environment
  <2>1. UNCHANGED ownVars /\ UNCHANGED <<lpc, raw>>
    BY <1>2 DEF vars, ownVars, Environment, ClientSends, ClientCloses, PeerResets, Arrive,
       connVars, mapVars, loopVars, workVars, histVars
  <2>2. QED BY <1>1, <2>1, OwnFrame DEF OwnInv
<1>3. ASSUME NEW c \in Conns, Accept(c) PROVE OwnInv'
  BY <1>3, AcceptKeepsOwn
<1>4. CASE InsertDevice
  <2>1. \A c \in Conns : mconn' = c => mconn = c
    BY <1>4, WorkerAssumption DEF InsertDevice
  <2>2. QED BY <1>1, <1>4, <2>1, DroppingKeepsOwn DEF InsertDevice, loopVars, workVars, histVars
<1>5. ASSUME NEW c \in Conns, HandleHangup(c) \/ HandleError(c) PROVE OwnInv'
  <2>1. Close(c)
    BY <1>5 DEF HandleHangup, HandleError
  <2>2. \A f \in Fds, d \in Conns : m_ConnectionMap'[f] = d => m_ConnectionMap[f] = d
    BY <1>1, <2>1, WorkerAssumption DEF Close, TypeOK
  <2>3. QED BY <1>1, <2>1, <2>2, DroppingKeepsOwn DEF Close, workVars, histVars
<1>6. CASE ExpireFromLoop \/ ForgetInServer
  <2>1. /\ \A f \in Fds, c \in Conns : m_ConnectionMap'[f] = c => m_ConnectionMap[f] = c
        /\ \A f \in Fds, c \in Conns : m_elConnectionMap'[f] = c => m_elConnectionMap[f] = c
    BY <1>1, <1>6, WorkerAssumption DEF ExpireFromLoop, ForgetInServer, TypeOK
  <2>2. /\ DestroyUnheld({})
        /\ UNCHANGED <<fdOf, works, received, raw, mconn, wtask>>
        /\ lpc' # "read"
    BY <1>6 DEF ExpireFromLoop, ForgetInServer, workVars, histVars
  <2>3. QED BY <1>1, <2>1, <2>2, DroppingKeepsOwn
<1>7. CASE HandOver
  BY <1>7, HandOverKeepsOwn
<1>8. ASSUME Loop, ~ExpireFromLoop, ~ForgetInServer, ~HandOver,
             \A c \in Conns : ~HandleHangup(c) /\ ~HandleError(c)
      PROVE  OwnInv'
  <2>1. ASSUME NEW c \in Conns, HandleDangling(c) \/ HandleRead(c) \/ HandleWrite(c)
        PROVE  UNCHANGED ownVars /\ (lpc' = "read" => raw' \in Conns)
    BY <1>1, <2>1 DEF HandleDangling, HandleRead, HandleWrite, Take, Die, ownVars, OwnInv,
       connVars, mapVars, loopVars, workVars, histVars
  <2>2. ASSUME EpollWait \/ FinishRead \/ LoseConnection \/ HandleTimer \/ HandleWakeup
                 \/ SendInLoop \/ EndWakeup
        PROVE  UNCHANGED ownVars /\ (lpc' = "read" => raw' \in Conns)
    BY <1>1, <2>2 DEF EpollWait, FinishRead, LoseConnection, HandleTimer, HandleWakeup,
       SendInLoop, EndWakeup, Take, Die, ownVars, OwnInv, connVars, mapVars, loopVars, workVars,
       histVars
  <2>3. QED BY <1>1, <1>8, <2>1, <2>2, OwnFrame DEF Loop
<1>9. ASSUME NEW w \in Workers, TakeTask(w) PROVE OwnInv'
  BY <1>9, TakeTaskKeepsOwn
<1>10. ASSUME NEW w \in Workers, Return(w) PROVE OwnInv'
  <2>1. \A v \in Workers : wtask'[v] # NoTask => wtask'[v] = wtask[v]
    BY <1>1, <1>10 DEF Return, TypeOK
  <2>2. QED BY <1>1, <1>10, <2>1, DroppingKeepsOwn DEF Return, mapVars, loopVars
<1>11. ASSUME NEW w \in Workers, Worker(w), ~TakeTask(w), ~Return(w) PROVE OwnInv'
  <2>1. UNCHANGED ownVars /\ UNCHANGED <<lpc, raw>>
    BY <1>11 DEF Worker, Lookup, TornLookup, Process, ProcessNull, ProcessTogether, SendTest, Post,
       Die, ownVars, connVars, mapVars, loopVars, workVars, histVars
  <2>2. QED BY <1>1, <2>1, OwnFrame DEF OwnInv
<1>12. QED
  BY <1>2, <1>3, <1>4, <1>5, <1>6, <1>7, <1>8, <1>9, <1>10, <1>11 DEF Next

-----------------------------------------------------------------------------
(* Whose DeviceInfo a request meets. *)

(* Steps that change no device entry but to erase it, and nobody's hold.   *)
LEMMA DeviceFrame ==
  ASSUME IInv,
         UNCHANGED <<fdOf, m_elConnectionMap, wtask, dev, received, expired>>,
         \A c \in Conns : phase'[c] = "unborn" <=> phase[c] = "unborn",
         \A f \in Fds, c \in Conns : m_deviceInfoMap'[f] = c => m_deviceInfoMap[f] = c,
         \A w \in Workers : /\ wpc'[w] = "take" <=> wpc[w] = "take"
                            /\ wpc'[w] = "lookup" => wpc[w] = "lookup"
  PROVE  DeviceInv'
BY DEF IInv, DeviceInv, OwnDevice

(* The steps that DeviceFrame is about. *)
LEMMA QuietKeepsDevice ==
  ASSUME IInv, [Next]_vars, ~InsertDevice, ~HandOver, ~ExpireFromLoop,
         \A c \in Conns : ~Accept(c),
         \A w \in Workers : ~TakeTask(w) /\ ~Lookup(w) /\ ~Return(w)
  PROVE  DeviceInv'
<1>1. TypeOK
  BY DEF IInv
<1>2. CASE UNCHANGED vars \/ Environment
  BY <1>2, DeviceFrame
     DEF vars, Environment, ClientSends, ClientCloses, PeerResets, Arrive,
     connVars, mapVars, loopVars, workVars, histVars
<1>3. ASSUME NEW c \in Conns, HandleHangup(c) \/ HandleError(c) PROVE DeviceInv'
  <2>1. Close(c)
    BY <1>3 DEF HandleHangup, HandleError
  <2>2. \A f \in Fds, d \in Conns : m_deviceInfoMap'[f] = d => m_deviceInfoMap[f] = d
    BY <1>1, <2>1, WorkerAssumption DEF Close, TypeOK
  <2>3. \A d \in Conns : phase'[d] = "unborn" <=> phase[d] = "unborn"
    BY <1>1, <2>1, Destroying DEF Close
  <2>4. QED BY <2>1, <2>2, <2>3, DeviceFrame DEF Close, workVars, histVars
<1>4. ASSUME NEW c \in Conns, HandleDangling(c) \/ HandleRead(c) \/ HandleWrite(c)
      PROVE  DeviceInv'
  <2>1. UNCHANGED <<connVars, mapVars, wpc, wtask, dev, received, expired>>
    BY <1>4 DEF HandleDangling, HandleRead, HandleWrite, Take, Die,
       connVars, mapVars, loopVars, workVars, histVars
  <2>2. QED BY <2>1, DeviceFrame DEF connVars, mapVars
<1>5. CASE ForgetInServer
  <2>1. /\ DestroyUnheld({})
        /\ UNCHANGED <<fdOf, m_elConnectionMap, m_deviceInfoMap, wpc, wtask, dev, received,
                        expired>>
    BY <1>5 DEF ForgetInServer, workVars, histVars
  <2>2. \A d \in Conns : phase'[d] = "unborn" <=> phase[d] = "unborn"
    BY <1>1, <2>1, Destroying
  <2>3. QED BY <2>1, <2>2, DeviceFrame
<1>6. CASE EpollWait \/ FinishRead \/ LoseConnection \/ HandleTimer \/ HandleWakeup
             \/ SendInLoop \/ EndWakeup
  <2>1. UNCHANGED <<connVars, mapVars, wpc, wtask, dev, received, expired>>
    BY <1>6 DEF EpollWait, FinishRead, LoseConnection, HandleTimer, HandleWakeup,
       SendInLoop, EndWakeup, Take, Die, connVars, mapVars, loopVars, workVars, histVars
  <2>2. QED BY <2>1, DeviceFrame DEF connVars, mapVars
<1>7. ASSUME NEW w \in Workers, TornLookup(w) \/ ProcessNull(w) \/ ProcessTogether(w)
      PROVE  DeviceInv'
  <2>1. UNCHANGED <<connVars, mapVars, wpc, wtask, dev, received, expired>>
    BY <1>7 DEF TornLookup, ProcessNull, ProcessTogether, Die, workVars, histVars
  <2>2. QED BY <2>1, DeviceFrame DEF connVars, mapVars
<1>8. ASSUME NEW w \in Workers, Process(w) \/ SendTest(w) \/ Post(w)
      PROVE  DeviceInv'
  <2>1. /\ UNCHANGED <<connVars, mapVars, wtask, dev, received, expired>>
        /\ wpc[w] \in {"process", "send", "post"}
        /\ \E to \in {"send", "post", "return"} : wpc' = [wpc EXCEPT ![w] = to]
    BY <1>8 DEF Process, SendTest, Post, WorkerStep, histVars
  <2>2. \A v \in Workers : /\ wpc'[v] = "take" <=> wpc[v] = "take"
                           /\ wpc'[v] = "lookup" => wpc[v] = "lookup"
    BY <1>1, <2>1 DEF TypeOK
  <2>3. QED BY <2>1, <2>2, DeviceFrame DEF connVars, mapVars
<1>9. QED
  BY <1>2, <1>3, <1>4, <1>5, <1>6, <1>7, <1>8 DEF Next, Loop, Worker

(* A new connection replaces nobody in the loop's table. *)
LEMMA AcceptKeepsDevice ==
  ASSUME IInv, NEW c \in Conns, Accept(c)
  PROVE  DeviceInv'
<1>1. TypeOK /\ OwnInv /\ DeviceInv
  BY DEF IInv
<1>2. PICK f \in FreeFds :
        /\ fdOf' = [fdOf EXCEPT ![c] = f]
        /\ m_elConnectionMap' = [m_elConnectionMap EXCEPT ![f] = c]
  BY DEF Accept
<1>3. /\ phase[c] = "unborn"
      /\ phase' = [phase EXCEPT ![c] = "alive"]
      /\ UNCHANGED <<m_deviceInfoMap, wpc, wtask, dev, received, expired>>
  BY DEF Accept, workVars, histVars
<1>4. f \in Fds /\ \A d \in Conns : Alive(d) => fdOf[d] # f
  BY <1>2 DEF FreeFds
<1>5. /\ phase'[c] = "alive" /\ fdOf'[c] = f
      /\ \A d \in Conns : d # c => phase'[d] = phase[d] /\ fdOf'[d] = fdOf[d]
  BY <1>1, <1>2, <1>3 DEF TypeOK
<1>6. ASSUME NEW d \in Conns, phase'[d] # "unborn", d \notin expired'
      PROVE  m_elConnectionMap'[fdOf'[d]] = d
  <2>1. CASE d = c
    BY <1>1, <1>2, <1>4, <1>5, <2>1 DEF TypeOK
  <2>2. CASE d # c
    <3>1. fdOf[d] \in Fds /\ m_elConnectionMap[fdOf[d]] = d
      BY <1>1, <1>3, <1>5, <1>6, <2>2 DEF OwnInv, DeviceInv
    <3>2. Alive(d)
      BY <1>1, <3>1 DEF OwnInv
    <3>3. fdOf[d] # f
      BY <1>4, <3>2
    <3>4. QED BY <1>1, <1>2, <1>4, <1>5, <2>2, <3>1, <3>3 DEF TypeOK
  <2>3. QED BY <2>1, <2>2
<1>7. ASSUME NEW g \in Fds, NEW d \in Conns, m_deviceInfoMap'[g] = d
      PROVE  phase'[d] # "unborn" /\ fdOf'[d] = g
  BY <1>1, <1>3, <1>5, <1>7 DEF DeviceInv
<1>8. OwnDevice'
  BY <1>1, <1>3 DEF DeviceInv, OwnDevice
<1>9. QED BY <1>1, <1>3, <1>6, <1>7, <1>8 DEF DeviceInv

(* Only the new connection's own DeviceInfo is entered. *)
LEMMA InsertDeviceKeepsDevice ==
  ASSUME IInv, InsertDevice
  PROVE  DeviceInv'
<1>1. TypeOK /\ OwnInv /\ DeviceInv
  BY DEF IInv
<1>2. /\ mconn \in Conns
      /\ m_deviceInfoMap' = [m_deviceInfoMap EXCEPT ![fdOf[mconn]] = mconn]
      /\ UNCHANGED <<fdOf, m_elConnectionMap, wpc, wtask, dev, received, expired>>
      /\ DestroyUnheld({})
  BY <1>1 DEF InsertDevice, TypeOK, workVars, histVars
<1>3. \A d \in Conns : phase'[d] = "unborn" <=> phase[d] = "unborn"
  BY <1>1, <1>2, Destroying
<1>4. phase[mconn] # "unborn"
  BY <1>1, <1>2 DEF OwnInv, Alive
<1>5. ASSUME NEW g \in Fds, NEW d \in Conns, m_deviceInfoMap'[g] = d
      PROVE  phase'[d] # "unborn" /\ fdOf'[d] = g
  <2>1. CASE g = fdOf[mconn]
    BY <1>1, <1>2, <1>3, <1>4, <1>5, <2>1 DEF TypeOK
  <2>2. CASE g # fdOf[mconn]
    BY <1>1, <1>2, <1>3, <1>5, <2>2 DEF TypeOK, DeviceInv
  <2>3. QED BY <2>1, <2>2
<1>6. OwnDevice'
  BY <1>1, <1>2 DEF DeviceInv, OwnDevice
<1>7. QED BY <1>1, <1>2, <1>3, <1>5, <1>6 DEF DeviceInv

(* Requests in hand stay the requests they were. *)
LEMMA HandOverKeepsDevice ==
  ASSUME IInv, HandOver
  PROVE  DeviceInv'
<1>1. TypeOK /\ OwnInv /\ DeviceInv
  BY DEF IInv
<1>2. /\ raw \in Conns
      /\ received' = Append(received, raw)
      /\ UNCHANGED <<phase, fdOf, m_elConnectionMap, m_deviceInfoMap, wpc, wtask, dev, expired>>
  BY <1>1 DEF HandOver, OwnInv, mapVars
<1>3. \A r \in Requests : received'[r] = received[r]
  BY <1>1, <1>2, Appended DEF TypeOK, Requests
<1>4. ASSUME NEW w \in Workers, dev'[w] \in Conns
      PROVE  dev'[w] = received'[wtask'[w]] \/ dev'[w] \in expired'
  <2>1. wpc[w] # "take"
    BY <1>1, <1>2, <1>4, WorkerAssumption DEF DeviceInv
  <2>2. wtask[w] \in Requests
    BY <2>1, HandOnTask
  <2>3. QED BY <1>1, <1>2, <1>3, <1>4, <2>2 DEF DeviceInv, OwnDevice
<1>5. QED BY <1>1, <1>2, <1>4 DEF DeviceInv, OwnDevice

(* What the idle timer takes out of the loop's table is noted. *)
LEMMA ExpireKeepsDevice ==
  ASSUME IInv, ExpireFromLoop
  PROVE  DeviceInv'
<1>1. TypeOK /\ OwnInv /\ DeviceInv
  BY DEF IInv
<1>2. PICK f \in m_timeoutFdQueue :
        /\ m_elConnectionMap' = [m_elConnectionMap EXCEPT ![f] = NoConn]
        /\ expired' = expired \union {m_elConnectionMap[f]}
  BY DEF ExpireFromLoop
<1>3. /\ UNCHANGED <<fdOf, m_deviceInfoMap, wpc, wtask, dev, received>>
      /\ DestroyUnheld({})
  BY DEF ExpireFromLoop, workVars
<1>4. \A d \in Conns : phase'[d] = "unborn" <=> phase[d] = "unborn"
  BY <1>1, <1>3, Destroying
<1>5. ASSUME NEW d \in Conns, phase'[d] # "unborn", d \notin expired'
      PROVE  m_elConnectionMap'[fdOf'[d]] = d
  <2>1. fdOf[d] \in Fds /\ m_elConnectionMap[fdOf[d]] = d
    BY <1>1, <1>2, <1>4, <1>5 DEF OwnInv, DeviceInv
  <2>2. fdOf[d] # f
    BY <1>2, <1>5, <2>1
  <2>3. QED BY <1>1, <1>2, <1>3, <2>1, <2>2 DEF TypeOK
<1>6. OwnDevice'
  BY <1>1, <1>2, <1>3 DEF DeviceInv, OwnDevice
<1>7. QED BY <1>1, <1>3, <1>4, <1>5, <1>6 DEF DeviceInv

(* A worker that takes a task has no DeviceInfo yet. *)
LEMMA TakeTaskKeepsDevice ==
  ASSUME IInv, NEW w \in Workers, TakeTask(w)
  PROVE  DeviceInv'
<1>1. TypeOK /\ DeviceInv
  BY DEF IInv
<1>2. /\ works # <<>>
      /\ wpc[w] = "take" /\ wpc' = [wpc EXCEPT ![w] = "lookup"]
      /\ wtask' = [wtask EXCEPT ![w] = Head(works)]
      /\ UNCHANGED <<phase, fdOf, m_elConnectionMap, m_deviceInfoMap, dev, received, expired>>
  BY DEF TakeTask, WorkerStep, connVars, mapVars, histVars
<1>3. Head(works) \in Requests /\ Head(works) # NoTask
  BY <1>1, <1>2, HeadTail DEF TypeOK, Requests, NoTask
<1>4. \A v \in Workers : wpc'[v] \in {"take", "lookup"} => dev'[v] = NoConn
  BY <1>1, <1>2 DEF TypeOK, DeviceInv
<1>5. \A v \in Workers : wtask'[v] = NoTask <=> wpc'[v] = "take"
  BY <1>1, <1>2, <1>3 DEF TypeOK, DeviceInv
<1>6. ASSUME NEW v \in Workers, dev'[v] \in Conns
      PROVE  dev'[v] = received'[wtask'[v]] \/ dev'[v] \in expired'
  <2>1. v # w
    BY <1>1, <1>2, <1>6, WorkerAssumption DEF DeviceInv
  <2>2. QED BY <1>1, <1>2, <1>6, <2>1 DEF TypeOK, DeviceInv, OwnDevice
<1>7. QED BY <1>1, <1>2, <1>4, <1>5, <1>6 DEF DeviceInv, OwnDevice

(* The entry a worker finds is its connection's: who else has the          *)
(* descriptor has lost it, and left the loop's table, to the idle timer.   *)
LEMMA LookupKeepsDevice ==
  ASSUME IInv, NEW w \in Workers, Lookup(w)
  PROVE  DeviceInv'
<1> DEFINE c == received[wtask[w]]
           f == fdOf[c]
           found == IF m_deviceInfoMap[f] = NoConn THEN NullDevice ELSE m_deviceInfoMap[f]
<1>1. TypeOK /\ OwnInv /\ DeviceInv
  BY DEF IInv
<1>2. /\ wpc[w] = "lookup" /\ wpc' = [wpc EXCEPT ![w] = "process"]
      /\ m_deviceInfoMap' = [m_deviceInfoMap EXCEPT ![f] = found]
      /\ dev' = [dev EXCEPT ![w] = found]
      /\ UNCHANGED <<phase, fdOf, m_elConnectionMap, wtask, received, expired>>
  BY DEF Lookup, WorkerStep, connVars, histVars
<1>3. c \in Conns /\ Alive(c) /\ f \in Fds
  BY <1>2, HandOnTask
<1>4. ASSUME found \in Conns PROVE found = m_deviceInfoMap[f]
  BY <1>4, WorkerAssumption
<1> HIDE DEF found, f, c
<1>5. ASSUME found \in Conns, found \notin expired PROVE found = c
  <2>1. phase[found] # "unborn" /\ fdOf[found] = f
    BY <1>1, <1>3, <1>4, <1>5 DEF DeviceInv
  <2>2. m_elConnectionMap[f] = found
    BY <1>1, <1>5, <2>1 DEF DeviceInv
  <2>3. Alive(found)
    BY <1>1, <1>3, <1>5, <2>2 DEF OwnInv
  <2>4. QED BY <1>1, <1>3, <1>5, <2>1, <2>3 DEF OwnInv, f
<1>6. ASSUME NEW g \in Fds, NEW d \in Conns, m_deviceInfoMap'[g] = d
      PROVE  phase'[d] # "unborn" /\ fdOf'[d] = g
  <2>1. m_deviceInfoMap[g] = d
    BY <1>1, <1>2, <1>4, <1>6 DEF TypeOK
  <2>2. QED BY <1>1, <1>2, <2>1 DEF DeviceInv
<1>7. \A v \in Workers : wpc'[v] \in {"take", "lookup"} => dev'[v] = NoConn
  BY <1>1, <1>2 DEF TypeOK, DeviceInv
<1>8. \A v \in Workers : wtask'[v] = NoTask <=> wpc'[v] = "take"
  BY <1>1, <1>2 DEF TypeOK, DeviceInv
<1>9. ASSUME NEW v \in Workers, dev'[v] \in Conns
      PROVE  dev'[v] = received'[wtask'[v]] \/ dev'[v] \in expired'
  <2>1. CASE v = w
    BY <1>1, <1>2, <1>5, <1>9, <2>1 DEF TypeOK, c
  <2>2. CASE v # w
    BY <1>1, <1>2, <1>9, <2>2 DEF TypeOK, DeviceInv, OwnDevice
  <2>3. QED BY <2>1, <2>2
<1>10. QED BY <1>1, <1>2, <1>6, <1>7, <1>8, <1>9 DEF DeviceInv, OwnDevice

(* A worker that is done has no task and no DeviceInfo. *)
LEMMA ReturnKeepsDevice ==
  ASSUME IInv, NEW w \in Workers, Return(w)
  PROVE  DeviceInv'
<1>1. TypeOK /\ DeviceInv
  BY DEF IInv
<1>2. /\ wpc' = [wpc EXCEPT ![w] = "take"]
      /\ wtask' = [wtask EXCEPT ![w] = NoTask]
      /\ dev' = [dev EXCEPT ![w] = NoConn]
      /\ UNCHANGED <<fdOf, m_elConnectionMap, m_deviceInfoMap, received, expired>>
      /\ DestroyUnheld({})
  BY DEF Return, WorkerStep, mapVars
<1>3. \A d \in Conns : phase'[d] = "unborn" <=> phase[d] = "unborn"
  BY <1>1, <1>2, Destroying
<1>4. \A v \in Workers : wpc'[v] \in {"take", "lookup"} => dev'[v] = NoConn
  BY <1>1, <1>2 DEF TypeOK, DeviceInv
<1>5. \A v \in Workers : wtask'[v] = NoTask <=> wpc'[v] = "take"
  BY <1>1, <1>2 DEF TypeOK, DeviceInv
<1>6. ASSUME NEW v \in Workers, dev'[v] \in Conns
      PROVE  dev'[v] = received'[wtask'[v]] \/ dev'[v] \in expired'
  BY <1>1, <1>2, <1>6, WorkerAssumption DEF TypeOK, DeviceInv, OwnDevice
<1>7. QED BY <1>1, <1>2, <1>3, <1>4, <1>5, <1>6 DEF DeviceInv, OwnDevice

-----------------------------------------------------------------------------
(* Steps that leave the timer's queue alone keep what it holds ...         *)
LEMMA TimerFrame ==
  ASSUME TimerInv, UNCHANGED m_timeoutFdQueue,
         \A f \in m_timeoutFdQueue :
           m_elConnectionMap[f] \in Conns => m_elConnectionMap'[f] \in Conns,
         lpc' = lpc \/ lpc' \notin {"expire", "forget"}
  PROVE  TimerInv'
BY DEF TimerInv, Lowest

(* ... and so do the timer's own.                                          *)
LEMMA NextTimer ==
  ASSUME IInv, [Next]_vars
  PROVE  TimerInv'
<1>1. TypeOK /\ TimerInv
  BY DEF IInv
<1>2. CASE HandleTimer
  <2>1. m_timeoutFdQueue' \subseteq InLoopTable /\ m_elConnectionMap' = m_elConnectionMap
    BY <1>2 DEF HandleTimer, mapVars
  <2>2. QED BY <1>1, <2>1 DEF TimerInv, InLoopTable, TypeOK
<1>3. CASE ExpireFromLoop
  <2>1. PICK f \in m_timeoutFdQueue :
          /\ Lowest(f, m_timeoutFdQueue)
          /\ m_elConnectionMap' = [m_elConnectionMap EXCEPT ![f] = NoConn]
    BY <1>3 DEF ExpireFromLoop
  <2>2. lpc = "expire" /\ lpc' = "forget" /\ m_timeoutFdQueue' = m_timeoutFdQueue
    BY <1>3 DEF ExpireFromLoop
  <2>3. ASSUME NEW g \in m_timeoutFdQueue, ~Lowest(g, m_timeoutFdQueue)
        PROVE  m_elConnectionMap'[g] \in Conns
    <3>1. g # f /\ g \in Fds /\ m_elConnectionMap[g] \in Conns
      BY <1>1, <2>1, <2>2, <2>3 DEF TimerInv, TypeOK
    <3>2. QED BY <1>1, <2>1, <3>1 DEF TypeOK
  <2>4. QED BY <2>2, <2>3 DEF TimerInv, Lowest
<1>4. CASE ForgetInServer
  <2>1. PICK f \in m_timeoutFdQueue :
          /\ Lowest(f, m_timeoutFdQueue)
          /\ m_timeoutFdQueue' = m_timeoutFdQueue \ {f}
    BY <1>4 DEF ForgetInServer
  <2>2. lpc = "forget" /\ m_elConnectionMap' = m_elConnectionMap
    BY <1>4 DEF ForgetInServer
  <2>3. m_timeoutFdQueue \subseteq Nat
    BY <1>1, WorkerAssumption DEF TypeOK
  <2>4. \A g \in m_timeoutFdQueue \ {f} : ~Lowest(g, m_timeoutFdQueue)
    BY <2>1, <2>3 DEF Lowest
  <2>5. QED BY <1>1, <2>1, <2>2, <2>4 DEF TimerInv
<1>5. ASSUME NEW c \in Conns, Accept(c) PROVE TimerInv'
  <2>1. /\ \E f \in Fds : m_elConnectionMap' = [m_elConnectionMap EXCEPT ![f] = c]
        /\ UNCHANGED <<lpc, m_timeoutFdQueue>>
    BY <1>5 DEF Accept, FreeFds, loopVars
  <2>2. QED BY <1>1, <2>1, TimerFrame DEF TypeOK
<1>6. ASSUME Loop, ~HandleTimer, ~ExpireFromLoop, ~ForgetInServer PROVE TimerInv'
  <2>1. UNCHANGED <<m_timeoutFdQueue, m_elConnectionMap>>
    BY <1>6 DEF Loop, EpollWait, HandleDangling, HandleRead, HandleHangup, HandleError, HandleWrite,
       Close, HandOver, FinishRead, LoseConnection, HandleWakeup, SendInLoop, EndWakeup, Die,
       mapVars, loopVars
  <2>2. lpc' = lpc \/ lpc' \notin {"expire", "forget"}
    BY <1>6 DEF Loop, EpollWait, HandleDangling, HandleRead, HandleHangup, HandleError, HandleWrite,
       Close, HandOver, FinishRead, LoseConnection, HandleWakeup, SendInLoop, EndWakeup, Die,
       loopVars
  <2>3. QED BY <1>1, <2>1, <2>2, TimerFrame
<1>7. ASSUME NEW w \in Workers, Worker(w) PROVE TimerInv'
  <2>1. UNCHANGED <<m_timeoutFdQueue, m_elConnectionMap, lpc>>
    BY <1>7 DEF Worker, TakeTask, Lookup, TornLookup, Process, ProcessNull, ProcessTogether,
       SendTest, Post, Return, Die, mapVars, loopVars
  <2>2. QED BY <1>1, <2>1, TimerFrame
<1>8. CASE InsertDevice \/ Environment \/ UNCHANGED vars
  <2>1. UNCHANGED <<m_timeoutFdQueue, m_elConnectionMap, lpc>>
    BY <1>8 DEF InsertDevice, Environment, ClientSends, ClientCloses, PeerResets, Arrive, vars,
       mapVars, loopVars
  <2>2. QED BY <1>1, <2>1, TimerFrame
<1>9. QED BY <1>2, <1>3, <1>4, <1>5, <1>6, <1>7, <1>8 DEF Next

-----------------------------------------------------------------------------
(* The invariant holds at the start ... *)
LEMMA InitIInv ==
  ASSUME Init
  PROVE  IInv
<1>1. /\ works = <<>> /\ posted = <<>> /\ received = <<>>
      /\ works \in Seq({}) /\ posted \in Seq({}) /\ received \in Seq({})
      /\ Len(received) = 0 /\ Len(works) = 0
  BY DEF Init
<1>2. TypeOK
  <2>1. /\ works \in Seq(Requests) /\ posted \in Seq(Requests)
        /\ received \in Seq(Conns)
    BY <1>1, SeqGrows
  <2>2. Len(received) <= MaxRequests
    BY <1>1, WorkerAssumption
  <2>3. QED BY <2>1, <2>2 DEF Init, TypeOK
<1>3. OwnInv
  <2>1. ToSet(works) \subseteq {}
    <3>1. DOMAIN works = {}
      BY <1>1
    <3>2. QED BY <3>1 DEF ToSet
  <2>2. QED BY <2>1, WorkerAssumption DEF Init, OwnInv, Alive
<1>4. DeviceInv
  BY WorkerAssumption DEF Init, DeviceInv, OwnDevice
<1>5. TimerInv
  BY DEF Init, TimerInv
<1>6. QED BY <1>2, <1>3, <1>4, <1>5 DEF IInv

(* ... and every step keeps it. *)
LEMMA NextIInv ==
  ASSUME IInv, [Next]_vars
  PROVE  IInv'
<1>1. DeviceInv'
  <2>1. CASE InsertDevice
    BY <2>1, InsertDeviceKeepsDevice
  <2>2. CASE HandOver
    BY <2>2, HandOverKeepsDevice
  <2>3. CASE ExpireFromLoop
    BY <2>3, ExpireKeepsDevice
  <2>4. ASSUME NEW c \in Conns, Accept(c) PROVE DeviceInv'
    BY <2>4, AcceptKeepsDevice
  <2>5. ASSUME NEW w \in Workers, TakeTask(w) \/ Lookup(w) \/ Return(w) PROVE DeviceInv'
    BY <2>5, TakeTaskKeepsDevice, LookupKeepsDevice, ReturnKeepsDevice
  <2>6. QED BY <2>1, <2>2, <2>3, <2>4, <2>5, QuietKeepsDevice
<1>2. QED BY <1>1, NextTypeOK, NextOwn, NextTimer DEF IInv

(* The invariant of the specification. *)
LEMMA Invariant == Spec => []IInv
BY InitIInv, NextIInv, PTL DEF Spec

(* Types are kept, whatever workers, loop and main thread do. *)
THEOREM TypeCorrect == Spec => []TypeOK
<1>1. IInv => TypeOK
  BY DEF IInv
<1>2. QED BY <1>1, Invariant, PTL

(* A request meets its own connection's device, or one that only the idle  *)
(* timer has left behind (Navigation.cpp:113).                             *)
THEOREM AlwaysOwnDevice == Spec => []OwnDevice
<1>1. IInv => OwnDevice
  BY DEF IInv, DeviceInv
<1>2. QED BY <1>1, Invariant, PTL

(* A Connection that is gone was taken out by the idle timer, so only such *)
(* a one can be used after its end (Connection.cpp:34-46, 149).            *)
THEOREM OnlyExpiredEverDangle == Spec => []OnlyExpiredDangle
<1>1. ASSUME IInv, NEW c \in Conns, phase[c] = "destroyed" PROVE c \in expired
  <2>1. fdOf[c] \in Fds
    BY <1>1 DEF IInv, OwnInv
  <2>2. m_elConnectionMap[fdOf[c]] # c
    BY <1>1, <2>1 DEF IInv, OwnInv, Alive
  <2>3. QED BY <1>1, <2>2 DEF IInv, DeviceInv
<1>2. IInv => OnlyExpiredDangle
  BY <1>1 DEF OnlyExpiredDangle
<1>3. QED BY <1>2, Invariant, PTL

(* The close and error handlers erase by descriptor, and yet take no other *)
(* connection's entry (Navigation.cpp:49, TcpServer.cpp:104); the timer    *)
(* may take one from TcpServer's table (TcpServer.cpp:157), of a           *)
(* connection that the loop's table then has.                              *)
THEOREM EntriesAlwaysEndForCause == Spec => EntriesEndForCause
<1>1. ASSUME IInv, [Next]_vars, NEW f \in Fds
      PROVE  DeviceEntryEnds(f) /\ ServerEntryEnds(f)
  <2> USE DEF DeviceEntryEnds, ServerEntryEnds
  <2>1. TypeOK /\ OwnInv /\ DeviceInv
    BY <1>1 DEF IInv
  <2>2. CASE InsertDevice
    <3>1. /\ mconn \in Conns /\ Alive(mconn)
          /\ m_deviceInfoMap' = [m_deviceInfoMap EXCEPT ![fdOf[mconn]] = mconn]
          /\ m_ConnectionMap' = m_ConnectionMap
      BY <2>1, <2>2 DEF InsertDevice, TypeOK, OwnInv
    <3>2. ASSUME m_deviceInfoMap[f] \in Conns, m_deviceInfoMap'[f] # m_deviceInfoMap[f]
          PROVE  ~Alive(m_deviceInfoMap[f])
      <4>1. f = fdOf[mconn] /\ m_deviceInfoMap[f] # mconn
        BY <2>1, <3>1, <3>2 DEF TypeOK
      <4>2. fdOf[m_deviceInfoMap[f]] = f
        BY <2>1, <3>2 DEF DeviceInv
      <4>3. QED BY <2>1, <3>1, <3>2, <4>1, <4>2 DEF OwnInv
    <3>3. QED BY <3>1, <3>2
  <2>3. ASSUME NEW c \in Conns, Accept(c) PROVE DeviceEntryEnds(f) /\ ServerEntryEnds(f)
    <3>1. PICK g \in FreeFds : m_ConnectionMap' = [m_ConnectionMap EXCEPT ![g] = c]
      BY <2>3 DEF Accept
    <3>2. m_deviceInfoMap' = m_deviceInfoMap
      BY <2>3 DEF Accept
    <3>3. ASSUME m_ConnectionMap[f] \in Conns PROVE m_ConnectionMap'[f] = m_ConnectionMap[f]
      <4>1. Alive(m_ConnectionMap[f]) /\ fdOf[m_ConnectionMap[f]] = f
        BY <2>1, <3>3 DEF OwnInv
      <4>2. f # g
        BY <3>3, <4>1 DEF FreeFds
      <4>3. QED BY <2>1, <3>1, <4>2 DEF TypeOK
    <3>4. QED BY <3>2, <3>3
  <2>4. ASSUME NEW c \in Conns, HandleHangup(c) \/ HandleError(c)
        PROVE  DeviceEntryEnds(f) /\ ServerEntryEnds(f)
    <3>1. /\ Alive(c)
          /\ m_disconnect' = [m_disconnect EXCEPT ![c] = TRUE]
          /\ m_ConnectionMap' = [m_ConnectionMap EXCEPT ![fdOf[c]] = NoConn]
          /\ m_deviceInfoMap' = [m_deviceInfoMap EXCEPT ![fdOf[c]] = NoConn]
      BY <2>4 DEF HandleHangup, HandleError, Close
    <3>2. m_disconnect'[c] = TRUE
      BY <2>1, <3>1 DEF TypeOK
    <3>3. ASSUME m_deviceInfoMap[f] \in Conns, m_deviceInfoMap'[f] # m_deviceInfoMap[f],
                 Alive(m_deviceInfoMap[f])
          PROVE  m_deviceInfoMap[f] = c
      <4>1. f = fdOf[c]
        BY <2>1, <3>1, <3>3 DEF TypeOK
      <4>2. fdOf[m_deviceInfoMap[f]] = f
        BY <2>1, <3>3 DEF DeviceInv
      <4>3. QED BY <2>1, <3>1, <3>3, <4>1, <4>2 DEF OwnInv
    <3>4. ASSUME m_ConnectionMap[f] \in Conns, m_ConnectionMap'[f] # m_ConnectionMap[f]
          PROVE  m_ConnectionMap[f] = c
      <4>1. f = fdOf[c]
        BY <2>1, <3>1, <3>4 DEF TypeOK
      <4>2. Alive(m_ConnectionMap[f]) /\ fdOf[m_ConnectionMap[f]] = f
        BY <2>1, <3>4 DEF OwnInv
      <4>3. QED BY <2>1, <3>1, <3>4, <4>1, <4>2 DEF OwnInv
    <3>5. QED BY <3>2, <3>3, <3>4
  <2>5. CASE ForgetInServer
    <3>1. PICK g \in m_timeoutFdQueue :
            /\ Lowest(g, m_timeoutFdQueue)
            /\ m_ConnectionMap' = [m_ConnectionMap EXCEPT ![g] = NoConn]
      BY <2>5 DEF ForgetInServer
    <3>2. lpc = "forget" /\ UNCHANGED <<m_elConnectionMap, m_deviceInfoMap>>
      BY <2>5 DEF ForgetInServer
    <3>3. ASSUME m_ConnectionMap[f] \in Conns, m_ConnectionMap'[f] # m_ConnectionMap[f],
                 m_ConnectionMap[f] \notin expired
          PROVE  Lowest(f, m_timeoutFdQueue) /\ m_elConnectionMap'[f] = m_ConnectionMap[f]
      <4>1. f = g
        BY <2>1, <3>1, <3>3 DEF TypeOK
      <4>2. Alive(m_ConnectionMap[f]) /\ fdOf[m_ConnectionMap[f]] = f
        BY <2>1, <3>3 DEF OwnInv
      <4>3. m_elConnectionMap[f] = m_ConnectionMap[f]
        BY <2>1, <3>3, <4>2 DEF DeviceInv, Alive
      <4>4. QED BY <3>1, <3>2, <4>1, <4>3
    <3>4. QED BY <3>2, <3>3
  <2>6. ASSUME NEW w \in Workers, Lookup(w) PROVE DeviceEntryEnds(f) /\ ServerEntryEnds(f)
    <3>1. /\ m_ConnectionMap' = m_ConnectionMap
          /\ \E g, found :
               /\ found = IF m_deviceInfoMap[g] = NoConn THEN NullDevice ELSE m_deviceInfoMap[g]
               /\ m_deviceInfoMap' = [m_deviceInfoMap EXCEPT ![g] = found]
      BY <2>6 DEF Lookup
    <3>2. m_deviceInfoMap[f] \in Conns => m_deviceInfoMap'[f] = m_deviceInfoMap[f]
      BY <2>1, <3>1, WorkerAssumption DEF TypeOK
    <3>3. QED BY <3>1, <3>2
  <2>7. CASE UNCHANGED <<m_ConnectionMap, m_deviceInfoMap>>
    BY <2>7
  <2>8. CASE UNCHANGED vars \/ Environment
    BY <2>7, <2>8 DEF vars, mapVars, Environment, ClientSends, ClientCloses, PeerResets, Arrive
  <2>9. ASSUME Loop, ~ForgetInServer, \A c \in Conns : ~HandleHangup(c) /\ ~HandleError(c)
        PROVE  UNCHANGED <<m_ConnectionMap, m_deviceInfoMap>>
    BY <2>9 DEF Loop, EpollWait, HandleDangling, HandleRead, HandleWrite, HandOver, FinishRead,
       LoseConnection, HandleTimer, ExpireFromLoop, HandleWakeup, SendInLoop, EndWakeup, Die,
       mapVars
  <2>10. ASSUME NEW w \in Workers, Worker(w), ~Lookup(w)
         PROVE  UNCHANGED <<m_ConnectionMap, m_deviceInfoMap>>
    BY <2>10 DEF Worker, TakeTask, TornLookup, Process, ProcessNull, ProcessTogether, SendTest,
       Post, Return, Die, mapVars
  <2>11. QED
    BY <1>1, <2>2, <2>3, <2>4, <2>5, <2>6, <2>7, <2>8, <2>9, <2>10 DEF Next
<1>2. ASSUME IInv, [Next]_vars
      PROVE  [\A f \in Fds : DeviceEntryEnds(f) /\ ServerEntryEnds(f)]_vars
  BY <1>1, <1>2
<1>3. QED BY <1>2, Invariant, PTL DEF Spec, EntriesEndForCause

-----------------------------------------------------------------------------
(* In which order requests are finished. *)

InHand(r) == \E w \in Workers : wtask[w] = r

Taken(r) == r \in finished \/ InHand(r)

(* A request is queued, in a worker's hand or finished; the queue is in    *)
(* the order of arrival, and behind all that has been taken from it; and   *)
(* who finished a request has never gone back to an older one.             *)
OrderInv ==
  /\ \A r \in Requests : Taken(r) \/ r \in ToSet(works)
  /\ \A r \in Requests, q \in ToSet(works) : Taken(r) => r < q
  /\ \A i, j \in 1 .. Len(works) : i < j => works[i] < works[j]
  /\ \A r \in finished : \E w \in Workers : wtask[w] \notin 1 .. r - 1

(* Steps that neither queue, nor take, nor finish a request. *)
LEMMA OrderFrame ==
  ASSUME OrderInv, UNCHANGED <<received, works, wtask, finished>>
  PROVE  OrderInv'
BY DEF OrderInv, Taken, InHand, Requests

(* A request is queued behind the older ones. *)
LEMMA HandOverKeepsOrder ==
  ASSUME IInv, OrderInv, HandOver
  PROVE  OrderInv'
<1> DEFINE n == Len(received) + 1
<1>1. TypeOK
  BY DEF IInv
<1>2. /\ raw \in Conns
      /\ received' = Append(received, raw) /\ works' = Append(works, n)
      /\ UNCHANGED <<wtask, finished>>
  BY DEF HandOver, IInv, OwnInv
<1>3. works \in Seq(Nat) /\ n \in Nat /\ Len(received) \in Nat /\ Len(works) \in Nat
  BY <1>1, SeqGrows DEF TypeOK, Requests
<1>4. /\ Len(received') = n
      /\ ToSet(works') = ToSet(works) \union {n}
      /\ Len(works') = Len(works) + 1
      /\ \A i \in 1 .. Len(works) : works'[i] = works[i]
      /\ works'[Len(works) + 1] = n
  <2>1. Len(received') = n
    BY <1>1, <1>2, Appended DEF TypeOK
  <2> HIDE DEF n
  <2>2. QED BY <1>2, <1>3, <2>1, Appended
<1>5. Requests' = Requests \union {n} /\ \A r \in Requests : r < n
  BY <1>3, <1>4 DEF Requests
<1>6. ToSet(works) \subseteq Requests /\ \A i \in 1 .. Len(works) : works[i] \in Requests
  BY <1>1, InSeq DEF TypeOK
<1>7. \A r : Taken(r)' <=> Taken(r)
  BY <1>2 DEF Taken, InHand
<1>8. ~Taken(n)
  BY <1>1, <1>3, <1>5 DEF Taken, InHand, TypeOK, NoTask
<1> HIDE DEF n
<1>9. \A r \in Requests' : Taken(r)' \/ r \in ToSet(works')
  BY <1>4, <1>5, <1>7 DEF OrderInv
<1>10. \A r \in Requests', q \in ToSet(works') : Taken(r)' => r < q
  BY <1>4, <1>5, <1>7, <1>8 DEF OrderInv
<1>11. ASSUME NEW i \in 1 .. Len(works'), NEW j \in 1 .. Len(works'), i < j
       PROVE  works'[i] < works'[j]
  <2>1. i \in 1 .. Len(works)
    BY <1>3, <1>4, <1>11
  <2>2. CASE j \in 1 .. Len(works)
    BY <1>4, <1>11, <2>1, <2>2 DEF OrderInv
  <2>3. CASE j = Len(works) + 1
    BY <1>4, <1>5, <1>6, <2>1, <2>3
  <2>4. QED BY <1>3, <1>4, <2>2, <2>3
<1>12. \A r \in finished' : \E w \in Workers : wtask'[w] \notin 1 .. r - 1
  BY <1>2 DEF OrderInv
<1>13. QED BY <1>9, <1>10, <1>11, <1>12 DEF OrderInv

(* The oldest queued request is younger than any that was taken before. *)
LEMMA TakeTaskKeepsOrder ==
  ASSUME IInv, OrderInv, NEW w \in Workers, TakeTask(w)
  PROVE  OrderInv'
<1> DEFINE h == Head(works)
<1>1. TypeOK
  BY DEF IInv
<1>2. /\ works # <<>> /\ works' = Tail(works)
      /\ wtask' = [wtask EXCEPT ![w] = h]
      /\ wpc[w] = "take"
      /\ UNCHANGED <<received, finished>>
  BY DEF TakeTask, WorkerStep, histVars
<1>3. wtask[w] = NoTask
  BY <1>2 DEF IInv, DeviceInv
<1>4. /\ h = works[1] /\ h \in Requests /\ h \in ToSet(works)
      /\ Len(works') = Len(works) - 1
      /\ \A i \in 1 .. Len(works') : works'[i] = works[i + 1]
      /\ ToSet(works) = ToSet(works') \union {h}
      /\ works' \in Seq(Requests)
  BY <1>1, <1>2, HeadTail DEF TypeOK
<1>5. Len(works) \in Nat /\ Len(works') \in Nat
  BY <1>1, <1>4 DEF TypeOK
<1>6. Requests' = Requests /\ Requests \subseteq Nat
  BY <1>2 DEF Requests
<1>7. wtask'[w] = h /\ \A v \in Workers : v # w => wtask'[v] = wtask[v]
  BY <1>1, <1>2 DEF TypeOK
<1> HIDE DEF h
<1>8. \A r \in Requests : Taken(r)' <=> Taken(r) \/ r = h
  BY <1>2, <1>3, <1>7 DEF Taken, InHand, Requests, NoTask
<1>9. \A q \in ToSet(works') : h < q
  <2> SUFFICES ASSUME NEW q \in ToSet(works') PROVE h < q
    OBVIOUS
  <2>1. PICK i \in 1 .. Len(works') : q = works'[i]
    BY <1>4, InSeq
  <2>2. q = works[i + 1] /\ i + 1 \in 1 .. Len(works) /\ 1 \in 1 .. Len(works) /\ 1 < i + 1
    BY <1>4, <1>5, <2>1
  <2>3. QED BY <1>4, <2>2 DEF OrderInv
<1>10. \A r \in Requests' : Taken(r)' \/ r \in ToSet(works')
  BY <1>4, <1>6, <1>8 DEF OrderInv
<1>11. \A r \in Requests', q \in ToSet(works') : Taken(r)' => r < q
  BY <1>4, <1>6, <1>8, <1>9 DEF OrderInv
<1>12. ASSUME NEW i \in 1 .. Len(works'), NEW j \in 1 .. Len(works'), i < j
       PROVE  works'[i] < works'[j]
  <2>1. i + 1 \in 1 .. Len(works) /\ j + 1 \in 1 .. Len(works) /\ i + 1 < j + 1
    BY <1>4, <1>5, <1>12
  <2>2. QED BY <1>4, <2>1 DEF OrderInv
<1>13. ASSUME NEW r \in finished' PROVE \E v \in Workers : wtask'[v] \notin 1 .. r - 1
  <2>1. r \in Requests /\ r < h
    BY <1>1, <1>2, <1>4, <1>13 DEF TypeOK, OrderInv, Taken
  <2>2. wtask'[w] \notin 1 .. r - 1
    BY <1>4, <1>6, <1>7, <2>1
  <2>3. QED BY <2>2
<1>14. QED BY <1>10, <1>11, <1>12, <1>13 DEF OrderInv

(* What a worker had in hand is finished. *)
LEMMA ReturnKeepsOrder ==
  ASSUME IInv, OrderInv, NEW w \in Workers, Return(w)
  PROVE  OrderInv'
<1>1. TypeOK
  BY DEF IInv
<1>2. /\ wtask' = [wtask EXCEPT ![w] = NoTask]
      /\ finished' = finished \union {wtask[w]}
      /\ UNCHANGED <<received, works>>
  BY DEF Return
<1>3. /\ wtask'[w] = NoTask
      /\ \A v \in Workers : v # w => wtask'[v] = wtask[v]
  BY <1>1, <1>2 DEF TypeOK
<1>4. Requests' = Requests /\ Requests \subseteq Nat \ {NoTask}
  BY <1>2 DEF Requests, NoTask
<1>5. \A r \in Requests : Taken(r)' <=> Taken(r)
  BY <1>2, <1>3, <1>4 DEF Taken, InHand
<1>6. ASSUME NEW r \in finished' PROVE \E v \in Workers : wtask'[v] \notin 1 .. r - 1
  BY <1>3 DEF NoTask
<1>7. QED BY <1>2, <1>4, <1>5, <1>6 DEF OrderInv

(* The order at the start ... *)
LEMMA InitOrder ==
  ASSUME Init
  PROVE  OrderInv
<1>1. works = <<>> /\ Len(works) = 0 /\ DOMAIN works = {} /\ received = <<>> /\ Len(received) = 0
      /\ finished = {}
  BY DEF Init
<1>2. ToSet(works) = {} /\ Requests = {}
  BY <1>1 DEF ToSet, Requests
<1>3. QED BY <1>1, <1>2 DEF OrderInv

(* ... is kept by every step. *)
LEMMA NextOrder ==
  ASSUME IInv, OrderInv, [Next]_vars
  PROVE  OrderInv'
<1>1. CASE HandOver
  BY <1>1, HandOverKeepsOrder
<1>2. ASSUME NEW w \in Workers, TakeTask(w) \/ Return(w) PROVE OrderInv'
  BY <1>2, TakeTaskKeepsOrder, ReturnKeepsOrder
<1>3. ASSUME NEW w \in Workers, Worker(w), ~TakeTask(w), ~Return(w) PROVE OrderInv'
  <2>1. UNCHANGED <<received, works, wtask, finished>>
    BY <1>3 DEF Worker, Lookup, TornLookup, Process, ProcessNull, ProcessTogether, SendTest, Post,
       Die, workVars, histVars
  <2>2. QED BY <2>1, OrderFrame
<1>4. ASSUME Loop, ~HandOver PROVE OrderInv'
  <2>1. ASSUME NEW c \in Conns, HandleHangup(c) \/ HandleError(c) \/ HandleDangling(c)
                                  \/ HandleRead(c) \/ HandleWrite(c)
        PROVE  UNCHANGED <<received, works, wtask, finished>>
    BY <2>1 DEF HandleHangup, HandleError, HandleDangling, HandleRead, HandleWrite, Close, Die,
       workVars, histVars
  <2>2. ASSUME EpollWait \/ HandleTimer \/ ExpireFromLoop \/ ForgetInServer \/ FinishRead
                 \/ LoseConnection \/ HandleWakeup \/ SendInLoop \/ EndWakeup
        PROVE  UNCHANGED <<received, works, wtask, finished>>
    BY <2>2 DEF EpollWait, HandleTimer, ExpireFromLoop, ForgetInServer, FinishRead, LoseConnection,
       HandleWakeup, SendInLoop, EndWakeup, Die, workVars, histVars
  <2>3. QED BY <1>4, <2>1, <2>2, OrderFrame DEF Loop
<1>5. ASSUME UNCHANGED vars \/ InsertDevice \/ Environment \/ \E c \in Conns : Accept(c)
      PROVE  OrderInv'
  <2>1. UNCHANGED <<received, works, wtask, finished>>
    BY <1>5 DEF vars, InsertDevice, Environment, ClientSends, ClientCloses, PeerResets, Arrive,
       Accept, workVars, histVars
  <2>2. QED BY <2>1, OrderFrame
<1>6. QED BY <1>1, <1>2, <1>3, <1>4, <1>5 DEF Next

(* Each older unfinished request is in the hand of a worker other than the *)
(* one whose hand is free of them.                                         *)
LEMMA OrderBounds ==
  ASSUME IInv, OrderInv
  PROVE  OvertakingBounded
<1> SUFFICES ASSUME NEW r \in finished
             PROVE  Cardinality({q \in 1 .. r - 1 : q \notin finished}) < Cardinality(Workers)
  BY DEF OvertakingBounded
<1> DEFINE Older == {q \in 1 .. r - 1 : q \notin finished}
<1>1. r \in Requests /\ r \in Nat /\ Len(received) \in Nat
  BY DEF IInv, TypeOK, Requests
<1>2. PICK w \in Workers : wtask[w] \notin 1 .. r - 1
  BY DEF OrderInv
<1>3. ASSUME NEW q \in Older PROVE \E v \in Workers \ {w} : wtask[v] = q
  <2>1. q \in Requests /\ q < r /\ q \notin finished
    BY <1>1 DEF Requests
  <2>2. q \notin ToSet(works)
    BY <1>1, <2>1 DEF OrderInv, Taken
  <2>3. PICK v \in Workers : wtask[v] = q
    BY <2>1, <2>2 DEF OrderInv, Taken, InHand
  <2>4. QED BY <1>2, <2>3
<1> DEFINE hand == [q \in Older |-> CHOOSE v \in Workers \ {w} : wtask[v] = q]
<1>4. \A q \in Older : hand[q] \in Workers \ {w} /\ wtask[hand[q]] = q
  BY <1>3
<1>5. hand \in [Older -> Workers \ {w}]
  BY <1>4
<1> HIDE DEF hand, Older
<1>6. hand \in Injection(Older, Workers \ {w})
  BY <1>4, <1>5, Fun_IsInj
<1>7. IsFiniteSet(Workers \ {w}) /\ Cardinality(Workers \ {w}) = Cardinality(Workers) - 1
  BY FS_RemoveElement, WorkerAssumption
<1>8. Cardinality(Older) <= Cardinality(Workers) - 1 /\ IsFiniteSet(Older)
  BY <1>6, <1>7, FS_Injection
<1>9. Cardinality(Older) \in Nat /\ Cardinality(Workers) \in Nat
  BY <1>8, FS_CardinalityType, WorkerAssumption
<1>10. QED BY <1>8, <1>9 DEF Older

(* Workers overtake each other by less than their number: the requests     *)
(* older than a finished one that are not finished are in the hands of     *)
(* other workers (ThreadPool.cpp:27-31, Navigation.cpp:65).                *)
THEOREM OvertakingIsBounded == Spec => []OvertakingBounded
BY InitIInv, NextIInv, InitOrder, NextOrder, OrderBounds, PTL DEF Spec

-----------------------------------------------------------------------------
(* The pool as its detailed module gives it. *)

LEMMA HandOverSubmits ==
  ASSUME IInv, HandOver
  PROVE  Work!QueueNext
<1> DEFINE n == Len(received) + 1
<1>1. /\ works' = Append(works, n) /\ UNCHANGED <<wtask, finished>>
      /\ Len(received) < MaxRequests
  BY DEF HandOver, MoreRequests
<1>2. /\ Len(received) \in Nat /\ works \in Seq(Requests) /\ finished \subseteq Requests
      /\ wtask \in [Workers -> Requests \union {NoTask}]
  BY DEF IInv, TypeOK
<1>3. n \in 1 .. MaxRequests /\ n \notin Requests \union {NoTask}
  BY <1>1, <1>2, WorkerAssumption DEF Requests, NoTask
<1>4. n \notin ToSet(works) \union {wtask[w] : w \in Workers} \union finished
  BY <1>2, <1>3, InSeq
<1> HIDE DEF n
<1>5. Work!Submit(n)
  BY <1>1, <1>4 DEF Work!Submit, Work!ToSet, ToSet
<1>6. QED BY <1>3, <1>5 DEF Work!QueueNext

LEMMA WorkerUsesQueue ==
  ASSUME IInv, NEW w \in Workers, Worker(w)
  PROVE  [Work!QueueNext]_Work!queueVars
<1>1. CASE TakeTask(w)
  <2>1. /\ works # <<>> /\ works' = Tail(works) /\ wtask' = [wtask EXCEPT ![w] = Head(works)]
        /\ wpc[w] = "take" /\ finished' = finished
    BY <1>1 DEF TakeTask, WorkerStep, histVars
  <2>2. wtask[w] = NoTask
    BY <2>1 DEF IInv, DeviceInv
  <2>3. QED BY <2>1, <2>2 DEF Work!TakeOldest, Work!QueueNext
<1>2. CASE Return(w)
  <2>1. /\ wtask' = [wtask EXCEPT ![w] = NoTask] /\ finished' = finished \union {wtask[w]}
        /\ wpc[w] = "return" /\ works' = works
    BY <1>2 DEF Return, WorkerStep
  <2>2. wtask[w] # NoTask
    BY <2>1 DEF IInv, DeviceInv
  <2>3. QED BY <2>1, <2>2 DEF Work!Complete, Work!QueueNext
<1>3. CASE Lookup(w) \/ TornLookup(w) \/ Process(w) \/ ProcessNull(w) \/ ProcessTogether(w)
             \/ SendTest(w) \/ Post(w)
  BY <1>3 DEF Lookup, TornLookup, Process, ProcessNull, ProcessTogether, SendTest, Post, Die,
     workVars, histVars, Work!queueVars
<1>4. QED BY <1>1, <1>2, <1>3 DEF Worker

(* What the server with worker threads does with the pool is what the      *)
(* pool's abstract specification allows, the requests numbered as they     *)
(* come (Navigation.cpp:65, ThreadPool.cpp:27-31).                         *)
THEOREM WorkersUseTheWorkQueue == Spec => UsesWorkQueue
<1>1. Init => Work!QueueInit
  BY DEF Init, Work!QueueInit
<1>2. ASSUME IInv, [Next]_vars PROVE [Work!QueueNext]_Work!queueVars
  <2>1. CASE HandOver
    BY <1>2, <2>1, HandOverSubmits
  <2>2. ASSUME NEW w \in Workers, Worker(w) PROVE [Work!QueueNext]_Work!queueVars
    BY <1>2, <2>2, WorkerUsesQueue
  <2>3. ASSUME NEW c \in Conns, HandleHangup(c) \/ HandleError(c) \/ HandleDangling(c)
                                  \/ HandleRead(c) \/ HandleWrite(c)
        PROVE  UNCHANGED Work!queueVars
    BY <2>3 DEF HandleHangup, HandleError, HandleDangling, HandleRead, HandleWrite, Close, Die,
       workVars, histVars, Work!queueVars
  <2>4. ASSUME EpollWait \/ HandleTimer \/ ExpireFromLoop \/ ForgetInServer \/ FinishRead
                 \/ LoseConnection \/ HandleWakeup \/ SendInLoop \/ EndWakeup
        PROVE  UNCHANGED Work!queueVars
    BY <2>4 DEF EpollWait, HandleTimer, ExpireFromLoop, ForgetInServer, FinishRead, LoseConnection,
       HandleWakeup, SendInLoop, EndWakeup, Die, workVars, histVars, Work!queueVars
  <2>5. ASSUME UNCHANGED vars \/ InsertDevice \/ Environment \/ \E c \in Conns : Accept(c)
        PROVE  UNCHANGED Work!queueVars
    BY <2>5 DEF vars, InsertDevice, Environment, ClientSends, ClientCloses, PeerResets, Arrive,
       Accept, workVars, histVars, Work!queueVars
  <2>6. QED BY <1>2, <2>1, <2>2, <2>3, <2>4, <2>5 DEF Next, Loop
<1>3. QED
  BY InitIInv, NextIInv, <1>1, <1>2, PTL DEF Spec, UsesWorkQueue, Work!QueueSpec
=============================================================================
