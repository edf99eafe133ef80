------------------------- MODULE ConnLifecycleProofs -------------------------
(***************************************************************************)
(* The connection tables, for any number of connections, descriptors and   *)
(* event loops.                                                            *)
(***************************************************************************)
EXTENDS ConnLifecycle, TLAPS

(* References are to live Connections: newConnection's local and the copy  *)
(* a callback works on keep theirs alive.                                  *)
RefInv ==
  /\ mconn # NoConn => Alive(mconn)
  /\ mpc # "accept" => mconn # NoConn
  /\ \A l \in Loops : cur[l] # NoConn => Alive(cur[l])
  /\ \A l \in Loops : lpc[l] \in {"lookup", "close_device", "close_server"} => cur[l] # NoConn
  /\ \A c \in Conns : Alive(c) => fdOf[c] \in Fds

IInv ==
  /\ TypeOK
  /\ TablesAgree
  /\ RefInv

-----------------------------------------------------------------------------
(* The server starts with empty tables. *)
THEOREM InitIInv == Init => IInv
<1> SUFFICES ASSUME Init PROVE IInv
  OBVIOUS
<1> USE ConstantsAssumption DEF Init
<1>1. TypeOK
  BY DEF TypeOK, MainPCs, LoopPCs, Faults
<1>2. TablesAgree
  BY DEF TablesAgree, Alive
<1>3. RefInv
  BY DEF RefInv, Alive
<1>4. QED BY <1>1, <1>2, <1>3 DEF IInv

-----------------------------------------------------------------------------
(* What a step does to the references: it drops some, and may enter the    *)
(* connection being accepted at its own descriptor.                        *)
RefsShrink ==
  /\ mconn' \in {mconn, NoConn}
  /\ \A l \in Loops : cur'[l] \in {cur[l], NoConn}
  /\ \A f \in Fds :
       /\ \/ m_ConnectionMap'[f] \in {m_ConnectionMap[f], NoConn}
          \/ m_ConnectionMap'[f] = mconn /\ mconn # NoConn /\ fdOf[mconn] = f
       /\ \/ m_elConnectionMap'[f] \in {m_elConnectionMap[f], NoConn}
          \/ m_elConnectionMap'[f] = mconn /\ mconn # NoConn /\ fdOf[mconn] = f

(* After such a step, ~Connection has run for exactly what nothing refers  *)
(* to any more, so the tables and references still name live Connections.  *)
LEMMA DestroyKeeps ==
  IInv /\ RefsShrink /\ DestroyUnheld =>
    /\ TablesAgree'
    /\ mconn' # NoConn => Alive(mconn)'
    /\ \A l \in Loops : cur'[l] # NoConn => Alive(cur[l])'
    /\ \A c \in Conns : Alive(c)' => fdOf'[c] \in Fds
    /\ phase' \in [Conns -> {"unborn", "alive", "destroyed"}]
    /\ inTree' \in [Conns -> BOOLEAN]
    /\ edge' \in [Conns -> BOOLEAN]
    /\ sock' \in [Conns -> {"quiet", "data", "fin", "err"}]
<1> SUFFICES ASSUME IInv, RefsShrink, DestroyUnheld
             PROVE  /\ TablesAgree'
                    /\ mconn' # NoConn => Alive(mconn)'
                    /\ \A l \in Loops : cur'[l] # NoConn => Alive(cur[l])'
                    /\ \A c \in Conns : Alive(c)' => fdOf'[c] \in Fds
                    /\ phase' \in [Conns -> {"unborn", "alive", "destroyed"}]
                    /\ inTree' \in [Conns -> BOOLEAN]
                    /\ edge' \in [Conns -> BOOLEAN]
                    /\ sock' \in [Conns -> {"quiet", "data", "fin", "err"}]
  OBVIOUS
<1> USE ConstantsAssumption
<1>1. /\ phase' \in [Conns -> {"unborn", "alive", "destroyed"}]
      /\ inTree' \in [Conns -> BOOLEAN]
      /\ edge' \in [Conns -> BOOLEAN]
      /\ sock' \in [Conns -> {"quiet", "data", "fin", "err"}]
  BY DEF DestroyUnheld, IInv, TypeOK
<1>2. fdOf' = fdOf
  BY DEF DestroyUnheld
<1>3. ASSUME NEW c \in Conns, Alive(c)' PROVE Alive(c)
  BY <1>3 DEF DestroyUnheld, Alive, IInv, TypeOK
<1>4. ASSUME NEW c \in Conns, Alive(c), Held(c)' PROVE Alive(c)'
  BY <1>4 DEF DestroyUnheld, Alive
<1>5. mconn' # NoConn => Alive(mconn)'
  <2>1. SUFFICES ASSUME mconn' # NoConn PROVE Alive(mconn)'
    OBVIOUS
  <2>2. mconn' = mconn /\ mconn \in Conns /\ Alive(mconn)
    BY <2>1 DEF RefsShrink, IInv, TypeOK, RefInv
  <2>3. Held(mconn)'
    BY DEF Held
  <2>4. QED BY <1>4, <2>2, <2>3 DEF Alive
<1>6. ASSUME NEW l \in Loops, cur'[l] # NoConn PROVE Alive(cur[l])'
  <2>1. cur'[l] = cur[l] /\ cur[l] \in Conns /\ Alive(cur[l])
    BY <1>6 DEF RefsShrink, IInv, TypeOK, RefInv
  <2>2. ASSUME NEW c \in Conns, c = cur'[l] PROVE Held(c)'
    BY <2>2 DEF Held
  <2>3. QED BY <1>4, <2>1, <2>2 DEF Alive
<1>7. ASSUME NEW f \in Fds, NEW c \in {m_ConnectionMap'[f], m_elConnectionMap'[f]}, c # NoConn
      PROVE  c \in Conns /\ Alive(c)' /\ fdOf'[c] = f
  <2>1. \/ c \in {m_ConnectionMap[f], m_elConnectionMap[f]}
        \/ c = mconn /\ fdOf[mconn] = f
    BY <1>7 DEF RefsShrink
  <2>2. c \in Conns /\ Alive(c) /\ fdOf[c] = f
    BY <1>7, <2>1 DEF IInv, TypeOK, TablesAgree, RefInv
  <2>3. Held(c)'
    BY <1>7 DEF Held
  <2>4. QED BY <1>2, <1>4, <2>2, <2>3
<1>8. TablesAgree'
  <2>1. \A c, d \in Conns : Alive(c)' /\ Alive(d)' /\ fdOf'[c] = fdOf'[d] => c = d
    BY <1>2, <1>3 DEF TablesAgree, IInv
  <2>2. \A f \in Fds : \A c \in {m_ConnectionMap'[f], m_elConnectionMap'[f]} \ {NoConn} :
          Alive(c)' /\ fdOf'[c] = f
    BY <1>7
  <2>3. QED BY <2>1, <2>2 DEF TablesAgree
<1>9. \A c \in Conns : Alive(c)' => fdOf'[c] \in Fds
  BY <1>2, <1>3 DEF IInv, RefInv
<1>10. QED BY <1>1, <1>5, <1>6, <1>8, <1>9

-----------------------------------------------------------------------------
(* Every step of the main thread keeps the invariant. *)
LEMMA MainKeepsIInv == IInv /\ Main => IInv'
<1> SUFFICES ASSUME IInv, Main PROVE IInv'
  OBVIOUS
<1> USE ConstantsAssumption DEF IInv, TypeOK, MainPCs, LoopPCs, Faults
<1>1. ASSUME NEW c \in Conns, Accept(c) PROVE IInv'
  <2>1. PICK f \in FreeFds : fdOf' = [fdOf EXCEPT ![c] = f]
    BY <1>1 DEF Accept
  <2>2. /\ mpc = "accept" /\ phase[c] = "unborn"
        /\ phase' = [phase EXCEPT ![c] = "alive"]
        /\ inTree' = [inTree EXCEPT ![c] = TRUE]
        /\ mconn' = c /\ mpc' = "wire"
        /\ UNCHANGED <<wired, m_disconnect, idle, edge, sock, mapVars, loopVars, fault>>
    BY <1>1 DEF Accept
  <2>3. f \in Fds /\ \A d \in Conns : Alive(d) => fdOf[d] # f
    BY <2>1 DEF FreeFds
  <2>4. TypeOK'
    BY <2>1, <2>2, <2>3 DEF mapVars, loopVars
  <2>5. TablesAgree'
    BY <2>1, <2>2, <2>3 DEF TablesAgree, Alive, mapVars
  <2>6. RefInv'
    BY <2>1, <2>2, <2>3 DEF RefInv, Alive, loopVars
  <2>7. QED BY <2>4, <2>5, <2>6
<1>2. ASSUME AcceptExhausted \/ WireCallbacks \/ LockLoopMap \/ LockDeviceMap \/ InsertDevice
      PROVE  IInv'
  <2>1. UNCHANGED <<phase, fdOf, m_ConnectionMap, m_elConnectionMap, mconn, cur, lpc>>
    BY <1>2 DEF AcceptExhausted, Die, WireCallbacks, LockLoopMap, LockDeviceMap, InsertDevice,
       objVars, mapVars, mainVars, loopVars
  <2>2. TypeOK'
    <3>1. CASE AcceptExhausted
      BY <3>1 DEF AcceptExhausted, Die, objVars, netVars, mapVars, mainVars, loopVars
    <3>2. CASE WireCallbacks
      BY <3>2 DEF WireCallbacks, MainStep, netVars, mapVars, loopVars
    <3>3. CASE LockLoopMap
      BY <3>3 DEF LockLoopMap, MainStep, objVars, netVars, mapVars, loopVars
    <3>4. CASE LockDeviceMap
      BY <3>4 DEF LockDeviceMap, MainStep, objVars, netVars, mapVars, loopVars
    <3>5. CASE InsertDevice
      BY <3>5 DEF InsertDevice, MainStep, objVars, netVars, loopVars
    <3>6. QED BY <1>2, <3>1, <3>2, <3>3, <3>4, <3>5
  <2>3. TablesAgree'
    BY <2>1 DEF TablesAgree, Alive
  <2>4. mpc' # "accept" => mpc # "accept"
    BY <1>2 DEF AcceptExhausted, Die, WireCallbacks, LockLoopMap, LockDeviceMap, InsertDevice,
       MainStep, mainVars
  <2>5. RefInv'
    BY <2>1, <2>4 DEF RefInv, Alive
  <2>6. QED BY <2>2, <2>3, <2>5
<1>3. ASSUME InsertServerMap PROVE IInv'
  <2>1. /\ mpc = "server_map" /\ mpc' = "loop_map"
        /\ m_ConnectionMap' = [m_ConnectionMap EXCEPT ![fdOf[mconn]] = mconn]
        /\ UNCHANGED <<m_elConnectionMap, m_deviceInfoMap, mconn, loopVars, fault>>
        /\ DestroyUnheld
    BY <1>3 DEF InsertServerMap, MainStep
  <2>2. RefsShrink
    BY <2>1 DEF RefsShrink, RefInv, loopVars
  <2>3. TypeOK'
    BY <2>1, <2>2, DestroyKeeps DEF DestroyUnheld, loopVars
  <2>4. TablesAgree' /\ RefInv'
    BY <2>1, <2>2, DestroyKeeps DEF RefInv, loopVars
  <2>5. QED BY <2>3, <2>4
<1>4. ASSUME InsertLoopMap PROVE IInv'
  <2>1. /\ mpc = "loop_map_locked" /\ mpc' = "device_map"
        /\ m_elConnectionMap' = [m_elConnectionMap EXCEPT ![fdOf[mconn]] = mconn]
        /\ UNCHANGED <<m_ConnectionMap, m_deviceInfoMap, mconn, loopVars, fault>>
        /\ DestroyUnheld
    BY <1>4 DEF InsertLoopMap, MainStep
  <2>2. RefsShrink
    BY <2>1 DEF RefsShrink, RefInv, loopVars
  <2>3. TypeOK'
    BY <2>1, <2>2, DestroyKeeps DEF DestroyUnheld, loopVars
  <2>4. TablesAgree' /\ RefInv'
    BY <2>1, <2>2, DestroyKeeps DEF RefInv, loopVars
  <2>5. QED BY <2>3, <2>4
<1>5. ASSUME ReturnToLoop PROVE IInv'
  <2>1. /\ mpc' = "accept" /\ mconn' = NoConn
        /\ UNCHANGED <<mapVars, loopVars, fault>>
        /\ DestroyUnheld
    BY <1>5 DEF ReturnToLoop, MainStep
  <2>2. RefsShrink
    BY <2>1 DEF RefsShrink, mapVars, loopVars
  <2>3. TypeOK'
    BY <2>1, <2>2, DestroyKeeps DEF DestroyUnheld, mapVars, loopVars
  <2>4. TablesAgree' /\ RefInv'
    BY <2>1, <2>2, DestroyKeeps DEF RefInv, loopVars
  <2>5. QED BY <2>3, <2>4
<1>6. QED BY <1>1, <1>2, <1>3, <1>4, <1>5 DEF Main

(* Every step of an I/O thread keeps the invariant. *)
LEMMA LoopKeepsIInv ==
  ASSUME NEW l \in Loops, IInv, Loop(l)
  PROVE  IInv'
<1> USE ConstantsAssumption DEF IInv, TypeOK, MainPCs, LoopPCs, Faults
<1>1. CASE EpollWait(l)
  <2>1. Ready(l) \subseteq Conns \union {Timer}
    BY DEF Ready
  <2>2. TypeOK'
    BY <1>1, <2>1 DEF EpollWait, objVars, mapVars, mainVars
  <2>3. TablesAgree' /\ RefInv'
    BY <1>1 DEF EpollWait, objVars, mapVars, mainVars, TablesAgree, RefInv, Alive
  <2>4. QED BY <2>2, <2>3
<1>2. ASSUME NEW c \in Conns, HandleDangling(l, c) \/ HandleUnwired(l, c) PROVE IInv'
  BY <1>2 DEF HandleDangling, HandleUnwired, Die, objVars, netVars, mapVars, mainVars, loopVars,
     TablesAgree, RefInv, Alive
<1>3. ASSUME NEW c \in Conns, HandleRead(l, c) PROVE IInv'
  <2>1. /\ Alive(c)
        /\ batch' = [batch EXCEPT ![l] = @ \ {c}]
        /\ sock' = [sock EXCEPT ![c] = "quiet"]
        /\ edge' = [edge EXCEPT ![c] = FALSE]
        /\ UNCHANGED <<phase, fdOf, wired, m_disconnect, inTree, mapVars, mainVars,
                       m_timeoutFdQueue, timerDue, fault>>
        /\ \/ UNCHANGED <<lpc, cur, idle>>
           \/ /\ idle' = [idle EXCEPT ![c] = FALSE]
              /\ cur' = [cur EXCEPT ![l] = c]
              /\ lpc' = [lpc EXCEPT ![l] = "lookup"]
    BY <1>3 DEF HandleRead, Take
  <2>2. TypeOK'
    <3>1. /\ idle' \in [Conns -> BOOLEAN]
          /\ cur' \in [Loops -> Conns \union {NoConn}]
          /\ lpc' \in [Loops -> LoopPCs]
      <4>1. CASE UNCHANGED <<lpc, cur, idle>>
        BY <4>1
      <4>2. CASE /\ idle' = [idle EXCEPT ![c] = FALSE]
                 /\ cur' = [cur EXCEPT ![l] = c]
                 /\ lpc' = [lpc EXCEPT ![l] = "lookup"]
        BY <4>2
      <4>3. QED BY <2>1, <4>1, <4>2
    <3>2. /\ batch' \in [Loops -> SUBSET (Conns \union {Timer})]
          /\ sock' \in [Conns -> {"quiet", "data", "fin", "err"}]
          /\ edge' \in [Conns -> BOOLEAN]
      BY <2>1
    <3>3. QED BY <2>1, <3>1, <3>2 DEF mapVars, mainVars
  <2>3. TablesAgree'
    BY <2>1 DEF TablesAgree, Alive, mapVars
  <2>4. RefInv'
    BY <2>1 DEF RefInv, Alive, mainVars
  <2>5. QED BY <2>2, <2>3, <2>4
<1>4. ASSUME NEW c \in Conns, HandleHangup(l, c) PROVE IInv'
  <2>1. /\ Alive(c)
        /\ batch' = [batch EXCEPT ![l] = @ \ {c}]
        /\ m_disconnect' = [m_disconnect EXCEPT ![c] = TRUE]
        /\ inTree' = [inTree EXCEPT ![c] = FALSE]
        /\ edge' = [edge EXCEPT ![c] = FALSE]
        /\ cur' = [cur EXCEPT ![l] = c]
        /\ lpc' = [lpc EXCEPT ![l] = "close_device"]
        /\ UNCHANGED <<phase, fdOf, wired, idle, sock, mapVars, mainVars,
                       m_timeoutFdQueue, timerDue, fault>>
    BY <1>4 DEF HandleHangup, Take
  <2>2. TypeOK'
    BY <2>1 DEF mapVars, mainVars
  <2>3. TablesAgree'
    BY <2>1 DEF TablesAgree, Alive, mapVars
  <2>4. RefInv'
    BY <2>1 DEF RefInv, Alive, mainVars
  <2>5. QED BY <2>2, <2>3, <2>4
<1>5. CASE LookupDevice(l)
  <2>1. CASE Die("null_device") \/ Die("torn_map")
    BY <2>1 DEF Die, objVars, netVars, mapVars, mainVars, loopVars, TablesAgree, RefInv, Alive
  <2>2. CASE ~Die("null_device") /\ ~Die("torn_map")
    <3> DEFINE f == fdOf[cur[l]]
               found == IF m_deviceInfoMap[f] = NoConn THEN NullDevice ELSE m_deviceInfoMap[f]
    <3>1. /\ lpc[l] = "lookup" /\ lpc' = [lpc EXCEPT ![l] = "loop"]
          /\ m_deviceInfoMap' = [m_deviceInfoMap EXCEPT ![f] = found]
          /\ cur' = [cur EXCEPT ![l] = NoConn]
          /\ UNCHANGED <<m_ConnectionMap, m_elConnectionMap, mainVars, batch,
                         m_timeoutFdQueue, timerDue, fault>>
          /\ DestroyUnheld
      BY <1>5, <2>2 DEF LookupDevice, LoopStep
    <3>2. f \in Fds /\ found \in Conns \union {NoConn, NullDevice}
      BY <3>1 DEF RefInv
    <3>3. RefsShrink
      BY <3>1 DEF RefsShrink, mainVars
    <3> HIDE DEF f, found
    <3>4. TypeOK'
      BY <3>1, <3>2, <3>3, DestroyKeeps DEF DestroyUnheld, mainVars
    <3>5. TablesAgree' /\ RefInv'
      BY <3>1, <3>3, DestroyKeeps DEF RefInv, mainVars
    <3>6. QED BY <3>4, <3>5
  <2>3. QED BY <2>1, <2>2
<1>6. CASE CloseDevice(l)
  <2>1. TypeOK'
    BY <1>6 DEF CloseDevice, LoopStep, objVars, netVars, mainVars
  <2>2. TablesAgree' /\ RefInv'
    BY <1>6 DEF CloseDevice, LoopStep, objVars, mainVars, TablesAgree, RefInv, Alive
  <2>3. QED BY <2>1, <2>2
<1>7. CASE CloseServer(l)
  <2>1. /\ lpc' = [lpc EXCEPT ![l] = "loop"]
        /\ m_ConnectionMap' = [m_ConnectionMap EXCEPT ![fdOf[cur[l]]] = NoConn]
        /\ cur' = [cur EXCEPT ![l] = NoConn]
        /\ UNCHANGED <<m_elConnectionMap, m_deviceInfoMap, mainVars, batch,
                       m_timeoutFdQueue, timerDue, fault>>
        /\ DestroyUnheld
    BY <1>7 DEF CloseServer, LoopStep
  <2>2. RefsShrink
    BY <2>1 DEF RefsShrink, mainVars
  <2>3. TypeOK'
    BY <2>1, <2>2, DestroyKeeps DEF DestroyUnheld, mainVars
  <2>4. TablesAgree' /\ RefInv'
    BY <2>1, <2>2, DestroyKeeps DEF RefInv, mainVars
  <2>5. QED BY <2>3, <2>4
<1>8. CASE HandleTimer(l)
  <2>1. TypeOK'
    BY <1>8 DEF HandleTimer, Take, LoopStep, objVars, netVars, mapVars, mainVars
  <2>2. TablesAgree' /\ RefInv'
    BY <1>8 DEF HandleTimer, LoopStep, objVars, mapVars, mainVars, TablesAgree, RefInv, Alive
  <2>3. QED BY <2>1, <2>2
<1>9. CASE Scan(l)
  <2>1. CASE Die("torn_map")
    BY <2>1 DEF Die, objVars, netVars, mapVars, mainVars, loopVars, TablesAgree, RefInv, Alive
  <2>2. CASE ~Die("torn_map")
    <3>1. Expired(l) \subseteq Fds
      BY DEF Expired
    <3>2. /\ lpc' \in [Loops -> LoopPCs]
          /\ \A k \in Loops : lpc'[k] = lpc[k] \/ lpc'[k] \in {"loop", "expire"}
          /\ m_timeoutFdQueue' = [m_timeoutFdQueue EXCEPT ![l] = Expired(l)]
          /\ UNCHANGED <<objVars, netVars, mapVars, mainVars, batch, cur, timerDue, fault>>
      BY <1>9, <2>2 DEF Scan, LoopStep
    <3>3. TypeOK'
      BY <3>1, <3>2 DEF objVars, netVars, mapVars, mainVars
    <3>4. TablesAgree'
      BY <3>2 DEF objVars, mapVars, TablesAgree, Alive
    <3>5. RefInv'
      BY <3>2 DEF objVars, mainVars, RefInv, Alive
    <3>6. QED BY <3>3, <3>4, <3>5
  <2>3. QED BY <2>1, <2>2
<1>10. CASE ExpireFromLoop(l)
  <2>1. PICK f \in Fds : m_elConnectionMap' = [m_elConnectionMap EXCEPT ![f] = NoConn]
    BY <1>10 DEF ExpireFromLoop
  <2>2. /\ lpc' = [lpc EXCEPT ![l] = "forget"]
        /\ UNCHANGED <<m_ConnectionMap, m_deviceInfoMap, mainVars, batch, cur,
                       m_timeoutFdQueue, timerDue, fault>>
        /\ DestroyUnheld
    BY <1>10 DEF ExpireFromLoop, LoopStep
  <2>3. RefsShrink
    BY <2>1, <2>2 DEF RefsShrink, mainVars
  <2>4. TypeOK'
    BY <2>1, <2>2, <2>3, DestroyKeeps DEF DestroyUnheld, mainVars
  <2>5. TablesAgree' /\ RefInv'
    BY <2>2, <2>3, DestroyKeeps DEF RefInv, mainVars
  <2>6. QED BY <2>4, <2>5
<1>11. CASE ForgetInServer(l)
  <2>1. PICK f \in Fds :
          /\ lpc' = [lpc EXCEPT ![l] = IF m_timeoutFdQueue[l] = {f} THEN "loop" ELSE "expire"]
          /\ m_ConnectionMap' = [m_ConnectionMap EXCEPT ![f] = NoConn]
          /\ m_timeoutFdQueue' = [m_timeoutFdQueue EXCEPT ![l] = @ \ {f}]
    BY <1>11 DEF ForgetInServer, LoopStep
  <2>2. /\ UNCHANGED <<m_elConnectionMap, m_deviceInfoMap, mainVars, batch, cur, timerDue, fault>>
        /\ DestroyUnheld
    BY <1>11 DEF ForgetInServer
  <2>3. RefsShrink
    BY <2>1, <2>2 DEF RefsShrink, mainVars
  <2>4. TypeOK'
    BY <2>1, <2>2, <2>3, DestroyKeeps DEF DestroyUnheld, mainVars
  <2>5. TablesAgree' /\ RefInv'
    BY <2>1, <2>2, <2>3, DestroyKeeps DEF RefInv, mainVars
  <2>6. QED BY <2>4, <2>5
<1>12. QED
  BY <1>1, <1>2, <1>3, <1>4, <1>5, <1>6, <1>7, <1>8, <1>9, <1>10, <1>11 DEF Loop

(* Clients, network and clock do not touch the tables. *)
LEMMA EnvironmentKeepsIInv == IInv /\ Environment => IInv'
<1> SUFFICES ASSUME IInv, Environment PROVE IInv'
  OBVIOUS
<1> USE ConstantsAssumption DEF IInv, TypeOK, MainPCs, LoopPCs, Faults
<1>1. UNCHANGED <<phase, fdOf, mapVars, mainVars, lpc, cur>>
  BY DEF Environment, NetworkEvent, GrowIdle, TimerExpires, objVars, loopVars
<1>2. TypeOK'
  <2>1. ASSUME NEW c \in Conns, NEW what \in {"data", "fin", "err"}, NetworkEvent(c, what)
        PROVE  TypeOK'
    BY <2>1 DEF NetworkEvent, objVars, mapVars, mainVars, loopVars
  <2>2. ASSUME NEW c \in Conns, GrowIdle(c) PROVE TypeOK'
    BY <2>2 DEF GrowIdle, netVars, mapVars, mainVars, loopVars
  <2>3. ASSUME NEW l \in Loops, TimerExpires(l) PROVE TypeOK'
    BY <2>3 DEF TimerExpires, objVars, netVars, mapVars, mainVars
  <2> HIDE DEF IInv, TypeOK, MainPCs, LoopPCs, Faults
  <2>4. QED BY <2>1, <2>2, <2>3 DEF Environment
<1>3. TablesAgree' /\ RefInv'
  BY <1>1 DEF TablesAgree, RefInv, Alive, mapVars, mainVars
<1>4. QED BY <1>2, <1>3

(* IInv is inductive. *)
THEOREM NextIInv == IInv /\ [Next]_vars => IInv'
<1> SUFFICES ASSUME IInv, [Next]_vars PROVE IInv'
  OBVIOUS
<1>1. CASE UNCHANGED vars
  BY <1>1 DEF IInv, TypeOK, TablesAgree, RefInv, Alive,
     vars, objVars, netVars, mapVars, mainVars, loopVars
<1>2. QED
  BY <1>1, MainKeepsIInv, LoopKeepsIInv, EnvironmentKeepsIInv DEF Next

(* The server's state stays within its types. *)
THEOREM TypeCorrect == Spec => []TypeOK
<1>1. IInv => TypeOK
  BY DEF IInv
<1>2. QED BY InitIInv, NextIInv, <1>1, PTL DEF Spec

(* Both tables only ever name live Connections, each at its own descriptor. *)
THEOREM TablesAlwaysAgree == Spec => []TablesAgree
<1>1. IInv => TablesAgree
  BY DEF IInv
<1>2. QED BY InitIInv, NextIInv, <1>1, PTL DEF Spec

-----------------------------------------------------------------------------
(***************************************************************************)
(* Which connections the idle timer finds and what a step may take away    *)
(* from a connection, however long newConnection takes.                    *)
(***************************************************************************)

(* Where the threads' local references are in use. *)
PlaceInv ==
  /\ mpc = "accept" => mconn = NoConn
  /\ \A l \in Loops :
       /\ lpc[l] \notin {"lookup", "close_device", "close_server"} => cur[l] = NoConn
       /\ lpc[l] \in {"close_device", "close_server"} => m_disconnect[cur[l]]

(* What a Channel's registration and a batch say of a Connection. *)
EventInv ==
  /\ \A c \in Conns : phase[c] # "unborn" => fdOf[c] \in Fds
  /\ \A c \in Conns : inTree[c] => Alive(c)
  /\ \A c \in Conns : m_disconnect[c] => phase[c] # "unborn"
  /\ \A l \in Loops, c \in Conns :
       c \in batch[l] => phase[c] # "unborn" /\ LoopOf(fdOf[c]) = l

(* What handleTimer has queued is still expired when it is erased. *)
QueueInv ==
  \A l \in Loops, f \in Fds : f \in m_timeoutFdQueue[l] =>
    /\ LoopOf(f) = l
    /\ \/ /\ lpc[l] \in {"expire", "forget"}
          /\ m_elConnectionMap[f] # NoConn /\ idle[m_elConnectionMap[f]]
       \/ lpc[l] = "forget" /\ Lowest(f, m_timeoutFdQueue[l])

(* addNewConnection finds no entry at its descriptor. *)
FreshInv ==
  mpc \in {"wire", "server_map", "loop_map", "loop_map_locked"} =>
    m_elConnectionMap[fdOf[mconn]] = NoConn

(* Between the two erasures of handleTimer for the descriptor of c. *)
BetweenErasures(c) ==
  \E l \in Loops : lpc[l] = "forget" /\ Lowest(fdOf[c], m_timeoutFdQueue[l]) /\ idle[c]

(* What TcpServer's table holds the loop's table holds too. *)
TrackInv ==
  \A c \in Conns, f \in Fds :
    m_ConnectionMap[f] = c /\ Entered(c) =>
      m_elConnectionMap[f] = c \/ BetweenErasures(c)

(* newConnection has made the device entry once it is about to return. *)
DeviceInv ==
  \A c \in Conns :
    Alive(c) /\ ~m_disconnect[c] /\ (mconn = c => mpc = "return")
      => m_deviceInfoMap[fdOf[c]] = c

TrackParts ==
  /\ PlaceInv /\ EventInv /\ QueueInv /\ FreshInv /\ TrackInv /\ DeviceInv
  /\ NoEventAfterClose
  /\ PolledIsTracked

TInv == IInv /\ TrackParts

-----------------------------------------------------------------------------
(* The server starts with nothing to track. *)
THEOREM InitTInv == Init => TInv
<1> SUFFICES ASSUME Init PROVE TInv
  OBVIOUS
<1>1. IInv
  BY InitIInv
<1>2. TrackParts
  BY ConstantsAssumption DEF Init, TrackParts, PlaceInv, EventInv, QueueInv, FreshInv, TrackInv,
     DeviceInv, NoEventAfterClose, PolledIsTracked, Alive, Loops
<1>3. QED BY <1>1, <1>2 DEF TInv

(* The parts speak of no variable that the end of the process changes. *)
LEMMA DieKeepsParts ==
  ASSUME TrackParts, NEW how, Die(how)
  PROVE  TrackParts'
BY DEF Die, TrackParts, PlaceInv, EventInv, QueueInv, FreshInv, TrackInv, DeviceInv,
   NoEventAfterClose, PolledIsTracked, Entered, BetweenErasures, Lowest, Alive,
   objVars, netVars, mapVars, mainVars, loopVars

(* What the dropping of references leaves polled is still referred to. *)
LEMMA DropFacts ==
  ASSUME IInv, EventInv, DestroyUnheld
  PROVE  /\ UNCHANGED <<fdOf, wired, m_disconnect, idle>>
         /\ \A c \in Conns :
              /\ Alive(c)' => Alive(c)
              /\ phase'[c] = "unborn" <=> phase[c] = "unborn"
              /\ inTree'[c] => inTree[c] /\ Alive(c)' /\ Held(c)'
BY DEF IInv, TypeOK, EventInv, DestroyUnheld, Alive

(* When references are dropped, what is still polled is tracked. *)
LEMMA DropKeepsTracked ==
  ASSUME IInv, IInv', EventInv, TrackInv', DestroyUnheld
  PROVE  PolledIsTracked'
<1> SUFFICES ASSUME NEW d \in Conns, inTree'[d], mconn' # d
             PROVE  \/ m_elConnectionMap'[fdOf'[d]] = d
                    \/ \E l \in Loops : \/ lpc'[l] = "forget" /\ Lowest(fdOf'[d], m_timeoutFdQueue'[l])
                                        \/ cur'[l] = d
  BY DEF PolledIsTracked, Lowest
<1>1. Held(d)' /\ Alive(d)'
  BY DropFacts
<1>2. \/ \E l \in Loops : cur'[l] = d
      \/ \E f \in Fds : m_ConnectionMap'[f] = d \/ m_elConnectionMap'[f] = d
  BY <1>1 DEF Held
<1>3. ASSUME NEW f \in Fds, m_ConnectionMap'[f] = d \/ m_elConnectionMap'[f] = d
      PROVE  f = fdOf'[d] /\ (m_elConnectionMap'[f] = d \/ BetweenErasures(d)')
  BY <1>3, ConstantsAssumption DEF IInv, TablesAgree, TrackInv, Entered
<1>4. QED BY <1>2, <1>3 DEF BetweenErasures, Lowest

-----------------------------------------------------------------------------
(* Every step of the main thread keeps the parts. *)
LEMMA MainKeepsParts ==
  ASSUME TInv, IInv', Main
  PROVE  TrackParts'
<1>1. ASSUME NEW c \in Conns, Accept(c) PROVE TrackParts'
  <2>1. PICK f \in FreeFds : fdOf' = [fdOf EXCEPT ![c] = f]
    BY <1>1 DEF Accept
  <2>2. /\ mpc = "accept" /\ phase[c] = "unborn" /\ mpc' = "wire" /\ mconn' = c
        /\ phase' = [phase EXCEPT ![c] = "alive"]
        /\ inTree' = [inTree EXCEPT ![c] = TRUE]
        /\ UNCHANGED <<m_disconnect, idle, mapVars, loopVars>>
    BY <1>1 DEF Accept
  <2>3. f \in Fds /\ \A d \in Conns : Alive(d) => fdOf[d] # f
    BY <2>1 DEF FreeFds
  <2>4. \A d \in Conns \ {c} : phase'[d] = phase[d] /\ inTree'[d] = inTree[d] /\ fdOf'[d] = fdOf[d]
    BY <2>1, <2>2 DEF TInv, IInv, TypeOK
  <2>5. phase'[c] = "alive" /\ fdOf'[c] = f /\ inTree'[c] /\ ~m_disconnect[c]
    BY <2>1, <2>2 DEF TInv, IInv, TypeOK, TrackParts, EventInv
  <2>6. \A l \in Loops : c \notin batch[l]
    BY <2>2 DEF TInv, TrackParts, EventInv
  <2>7. m_elConnectionMap[f] = NoConn /\ m_ConnectionMap[f] = NoConn
    BY <2>3, ConstantsAssumption DEF TInv, IInv, TypeOK, TablesAgree
  <2>8. PlaceInv'
    BY <2>2, ConstantsAssumption DEF TInv, TrackParts, PlaceInv, loopVars
  <2>9. EventInv'
    BY <2>2, <2>3, <2>4, <2>5, <2>6 DEF TInv, TrackParts, EventInv, Alive, loopVars
  <2>10. QueueInv'
    BY <2>2 DEF TInv, TrackParts, QueueInv, Lowest, mapVars, loopVars
  <2>11. FreshInv'
    BY <2>2, <2>5, <2>7 DEF FreshInv, mapVars
  <2>12. TrackInv'
    <3> SUFFICES ASSUME NEW d \in Conns, NEW g \in Fds, m_ConnectionMap'[g] = d, Entered(d)'
                 PROVE  m_elConnectionMap'[g] = d \/ BetweenErasures(d)'
      BY DEF TrackInv
    <3>1. d # c /\ m_ConnectionMap[g] = d
      BY <2>2 DEF Entered, mapVars
    <3>2. Entered(d)
      <4>1. mconn # d
        BY <2>2, ConstantsAssumption DEF TInv, TrackParts, PlaceInv
      <4>2. QED BY <4>1 DEF Entered
    <3>3. m_elConnectionMap[g] = d \/ BetweenErasures(d)
      BY <3>1, <3>2 DEF TInv, TrackParts, TrackInv
    <3>4. QED BY <2>2, <2>4, <3>1, <3>3 DEF BetweenErasures, Lowest, mapVars, loopVars
  <2>13. DeviceInv'
    BY <2>2, <2>4, ConstantsAssumption
       DEF TInv, TrackParts, DeviceInv, PlaceInv, Alive, mapVars
  <2>14. NoEventAfterClose'
    BY <2>2, <2>4, <2>5 DEF TInv, TrackParts, NoEventAfterClose, loopVars
  <2>15. PolledIsTracked'
    BY <2>2, <2>4, ConstantsAssumption
       DEF TInv, TrackParts, PolledIsTracked, PlaceInv, Lowest, mapVars, loopVars
  <2>16. QED
    BY <2>8, <2>9, <2>10, <2>11, <2>12, <2>13, <2>14, <2>15 DEF TrackParts
<1>2. CASE AcceptExhausted
  BY <1>2, DieKeepsParts DEF AcceptExhausted, TInv
<1>3. CASE WireCallbacks \/ LockLoopMap \/ LockDeviceMap
  <2>1. /\ UNCHANGED <<phase, fdOf, m_disconnect, idle, netVars, mapVars, mconn, loopVars>>
        /\ \/ mpc = "wire" /\ mpc' = "server_map"
           \/ mpc = "loop_map" /\ mpc' = "loop_map_locked"
           \/ mpc = "device_map" /\ mpc' = "device_map_locked"
    BY <1>3 DEF WireCallbacks, LockLoopMap, LockDeviceMap, MainStep, objVars
  <2>2. QED
    BY <2>1 DEF TInv, TrackParts, PlaceInv, EventInv, QueueInv, FreshInv, TrackInv, DeviceInv,
       NoEventAfterClose, PolledIsTracked, Entered, BetweenErasures, Lowest, Alive,
       netVars, mapVars, loopVars
<1>4. CASE InsertServerMap
  <2>1. /\ mpc = "server_map" /\ mpc' = "loop_map"
        /\ m_ConnectionMap' = [m_ConnectionMap EXCEPT ![fdOf[mconn]] = mconn]
        /\ UNCHANGED <<m_elConnectionMap, m_deviceInfoMap, mconn, loopVars>>
        /\ DestroyUnheld
    BY <1>4 DEF InsertServerMap, MainStep
  <2>2. mconn \in Conns /\ fdOf[mconn] \in Fds
    BY <2>1 DEF TInv, IInv, TypeOK, RefInv
  <2>3. PlaceInv' /\ EventInv' /\ QueueInv' /\ FreshInv' /\ DeviceInv' /\ NoEventAfterClose'
    BY <2>1, <2>2, DropFacts
       DEF TInv, TrackParts, PlaceInv, EventInv, QueueInv, FreshInv, DeviceInv, NoEventAfterClose,
           Lowest, loopVars
  <2>4. TrackInv'
    BY <2>1, <2>2, DropFacts
       DEF TInv, IInv, TypeOK, TrackParts, TrackInv, Entered, BetweenErasures, Lowest, loopVars
  <2>5. PolledIsTracked'
    BY <2>1, DropFacts DEF TInv, TrackParts, PolledIsTracked, Lowest, loopVars
  <2>6. QED BY <2>3, <2>4, <2>5 DEF TrackParts
<1>5. CASE InsertLoopMap
  <2>1. /\ mpc = "loop_map_locked" /\ mpc' = "device_map"
        /\ m_elConnectionMap' = [m_elConnectionMap EXCEPT ![fdOf[mconn]] = mconn]
        /\ UNCHANGED <<m_ConnectionMap, m_deviceInfoMap, mconn, loopVars>>
        /\ DestroyUnheld
    BY <1>5 DEF InsertLoopMap, MainStep
  <2>2. mconn \in Conns /\ Alive(mconn) /\ fdOf[mconn] \in Fds
    BY <2>1 DEF TInv, IInv, TypeOK, RefInv
  <2>3. m_elConnectionMap[fdOf[mconn]] = NoConn
    BY <2>1 DEF TInv, TrackParts, FreshInv
  <2>4. PlaceInv' /\ EventInv' /\ FreshInv' /\ DeviceInv' /\ NoEventAfterClose'
    BY <2>1, <2>2, DropFacts
       DEF TInv, TrackParts, PlaceInv, EventInv, FreshInv, DeviceInv, NoEventAfterClose, loopVars
  <2>5. QueueInv'
    BY <2>1, <2>2, <2>3, DropFacts
       DEF TInv, IInv, TypeOK, TrackParts, QueueInv, Lowest, loopVars
  <2>6. TrackInv'
    <3> SUFFICES ASSUME NEW d \in Conns, NEW g \in Fds, m_ConnectionMap'[g] = d
                 PROVE  m_elConnectionMap'[g] = d \/ BetweenErasures(d)'
      BY DEF TrackInv
    <3>1. m_ConnectionMap[g] = d /\ Alive(d) /\ fdOf[d] = g
      BY <2>1, ConstantsAssumption DEF TInv, IInv, TypeOK, TablesAgree
    <3>2. CASE d = mconn
      BY <2>1, <2>2, <3>1, <3>2 DEF TInv, IInv, TypeOK
    <3>3. CASE d # mconn
      <4>1. m_elConnectionMap[g] = d \/ BetweenErasures(d)
        BY <3>1, <3>3 DEF TInv, TrackParts, TrackInv, Entered
      <4>2. g # fdOf[mconn]
        BY <2>2, <3>1, <3>3 DEF TInv, IInv, TablesAgree
      <4>3. QED
        BY <2>1, <4>1, <4>2, DropFacts
           DEF TInv, IInv, TypeOK, TrackParts, BetweenErasures, Lowest, loopVars
    <3>4. QED BY <3>2, <3>3
  <2>7. PolledIsTracked'
    <3> SUFFICES ASSUME NEW d \in Conns, inTree'[d], mconn' # d,
                        ~(\E l \in Loops : \/ /\ lpc'[l] = "forget"
                                              /\ Lowest(fdOf'[d], m_timeoutFdQueue'[l])
                                           \/ cur'[l] = d)
                 PROVE  m_elConnectionMap'[fdOf'[d]] = d
      BY DEF PolledIsTracked, Lowest
    <3>1. m_elConnectionMap[fdOf[d]] = d /\ fdOf' = fdOf /\ Alive(d)
      BY <2>1, DropFacts DEF TInv, TrackParts, PolledIsTracked, loopVars
    <3>2. fdOf[d] \in Fds /\ fdOf[d] # fdOf[mconn]
      BY <2>1, <2>2, <3>1 DEF TInv, IInv, TablesAgree, RefInv
    <3>3. QED BY <2>1, <3>1, <3>2 DEF TInv, IInv, TypeOK
  <2>8. QED BY <2>4, <2>5, <2>6, <2>7 DEF TrackParts
<1>6. CASE InsertDevice
  <2>1. /\ mpc = "device_map_locked" /\ mpc' = "return"
        /\ m_deviceInfoMap' = [m_deviceInfoMap EXCEPT ![fdOf[mconn]] = mconn]
        /\ UNCHANGED <<objVars, netVars, m_ConnectionMap, m_elConnectionMap, mconn, loopVars>>
    BY <1>6 DEF InsertDevice, MainStep
  <2>2. mconn \in Conns /\ Alive(mconn) /\ fdOf[mconn] \in Fds
    BY <2>1 DEF TInv, IInv, TypeOK, RefInv
  <2>3. DeviceInv'
    BY <2>1, <2>2 DEF TInv, IInv, TypeOK, RefInv, TablesAgree, TrackParts, DeviceInv, Alive, objVars
  <2>4. /\ PlaceInv' /\ EventInv' /\ QueueInv' /\ FreshInv' /\ NoEventAfterClose'
        /\ PolledIsTracked'
    BY <2>1 DEF TInv, TrackParts, PlaceInv, EventInv, QueueInv, FreshInv,
       NoEventAfterClose, PolledIsTracked, Lowest, Alive, objVars, netVars, loopVars
  <2>5. TrackInv'
    BY <2>1 DEF TInv, TrackParts, TrackInv, Entered, BetweenErasures, Lowest, objVars, loopVars
  <2>6. QED BY <2>3, <2>4, <2>5 DEF TrackParts
<1>7. CASE ReturnToLoop
  <2>1. /\ mpc = "return" /\ mpc' = "accept" /\ mconn' = NoConn
        /\ UNCHANGED <<mapVars, loopVars>>
        /\ DestroyUnheld
    BY <1>7 DEF ReturnToLoop, MainStep
  <2>2. PlaceInv' /\ EventInv' /\ QueueInv' /\ FreshInv' /\ DeviceInv' /\ NoEventAfterClose'
    BY <2>1, DropFacts
       DEF TInv, TrackParts, PlaceInv, EventInv, QueueInv, FreshInv, DeviceInv, NoEventAfterClose,
           Lowest, mapVars, loopVars
  <2>3. \A d \in Conns : Entered(d)
    BY <2>1 DEF Entered
  <2>4. TrackInv'
    BY <2>1, <2>3, DropFacts
       DEF TInv, TrackParts, TrackInv, BetweenErasures, Lowest, mapVars, loopVars
  <2>5. PolledIsTracked'
    BY <2>1, <2>4, DropKeepsTracked DEF TInv, TrackParts
  <2>6. QED BY <2>2, <2>4, <2>5 DEF TrackParts
<1>8. QED BY <1>1, <1>2, <1>3, <1>4, <1>5, <1>6, <1>7 DEF Main

(* Every step of an I/O thread keeps the parts. *)
LEMMA LoopKeepsParts ==
  ASSUME TInv, IInv', NEW l \in Loops, Loop(l)
  PROVE  TrackParts'
<1>1. CASE EpollWait(l)
  <2>1. /\ lpc[l] = "loop" /\ batch' = [batch EXCEPT ![l] = Ready(l)]
        /\ UNCHANGED <<objVars, inTree, mapVars, mainVars, lpc, cur, m_timeoutFdQueue>>
    BY <1>1 DEF EpollWait
  <2>2. \A c \in Conns : c \in Ready(l) => inTree[c] /\ LoopOf(fdOf[c]) = l
    BY ConstantsAssumption DEF Ready
  <2>3. EventInv' /\ NoEventAfterClose'
    BY <2>1, <2>2 DEF TInv, IInv, TypeOK, TrackParts, EventInv, NoEventAfterClose, Alive, objVars
  <2>4. PlaceInv' /\ QueueInv' /\ FreshInv' /\ TrackInv' /\ DeviceInv' /\ PolledIsTracked'
    BY <2>1 DEF TInv, TrackParts, PlaceInv, QueueInv, FreshInv, TrackInv, DeviceInv,
       PolledIsTracked, Entered, BetweenErasures, Lowest, Alive, objVars, mapVars, mainVars
  <2>5. QED BY <2>3, <2>4 DEF TrackParts
<1>2. ASSUME NEW c \in Conns, HandleDangling(l, c) \/ HandleUnwired(l, c) PROVE TrackParts'
  BY <1>2, DieKeepsParts DEF HandleDangling, HandleUnwired, TInv
<1>3. ASSUME NEW c \in Conns, HandleRead(l, c) PROVE TrackParts'
  <2>1. /\ lpc[l] = "loop" /\ c \in batch[l]
        /\ batch' = [batch EXCEPT ![l] = @ \ {c}]
        /\ UNCHANGED <<phase, fdOf, wired, m_disconnect, inTree, mapVars, mainVars,
                       m_timeoutFdQueue>>
        /\ \/ UNCHANGED <<lpc, cur, idle>>
           \/ /\ idle' = [idle EXCEPT ![c] = FALSE]
              /\ cur' = [cur EXCEPT ![l] = c]
              /\ lpc' = [lpc EXCEPT ![l] = "lookup"]
    BY <1>3 DEF HandleRead, Take
  <2>2. LoopOf(fdOf[c]) = l
    BY <2>1 DEF TInv, TrackParts, EventInv
  <2>3. \A k \in Loops : k # l => lpc'[k] = lpc[k] /\ cur'[k] = cur[k]
    BY <2>1 DEF TInv, IInv, TypeOK
  <2>4. lpc'[l] \in {"loop", "lookup"} /\ cur[l] = NoConn
    BY <2>1 DEF TInv, IInv, TypeOK, TrackParts, PlaceInv
  <2>5. \A d \in Conns : d # c => idle'[d] = idle[d]
    BY <2>1 DEF TInv, IInv, TypeOK
  <2>6. \A k \in Loops : batch'[k] \subseteq batch[k]
    BY <2>1 DEF TInv, IInv, TypeOK
  <2>7. \A f \in Fds : f \notin m_timeoutFdQueue[l]
    BY <2>1 DEF TInv, TrackParts, QueueInv
  <2>8. PlaceInv'
    <3>1. lpc'[l] = "loop" => cur'[l] = NoConn
      BY <2>1, <2>4 DEF TInv, IInv, TypeOK
    <3>2. QED BY <2>1, <2>3, <2>4, <3>1 DEF TInv, TrackParts, PlaceInv, mainVars
  <2>9. EventInv' /\ FreshInv' /\ DeviceInv' /\ NoEventAfterClose'
    BY <2>1, <2>6 DEF TInv, TrackParts, EventInv, FreshInv, DeviceInv, NoEventAfterClose,
       Alive, mapVars, mainVars
  <2>10. QueueInv'
    <3> SUFFICES ASSUME NEW k \in Loops, NEW f \in Fds, f \in m_timeoutFdQueue[k]
                 PROVE  /\ LoopOf(f) = k
                        /\ \/ /\ lpc'[k] \in {"expire", "forget"}
                              /\ m_elConnectionMap[f] # NoConn /\ idle'[m_elConnectionMap[f]]
                           \/ lpc'[k] = "forget" /\ Lowest(f, m_timeoutFdQueue[k])
      BY <2>1 DEF QueueInv, Lowest, mapVars
    <3>1. k # l /\ LoopOf(f) = k /\ lpc'[k] = lpc[k]
      BY <2>3, <2>7 DEF TInv, TrackParts, QueueInv
    <3>2. m_elConnectionMap[f] # c
      BY <2>2, <3>1, ConstantsAssumption DEF TInv, IInv, TypeOK, TablesAgree
    <3>3. m_elConnectionMap[f] # NoConn => idle'[m_elConnectionMap[f]] = idle[m_elConnectionMap[f]]
      BY <2>5, <3>2 DEF TInv, IInv, TypeOK
    <3>4. QED BY <3>1, <3>3 DEF TInv, TrackParts, QueueInv
  <2>11. TrackInv'
    <3>1. ASSUME NEW d \in Conns, BetweenErasures(d) PROVE BetweenErasures(d)'
      <4>1. PICK k \in Loops : lpc[k] = "forget" /\ Lowest(fdOf[d], m_timeoutFdQueue[k]) /\ idle[d]
        BY <3>1 DEF BetweenErasures
      <4>2. k # l /\ lpc'[k] = "forget"
        BY <2>1, <2>3, <4>1
      <4>3. d # c
        <5>1. fdOf[d] \in m_timeoutFdQueue[k] /\ fdOf[d] \in Fds
          BY <4>1 DEF Lowest, TInv, IInv, TypeOK
        <5>2. LoopOf(fdOf[d]) = k
          BY <5>1 DEF TInv, TrackParts, QueueInv
        <5>3. QED BY <2>2, <4>2, <5>2
      <4>4. QED BY <2>1, <2>5, <4>1, <4>2, <4>3 DEF BetweenErasures, Lowest
    <3>2. QED BY <2>1, <3>1 DEF TInv, TrackParts, TrackInv, Entered, mapVars, mainVars
  <2>12. PolledIsTracked'
    <3> SUFFICES ASSUME NEW d \in Conns, inTree[d], mconn # d
                 PROVE  \/ m_elConnectionMap[fdOf[d]] = d
                        \/ \E k \in Loops : \/ /\ lpc'[k] = "forget"
                                               /\ Lowest(fdOf[d], m_timeoutFdQueue[k])
                                            \/ cur'[k] = d
      BY <2>1 DEF PolledIsTracked, Lowest, mapVars, mainVars
    <3>1. CASE m_elConnectionMap[fdOf[d]] = d
      BY <3>1
    <3>2. ASSUME NEW k \in Loops,
                 (lpc[k] = "forget" /\ Lowest(fdOf[d], m_timeoutFdQueue[k])) \/ cur[k] = d
          PROVE  /\ k # l
                 /\ (lpc'[k] = "forget" /\ Lowest(fdOf[d], m_timeoutFdQueue[k])) \/ cur'[k] = d
      BY <2>1, <2>3, <2>4, <3>2, ConstantsAssumption
    <3>3. QED BY <3>1, <3>2 DEF TInv, TrackParts, PolledIsTracked
  <2>13. QED BY <2>8, <2>9, <2>10, <2>11, <2>12 DEF TrackParts
<1>4. ASSUME NEW c \in Conns, HandleHangup(l, c) PROVE TrackParts'
  <2>1. /\ lpc[l] = "loop" /\ c \in batch[l] /\ Alive(c)
        /\ batch' = [batch EXCEPT ![l] = @ \ {c}]
        /\ m_disconnect' = [m_disconnect EXCEPT ![c] = TRUE]
        /\ inTree' = [inTree EXCEPT ![c] = FALSE]
        /\ cur' = [cur EXCEPT ![l] = c]
        /\ lpc' = [lpc EXCEPT ![l] = "close_device"]
        /\ UNCHANGED <<phase, fdOf, idle, mapVars, mainVars, m_timeoutFdQueue>>
    BY <1>4 DEF HandleHangup, Take
  <2>2. LoopOf(fdOf[c]) = l /\ cur[l] = NoConn /\ \A f \in Fds : f \notin m_timeoutFdQueue[l]
    BY <2>1 DEF TInv, TrackParts, EventInv, PlaceInv, QueueInv
  <2>3. /\ \A k \in Loops : k # l => lpc'[k] = lpc[k] /\ cur'[k] = cur[k] /\ batch'[k] = batch[k]
        /\ lpc'[l] = "close_device" /\ cur'[l] = c /\ batch'[l] = batch[l] \ {c}
        /\ \A d \in Conns : d # c => m_disconnect'[d] = m_disconnect[d] /\ inTree'[d] = inTree[d]
        /\ m_disconnect'[c] /\ ~inTree'[c]
    BY <2>1 DEF TInv, IInv, TypeOK
  <2>4. PlaceInv'
    <3>1. \A k \in Loops : m_disconnect[cur[k]] /\ cur[k] \in Conns => m_disconnect'[cur[k]]
      BY <2>3
    <3>2. \A k \in Loops : lpc[k] \in {"close_device", "close_server"} => cur[k] \in Conns
      BY DEF TInv, IInv, TypeOK, RefInv
    <3>3. QED BY <2>1, <2>3, <3>1, <3>2 DEF TInv, TrackParts, PlaceInv, mainVars
  <2>5. EventInv' /\ NoEventAfterClose'
    BY <2>1, <2>2, <2>3 DEF TInv, TrackParts, EventInv, NoEventAfterClose, Alive
  <2>6. QueueInv' /\ FreshInv' /\ DeviceInv'
    BY <2>1, <2>2, <2>3 DEF TInv, TrackParts, QueueInv, FreshInv, DeviceInv, Alive, Lowest,
       mapVars, mainVars
  <2>7. TrackInv'
    BY <2>1, <2>3 DEF TInv, TrackParts, TrackInv, Entered, BetweenErasures, Lowest,
       mapVars, mainVars
  <2>8. PolledIsTracked'
    <3> SUFFICES ASSUME NEW d \in Conns, inTree'[d], mconn # d
                 PROVE  \/ m_elConnectionMap[fdOf[d]] = d
                        \/ \E k \in Loops : \/ /\ lpc'[k] = "forget"
                                               /\ Lowest(fdOf[d], m_timeoutFdQueue[k])
                                            \/ cur'[k] = d
      BY <2>1 DEF PolledIsTracked, Lowest, mapVars, mainVars
    <3>1. d # c /\ inTree[d]
      BY <2>3
    <3>2. ASSUME NEW k \in Loops,
                 (lpc[k] = "forget" /\ Lowest(fdOf[d], m_timeoutFdQueue[k])) \/ cur[k] = d
          PROVE  (lpc'[k] = "forget" /\ Lowest(fdOf[d], m_timeoutFdQueue[k])) \/ cur'[k] = d
      BY <2>1, <2>2, <2>3, <3>2, ConstantsAssumption
    <3>3. QED BY <3>1, <3>2 DEF TInv, TrackParts, PolledIsTracked
  <2>9. QED BY <2>4, <2>5, <2>6, <2>7, <2>8 DEF TrackParts
<1>5. CASE LookupDevice(l)
  <2>1. CASE Die("null_device") \/ Die("torn_map")
    BY <2>1, DieKeepsParts DEF TInv
  <2>2. CASE ~Die("null_device") /\ ~Die("torn_map")
    <3> DEFINE f == fdOf[cur[l]]
               found == IF m_deviceInfoMap[f] = NoConn THEN NullDevice ELSE m_deviceInfoMap[f]
    <3>1. /\ lpc[l] = "lookup" /\ lpc' = [lpc EXCEPT ![l] = "loop"]
          /\ m_deviceInfoMap' = [m_deviceInfoMap EXCEPT ![f] = found]
          /\ cur' = [cur EXCEPT ![l] = NoConn]
          /\ UNCHANGED <<m_ConnectionMap, m_elConnectionMap, mainVars, batch, m_timeoutFdQueue>>
          /\ DestroyUnheld
      BY <1>5, <2>2 DEF LookupDevice, LoopStep
    <3>2. \A c \in Conns, g \in Fds : m_deviceInfoMap[g] = c => m_deviceInfoMap'[g] = c
      BY <3>1, ConstantsAssumption DEF TInv, IInv, TypeOK
    <3> HIDE DEF f, found
    <3>3. PlaceInv' /\ EventInv' /\ FreshInv' /\ NoEventAfterClose'
      BY <3>1, DropFacts DEF TInv, IInv, TypeOK, TrackParts, PlaceInv, EventInv, FreshInv,
         NoEventAfterClose, mainVars
    <3>4. \A k \in Loops : lpc'[k] \in {"expire", "forget"} <=> lpc[k] \in {"expire", "forget"}
      BY <3>1 DEF TInv, IInv, TypeOK
    <3>5. \A k \in Loops : lpc'[k] = "forget" <=> lpc[k] = "forget"
      BY <3>1 DEF TInv, IInv, TypeOK
    <3>6. QueueInv'
      BY <3>1, <3>4, <3>5, DropFacts DEF TInv, TrackParts, QueueInv, Lowest
    <3>7. TrackInv'
      BY <3>1, <3>5, DropFacts
         DEF TInv, TrackParts, TrackInv, Entered, BetweenErasures, Lowest, mainVars
    <3>8. DeviceInv'
      BY <3>1, <3>2, DropFacts DEF TInv, IInv, RefInv, TrackParts, DeviceInv, mainVars
    <3>9. PolledIsTracked'
      BY <3>1, <3>7, DropKeepsTracked DEF TInv, TrackParts
    <3>10. QED BY <3>3, <3>6, <3>7, <3>8, <3>9 DEF TrackParts
  <2>3. QED BY <2>1, <2>2
<1>6. CASE CloseDevice(l)
  <2>1. /\ lpc[l] = "close_device" /\ lpc' = [lpc EXCEPT ![l] = "close_server"]
        /\ m_deviceInfoMap' = [m_deviceInfoMap EXCEPT ![fdOf[cur[l]]] = NoConn]
        /\ UNCHANGED <<objVars, netVars, m_ConnectionMap, m_elConnectionMap, mainVars, batch, cur,
                       m_timeoutFdQueue>>
    BY <1>6 DEF CloseDevice, LoopStep
  <2>2. cur[l] \in Conns /\ Alive(cur[l]) /\ m_disconnect[cur[l]]
    BY <2>1 DEF TInv, IInv, TypeOK, RefInv, TrackParts, PlaceInv
  <2>3. DeviceInv'
    <3> SUFFICES ASSUME NEW c \in Conns, Alive(c), ~m_disconnect[c], mconn = c => mpc = "return"
                 PROVE  m_deviceInfoMap'[fdOf[c]] = c
      BY <2>1 DEF DeviceInv, Alive, objVars, mainVars
    <3>1. fdOf[c] # fdOf[cur[l]]
      BY <2>2 DEF TInv, IInv, TablesAgree
    <3>2. m_deviceInfoMap[fdOf[c]] = c /\ fdOf[c] \in Fds
      BY DEF TInv, IInv, RefInv, TrackParts, DeviceInv
    <3>3. QED BY <2>1, <3>1, <3>2 DEF TInv, IInv, TypeOK
  <2>4. PlaceInv' /\ EventInv' /\ FreshInv' /\ NoEventAfterClose'
    BY <2>1 DEF TInv, IInv, TypeOK, TrackParts, PlaceInv, EventInv, FreshInv,
       NoEventAfterClose, Alive, objVars, netVars, mainVars
  <2>5. \A k \in Loops : lpc'[k] \in {"expire", "forget"} <=> lpc[k] \in {"expire", "forget"}
    BY <2>1 DEF TInv, IInv, TypeOK
  <2>6. \A k \in Loops : lpc'[k] = "forget" <=> lpc[k] = "forget"
    BY <2>1 DEF TInv, IInv, TypeOK
  <2>7. QueueInv'
    BY <2>1, <2>5, <2>6 DEF TInv, TrackParts, QueueInv, Lowest, objVars
  <2>8. TrackInv'
    BY <2>1, <2>6 DEF TInv, TrackParts, TrackInv, Entered, BetweenErasures, Lowest, objVars, mainVars
  <2>9. PolledIsTracked'
    BY <2>1, <2>6 DEF TInv, TrackParts, PolledIsTracked, Lowest, objVars, netVars, mainVars
  <2>10. QED BY <2>3, <2>4, <2>7, <2>8, <2>9 DEF TrackParts
<1>7. CASE CloseServer(l)
  <2>1. /\ lpc[l] = "close_server" /\ lpc' = [lpc EXCEPT ![l] = "loop"]
        /\ m_ConnectionMap' = [m_ConnectionMap EXCEPT ![fdOf[cur[l]]] = NoConn]
        /\ cur' = [cur EXCEPT ![l] = NoConn]
        /\ UNCHANGED <<m_elConnectionMap, m_deviceInfoMap, mainVars, batch, m_timeoutFdQueue>>
        /\ DestroyUnheld
    BY <1>7 DEF CloseServer, LoopStep
  <2>2. PlaceInv' /\ EventInv' /\ FreshInv' /\ DeviceInv' /\ NoEventAfterClose'
    BY <2>1, DropFacts DEF TInv, IInv, TypeOK, TrackParts, PlaceInv, EventInv, FreshInv, DeviceInv,
       NoEventAfterClose, mainVars
  <2>3. \A k \in Loops : lpc'[k] \in {"expire", "forget"} <=> lpc[k] \in {"expire", "forget"}
    BY <2>1 DEF TInv, IInv, TypeOK
  <2>4. \A k \in Loops : lpc'[k] = "forget" <=> lpc[k] = "forget"
    BY <2>1 DEF TInv, IInv, TypeOK
  <2>5. QueueInv'
    BY <2>1, <2>3, <2>4, DropFacts DEF TInv, TrackParts, QueueInv, Lowest
  <2>6. TrackInv'
    <3>1. \A c \in Conns, g \in Fds : m_ConnectionMap'[g] = c => m_ConnectionMap[g] = c
      BY <2>1, ConstantsAssumption DEF TInv, IInv, TypeOK
    <3>2. QED
      BY <2>1, <2>4, <3>1, DropFacts
         DEF TInv, TrackParts, TrackInv, Entered, BetweenErasures, Lowest, mainVars
  <2>7. PolledIsTracked'
    BY <2>1, <2>6, DropKeepsTracked DEF TInv, TrackParts
  <2>8. QED BY <2>2, <2>5, <2>6, <2>7 DEF TrackParts
<1>8. CASE HandleTimer(l)
  <2>1. /\ lpc[l] = "loop" /\ lpc' = [lpc EXCEPT ![l] = "scan"]
        /\ batch' = [batch EXCEPT ![l] = @ \ {Timer}]
        /\ UNCHANGED <<objVars, netVars, mapVars, mainVars, cur, m_timeoutFdQueue>>
    BY <1>8 DEF HandleTimer, Take, LoopStep
  <2>2. \A k \in Loops : lpc'[k] \in {"expire", "forget"} <=> lpc[k] \in {"expire", "forget"}
    BY <2>1 DEF TInv, IInv, TypeOK
  <2>3. \A k \in Loops : lpc'[k] = "forget" <=> lpc[k] = "forget"
    BY <2>1 DEF TInv, IInv, TypeOK
  <2>4. PlaceInv' /\ EventInv' /\ FreshInv' /\ DeviceInv' /\ NoEventAfterClose'
    BY <2>1 DEF TInv, IInv, TypeOK, TrackParts, PlaceInv, EventInv, FreshInv, DeviceInv,
       NoEventAfterClose, Alive, objVars, netVars, mapVars, mainVars
  <2>5. QueueInv' /\ TrackInv' /\ PolledIsTracked'
    BY <2>1, <2>2, <2>3 DEF TInv, TrackParts, QueueInv, TrackInv, PolledIsTracked, Entered,
       BetweenErasures, Lowest, objVars, netVars, mapVars, mainVars
  <2>6. QED BY <2>4, <2>5 DEF TrackParts
<1>9. CASE Scan(l)
  <2>1. CASE Die("torn_map")
    BY <2>1, DieKeepsParts DEF TInv
  <2>2. CASE ~Die("torn_map")
    <3>1. /\ lpc[l] = "scan"
          /\ lpc' = [lpc EXCEPT ![l] = IF Expired(l) = {} THEN "loop" ELSE "expire"]
          /\ m_timeoutFdQueue' = [m_timeoutFdQueue EXCEPT ![l] = Expired(l)]
          /\ UNCHANGED <<objVars, netVars, mapVars, mainVars, batch, cur>>
      BY <1>9, <2>2 DEF Scan, LoopStep
    <3>2. \A k \in Loops : lpc'[k] = "forget" <=> lpc[k] = "forget"
      BY <3>1 DEF TInv, IInv, TypeOK
    <3>3. \A k \in Loops : k # l => lpc'[k] = lpc[k] /\ m_timeoutFdQueue'[k] = m_timeoutFdQueue[k]
      BY <3>1 DEF TInv, IInv, TypeOK
    <3>4. PlaceInv' /\ EventInv' /\ FreshInv' /\ DeviceInv' /\ NoEventAfterClose'
      BY <3>1 DEF TInv, IInv, TypeOK, TrackParts, PlaceInv, EventInv, FreshInv, DeviceInv,
         NoEventAfterClose, Alive, objVars, netVars, mapVars, mainVars
    <3>5. QueueInv'
      <4> SUFFICES ASSUME NEW k \in Loops, NEW f \in Fds, f \in m_timeoutFdQueue'[k]
                   PROVE  /\ LoopOf(f) = k
                          /\ \/ /\ lpc'[k] \in {"expire", "forget"}
                                /\ m_elConnectionMap[f] # NoConn /\ idle[m_elConnectionMap[f]]
                             \/ lpc'[k] = "forget" /\ Lowest(f, m_timeoutFdQueue'[k])
        BY <3>1 DEF QueueInv, Lowest, mapVars, objVars
      <4>1. CASE k = l
        BY <3>1, <4>1 DEF TInv, IInv, TypeOK, Expired
      <4>2. CASE k # l
        BY <3>3, <4>2 DEF TInv, TrackParts, QueueInv
      <4>3. QED BY <4>1, <4>2
    <3>6. TrackInv' /\ PolledIsTracked'
      BY <3>1, <3>2, <3>3 DEF TInv, TrackParts, TrackInv, PolledIsTracked, Entered,
         BetweenErasures, Lowest, objVars, netVars, mapVars, mainVars
    <3>7. QED BY <3>4, <3>5, <3>6 DEF TrackParts
  <2>3. QED BY <2>1, <2>2
<1>10. CASE ExpireFromLoop(l)
  <2>1. PICK f \in Fds : /\ Lowest(f, m_timeoutFdQueue[l])
                         /\ m_elConnectionMap' = [m_elConnectionMap EXCEPT ![f] = NoConn]
    BY <1>10 DEF ExpireFromLoop
  <2>2. /\ lpc[l] = "expire" /\ lpc' = [lpc EXCEPT ![l] = "forget"]
        /\ UNCHANGED <<m_ConnectionMap, m_deviceInfoMap, mainVars, batch, cur, m_timeoutFdQueue>>
        /\ DestroyUnheld
    BY <1>10 DEF ExpireFromLoop, LoopStep
  <2>3. /\ lpc'[l] = "forget"
        /\ \A k \in Loops : k # l => lpc'[k] = lpc[k]
        /\ m_elConnectionMap'[f] = NoConn
        /\ \A g \in Fds : g # f => m_elConnectionMap'[g] = m_elConnectionMap[g]
    BY <2>1, <2>2 DEF TInv, IInv, TypeOK
  <2>4. LoopOf(f) = l /\ m_elConnectionMap[f] # NoConn /\ idle[m_elConnectionMap[f]]
    BY <2>1, <2>2 DEF TInv, TrackParts, QueueInv, Lowest
  <2>5. PlaceInv' /\ EventInv' /\ DeviceInv' /\ NoEventAfterClose'
    BY <2>2, DropFacts DEF TInv, IInv, TypeOK, TrackParts, PlaceInv, EventInv, DeviceInv,
       NoEventAfterClose, mainVars
  <2>6. FreshInv'
    <3>1. mconn' = mconn /\ mpc' = mpc /\ fdOf' = fdOf
      BY <2>2, DropFacts DEF TInv, TrackParts, mainVars
    <3>2. mpc # "accept" => fdOf[mconn] \in Fds
      BY DEF TInv, IInv, TypeOK, RefInv
    <3>3. QED BY <2>3, <3>1, <3>2 DEF TInv, TrackParts, FreshInv
  <2>7. QueueInv'
    <3> SUFFICES ASSUME NEW k \in Loops, NEW g \in Fds, g \in m_timeoutFdQueue[k]
                 PROVE  /\ LoopOf(g) = k
                        /\ \/ /\ lpc'[k] \in {"expire", "forget"}
                              /\ m_elConnectionMap'[g] # NoConn /\ idle[m_elConnectionMap'[g]]
                           \/ lpc'[k] = "forget" /\ Lowest(g, m_timeoutFdQueue[k])
      BY <2>2, DropFacts DEF TInv, TrackParts, QueueInv, Lowest
    <3>1. CASE k = l
      BY <2>1, <2>2, <2>3, <3>1 DEF TInv, TrackParts, QueueInv
    <3>2. CASE k # l
      BY <2>3, <2>4, <3>2 DEF TInv, TrackParts, QueueInv
    <3>3. QED BY <3>1, <3>2
  <2>8. \A d \in Conns : BetweenErasures(d) => BetweenErasures(d)'
    BY <2>2, <2>3, DropFacts DEF TInv, TrackParts, BetweenErasures, Lowest
  <2>9. TrackInv'
    <3> SUFFICES ASSUME NEW d \in Conns, NEW g \in Fds, m_ConnectionMap[g] = d, Entered(d)
                 PROVE  m_elConnectionMap'[g] = d \/ BetweenErasures(d)'
      BY <2>2 DEF TrackInv, Entered, mainVars
    <3>1. m_elConnectionMap[g] = d \/ BetweenErasures(d)
      BY DEF TInv, TrackParts, TrackInv
    <3>2. fdOf[d] = g
      BY ConstantsAssumption DEF TInv, IInv, TablesAgree
    <3>3. ASSUME m_elConnectionMap[g] = d, g = f PROVE BetweenErasures(d)'
      BY <2>1, <2>2, <2>3, <2>4, <3>2, <3>3, DropFacts DEF TInv, TrackParts, BetweenErasures, Lowest
    <3>4. QED BY <2>3, <2>8, <3>1, <3>3
  <2>10. PolledIsTracked'
    BY <2>2, <2>9, DropKeepsTracked DEF TInv, TrackParts
  <2>11. QED BY <2>5, <2>6, <2>7, <2>9, <2>10 DEF TrackParts
<1>11. CASE ForgetInServer(l)
  <2>1. PICK f \in Fds :
          /\ Lowest(f, m_timeoutFdQueue[l])
          /\ lpc' = [lpc EXCEPT ![l] = IF m_timeoutFdQueue[l] = {f} THEN "loop" ELSE "expire"]
          /\ m_ConnectionMap' = [m_ConnectionMap EXCEPT ![f] = NoConn]
          /\ m_timeoutFdQueue' = [m_timeoutFdQueue EXCEPT ![l] = @ \ {f}]
    BY <1>11 DEF ForgetInServer, LoopStep
  <2>2. /\ lpc[l] = "forget"
        /\ UNCHANGED <<m_elConnectionMap, m_deviceInfoMap, mainVars, batch, cur>>
        /\ DestroyUnheld
    BY <1>11 DEF ForgetInServer, LoopStep
  <2>3. /\ lpc'[l] = IF m_timeoutFdQueue[l] = {f} THEN "loop" ELSE "expire"
        /\ m_timeoutFdQueue'[l] = m_timeoutFdQueue[l] \ {f}
        /\ \A k \in Loops : k # l => lpc'[k] = lpc[k] /\ m_timeoutFdQueue'[k] = m_timeoutFdQueue[k]
        /\ \A c \in Conns, g \in Fds : m_ConnectionMap'[g] = c => m_ConnectionMap[g] = c /\ g # f
    BY <2>1, ConstantsAssumption DEF TInv, IInv, TypeOK
  <2>4. PlaceInv' /\ EventInv' /\ FreshInv' /\ DeviceInv' /\ NoEventAfterClose'
    BY <2>1, <2>2, DropFacts DEF TInv, IInv, TypeOK, TrackParts, PlaceInv, EventInv, FreshInv,
       DeviceInv, NoEventAfterClose, mainVars
  <2>5. QueueInv'
    <3> SUFFICES ASSUME NEW k \in Loops, NEW g \in Fds, g \in m_timeoutFdQueue'[k]
                 PROVE  /\ LoopOf(g) = k
                        /\ \/ /\ lpc'[k] \in {"expire", "forget"}
                              /\ m_elConnectionMap[g] # NoConn /\ idle[m_elConnectionMap[g]]
                           \/ lpc'[k] = "forget" /\ Lowest(g, m_timeoutFdQueue'[k])
      BY <2>2, DropFacts DEF TInv, TrackParts, QueueInv, Lowest
    <3>1. CASE k = l
      <4>1. g \in m_timeoutFdQueue[l] /\ g # f
        BY <2>3, <3>1
      <4>2. lpc'[l] = "expire"
        BY <2>3, <4>1
      <4>3. ~Lowest(g, m_timeoutFdQueue[l])
        BY <2>1, <4>1, ConstantsAssumption DEF Lowest
      <4>4. QED BY <3>1, <4>1, <4>2, <4>3 DEF TInv, TrackParts, QueueInv
    <3>2. CASE k # l
      BY <2>3, <3>2 DEF TInv, TrackParts, QueueInv
    <3>3. QED BY <3>1, <3>2
  <2>6. TrackInv'
    <3> SUFFICES ASSUME NEW d \in Conns, NEW g \in Fds, m_ConnectionMap'[g] = d, Entered(d)
                 PROVE  m_elConnectionMap[g] = d \/ BetweenErasures(d)'
      BY <2>2 DEF TrackInv, Entered, mainVars
    <3>1. m_ConnectionMap[g] = d /\ g # f
      BY <2>3
    <3>2. m_elConnectionMap[g] = d \/ BetweenErasures(d)
      BY <3>1 DEF TInv, TrackParts, TrackInv
    <3>3. fdOf[d] = g
      BY <3>1, ConstantsAssumption DEF TInv, IInv, TablesAgree
    <3>4. ASSUME BetweenErasures(d) PROVE BetweenErasures(d)'
      <4>1. PICK k \in Loops : lpc[k] = "forget" /\ Lowest(g, m_timeoutFdQueue[k]) /\ idle[d]
        BY <3>3, <3>4 DEF BetweenErasures
      <4>2. k # l
        BY <2>1, <3>1, <4>1, ConstantsAssumption DEF Lowest
      <4>3. QED
        BY <2>2, <2>3, <3>3, <4>1, <4>2, DropFacts DEF TInv, TrackParts, BetweenErasures, Lowest
    <3>5. QED BY <3>2, <3>4
  <2>7. PolledIsTracked'
    BY <2>2, <2>6, DropKeepsTracked DEF TInv, TrackParts
  <2>8. QED BY <2>4, <2>5, <2>6, <2>7 DEF TrackParts
<1>12. QED
  BY <1>1, <1>2, <1>3, <1>4, <1>5, <1>6, <1>7, <1>8, <1>9, <1>10, <1>11 DEF Loop

(* Clients, network and clock keep the parts. *)
LEMMA EnvironmentKeepsParts ==
  ASSUME TInv, Environment
  PROVE  TrackParts'
<1>1. ASSUME NEW c \in Conns, NEW what \in {"data", "fin", "err"}, NetworkEvent(c, what)
      PROVE  TrackParts'
  BY <1>1 DEF NetworkEvent, TInv, TrackParts, PlaceInv, EventInv, QueueInv, FreshInv, TrackInv,
     DeviceInv, NoEventAfterClose, PolledIsTracked, Entered, BetweenErasures, Lowest, Alive,
     objVars, mapVars, mainVars, loopVars
<1>2. ASSUME NEW c \in Conns, GrowIdle(c) PROVE TrackParts'
  <2>1. /\ idle' = [idle EXCEPT ![c] = TRUE]
        /\ UNCHANGED <<phase, fdOf, m_disconnect, netVars, mapVars, mainVars, loopVars>>
    BY <1>2 DEF GrowIdle
  <2>2. \A d \in Conns : idle[d] => idle'[d]
    BY <2>1 DEF TInv, IInv, TypeOK
  <2>3. QueueInv'
    BY <2>1, <2>2 DEF TInv, IInv, TypeOK, TrackParts, QueueInv, Lowest, mapVars, loopVars
  <2>4. TrackInv'
    BY <2>1, <2>2 DEF TInv, TrackParts, TrackInv, Entered, BetweenErasures, Lowest,
       mapVars, mainVars, loopVars
  <2>5. PlaceInv' /\ EventInv' /\ FreshInv' /\ DeviceInv' /\ NoEventAfterClose' /\ PolledIsTracked'
    BY <2>1 DEF TInv, TrackParts, PlaceInv, EventInv, FreshInv, DeviceInv, NoEventAfterClose,
       PolledIsTracked, Lowest, Alive, netVars, mapVars, mainVars, loopVars
  <2>6. QED BY <2>3, <2>4, <2>5 DEF TrackParts
<1>3. ASSUME NEW l \in Loops, TimerExpires(l) PROVE TrackParts'
  BY <1>3 DEF TimerExpires, TInv, TrackParts, PlaceInv, EventInv, QueueInv, FreshInv, TrackInv,
     DeviceInv, NoEventAfterClose, PolledIsTracked, Entered, BetweenErasures, Lowest, Alive,
     objVars, netVars, mapVars, mainVars
<1>4. QED BY <1>1, <1>2, <1>3 DEF Environment

(* TInv is inductive. *)
THEOREM NextTInv == TInv /\ [Next]_vars => TInv'
<1> SUFFICES ASSUME TInv, [Next]_vars PROVE TInv'
  OBVIOUS
<1>1. IInv'
  BY NextIInv DEF TInv
<1>2. CASE UNCHANGED vars
  <2>1. TrackParts'
    BY <1>2 DEF TInv, TrackParts, PlaceInv, EventInv, QueueInv, FreshInv, TrackInv,
       DeviceInv, NoEventAfterClose, PolledIsTracked, Entered, BetweenErasures, Lowest, Alive,
       vars, objVars, netVars, mapVars, mainVars, loopVars
  <2>2. QED BY <1>1, <2>1 DEF TInv
<1>3. CASE Next
  BY <1>1, <1>3, MainKeepsParts, LoopKeepsParts, EnvironmentKeepsParts DEF Next, TInv
<1>4. QED BY <1>2, <1>3
(* A Connection that is polled is one the idle timer can find. *)
THEOREM PolledAlwaysTracked == Spec => []PolledIsTracked
<1>1. TInv => PolledIsTracked
  BY DEF TInv, TrackParts
<1>2. QED BY InitTInv, NextTInv, <1>1, PTL DEF Spec

(* No event reaches a connection that is closed. *)
THEOREM NoEventEverAfterClose == Spec => []NoEventAfterClose
<1>1. TInv => NoEventAfterClose
  BY DEF TInv, TrackParts
<1>2. QED BY InitTInv, NextTInv, <1>1, PTL DEF Spec

(* An open connection's device entry is its own. *)
THEOREM AlwaysOwnDevice == Spec => []OwnDevice
<1>1. TInv => OwnDevice
  BY DEF TInv, TrackParts, DeviceInv, OwnDevice
<1>2. QED BY InitTInv, NextTInv, <1>1, PTL DEF Spec

-----------------------------------------------------------------------------
(* Only two steps change the loops' table: handleTimer's erasure and       *)
(* newConnection's insertion.                                              *)
LEMMA LoopTableSteps ==
  ASSUME Next, m_elConnectionMap' # m_elConnectionMap
  PROVE  InsertLoopMap \/ \E l \in Loops : ExpireFromLoop(l)
BY DEF Next, Main, Loop, Environment, Accept, AcceptExhausted, WireCallbacks, InsertServerMap,
   LockLoopMap, LockDeviceMap, InsertDevice, ReturnToLoop, EpollWait, HandleDangling,
   HandleUnwired, HandleRead, HandleHangup, LookupDevice, CloseDevice, CloseServer, HandleTimer,
   Scan, ForgetInServer, NetworkEvent, GrowIdle, TimerExpires, Die, mapVars

(* What leaves the loops' table is idle at that moment. *)
LEMMA StepTakesIdle ==
  ASSUME TInv, [Next]_vars, NEW f \in Fds,
         m_elConnectionMap[f] # NoConn, m_elConnectionMap'[f] # m_elConnectionMap[f]
  PROVE  idle[m_elConnectionMap[f]]
<1>1. CASE InsertLoopMap
  <2>1. fdOf[mconn] \in Fds /\ m_elConnectionMap[fdOf[mconn]] = NoConn
    BY <1>1 DEF InsertLoopMap, MainStep, TInv, IInv, TypeOK, RefInv, TrackParts, FreshInv
  <2>2. QED BY <1>1, <2>1 DEF InsertLoopMap, TInv, IInv, TypeOK
<1>2. ASSUME NEW l \in Loops, ExpireFromLoop(l) PROVE idle[m_elConnectionMap[f]]
  <2>1. PICK g \in Fds : /\ Lowest(g, m_timeoutFdQueue[l])
                         /\ m_elConnectionMap' = [m_elConnectionMap EXCEPT ![g] = NoConn]
    BY <1>2 DEF ExpireFromLoop
  <2>2. f = g
    BY <2>1 DEF TInv, IInv, TypeOK
  <2>3. lpc[l] = "expire"
    BY <1>2 DEF ExpireFromLoop, LoopStep
  <2>4. QED BY <2>1, <2>2, <2>3 DEF TInv, TrackParts, QueueInv, Lowest
<1>3. m_elConnectionMap' # m_elConnectionMap
  OBVIOUS
<1>4. Next
  BY <1>3 DEF vars, mapVars
<1>5. QED BY <1>1, <1>2, <1>3, <1>4, LoopTableSteps

(* The timer takes out only what is still idle. *)
THEOREM OnlyIdleEverLeaveLoop == Spec => OnlyIdleLeaveLoop
<1>1. TInv /\ [Next]_vars =>
        [\A f \in Fds :
           m_elConnectionMap[f] # NoConn /\ m_elConnectionMap'[f] # m_elConnectionMap[f]
             => idle[m_elConnectionMap[f]]]_vars
  BY StepTakesIdle
<1>2. QED BY InitTInv, NextTInv, <1>1, PTL DEF Spec, OnlyIdleLeaveLoop

(* A Connection in use is never let go of by both tables. *)
THEOREM ActiveAlwaysSurvives == Spec => ActiveSurvives
<1>1. ASSUME TInv, [Next]_vars, NEW c \in Conns, InTable(c), ~InTable(c)', mconn # c
      PROVE  m_disconnect[c] \/ idle[c]
  <2>1. PICK f \in Fds : m_ConnectionMap[f] = c \/ m_elConnectionMap[f] = c
    BY <1>1 DEF InTable
  <2>2. m_ConnectionMap'[f] # c /\ m_elConnectionMap'[f] # c
    BY <1>1 DEF InTable
  <2>3. CASE m_elConnectionMap[f] = c
    BY <1>1, <2>2, <2>3, StepTakesIdle, ConstantsAssumption
  <2>4. CASE m_elConnectionMap[f] # c
    <3>1. m_ConnectionMap[f] = c /\ Alive(c) /\ fdOf[c] = f
      BY <2>1, <2>4, <1>1, ConstantsAssumption DEF TInv, IInv, TablesAgree
    <3>2. PICK l \in Loops : lpc[l] = "forget" /\ Lowest(fdOf[c], m_timeoutFdQueue[l]) /\ idle[c]
      BY <1>1, <2>4, <3>1 DEF TInv, TrackParts, TrackInv, Entered, BetweenErasures
    <3>3. QED BY <3>2
  <2>5. QED BY <2>3, <2>4
<1>2. TInv /\ [Next]_vars =>
        [\A c \in Conns :
           InTable(c) /\ ~InTable(c)' /\ mconn # c => m_disconnect[c] \/ idle[c]]_vars
  BY <1>1
<1>3. QED BY InitTInv, NextTInv, <1>2, PTL DEF Spec, ActiveSurvives

-----------------------------------------------------------------------------
(***************************************************************************)
(* The refinement of Registry.  What the tables drop and what ~Connection  *)
(* takes with it has to be one connection at a time, and none that its     *)
(* client may still count on.                                              *)
(***************************************************************************)

(* A live Connection is held by someone: it never leaks. *)
HeldInv == \A c \in Conns : Alive(c) => Held(c)

RInv == TInv /\ HeldInv

(* The idle timer, or a close before it, has taken c out of the loop's     *)
(* table.                                                                  *)
GivenUp(c) == Entered(c) /\ m_elConnectionMap[fdOf[c]] # c

(* What has no owner any more is destroyed on the spot. *)
LEMMA DropKeepsHeld ==
  ASSUME TInv, DestroyUnheld
  PROVE  HeldInv'
BY DropFacts DEF HeldInv, DestroyUnheld, Alive, Held, TInv, IInv, TypeOK, TrackParts

(* A step that drops nothing keeps every owner. *)
LEMMA KeepHeld ==
  ASSUME HeldInv,
         UNCHANGED <<phase, m_ConnectionMap, m_elConnectionMap, mconn>>,
         \A l \in Loops : cur[l] # NoConn => cur'[l] = cur[l]
  PROVE  HeldInv'
<1> SUFFICES ASSUME NEW c \in Conns, Alive(c)' PROVE Held(c)'
  BY DEF HeldInv
<1>1. Held(c)
  BY DEF HeldInv, Alive
<1>2. CASE \E l \in Loops : cur[l] = c
  <2>1. PICK l \in Loops : cur[l] = c
    BY <1>2
  <2>2. cur'[l] = c
    BY <2>1, ConstantsAssumption
  <2>3. QED BY <2>2 DEF Held
<1>3. CASE ~ \E l \in Loops : cur[l] = c
  BY <1>1, <1>3 DEF Held
<1>4. QED BY <1>2, <1>3

(* No step leaves a live Connection that nobody holds. *)
LEMMA NextKeepsHeld ==
  ASSUME TInv, HeldInv, Next
  PROVE  HeldInv'
<1>1. ASSUME NEW c \in Conns, Accept(c) PROVE HeldInv'
  <2>1. /\ mconn = NoConn /\ mconn' = c
        /\ phase' = [phase EXCEPT ![c] = "alive"]
        /\ UNCHANGED <<mapVars, loopVars>>
    BY <1>1 DEF Accept, TInv, TrackParts, PlaceInv
  <2>2. SUFFICES ASSUME NEW d \in Conns, Alive(d)' PROVE Held(d)'
    BY DEF HeldInv
  <2>3. CASE d = c
    BY <2>1, <2>3 DEF Held
  <2>4. CASE d # c
    <3>1. Alive(d)
      BY <2>1, <2>2, <2>4 DEF Alive, TInv, IInv, TypeOK
    <3>2. Held(d) /\ mconn # d
      BY <2>1, <3>1, ConstantsAssumption DEF HeldInv
    <3>3. QED BY <2>1, <3>2 DEF Held, mapVars, loopVars
  <2>5. QED BY <2>3, <2>4
<1>2. CASE \/ InsertServerMap \/ InsertLoopMap \/ ReturnToLoop
           \/ \E l \in Loops : CloseServer(l) \/ ExpireFromLoop(l) \/ ForgetInServer(l)
  BY <1>2, DropKeepsHeld DEF InsertServerMap, InsertLoopMap, ReturnToLoop, CloseServer,
     ExpireFromLoop, ForgetInServer
<1>3. CASE AcceptExhausted \/ WireCallbacks \/ LockLoopMap \/ LockDeviceMap \/ InsertDevice
  BY <1>3, KeepHeld DEF AcceptExhausted, Die, WireCallbacks, LockLoopMap, LockDeviceMap,
     InsertDevice, objVars, mapVars, mainVars, loopVars
<1>4. ASSUME NEW l \in Loops, LookupDevice(l) PROVE HeldInv'
  <2>1. CASE DestroyUnheld
    BY <2>1, DropKeepsHeld
  <2>2. CASE ~DestroyUnheld
    <3>1. UNCHANGED <<phase, m_ConnectionMap, m_elConnectionMap, mconn, cur>>
      BY <1>4, <2>2 DEF LookupDevice, Die, objVars, mapVars, mainVars, loopVars
    <3>2. QED BY <3>1, KeepHeld
  <2>3. QED BY <2>1, <2>2
<1>5. ASSUME NEW l \in Loops, NEW c \in Conns, HandleRead(l, c) \/ HandleHangup(l, c)
      PROVE  HeldInv'
  <2>1. lpc[l] = "loop"
    BY <1>5 DEF HandleRead, HandleHangup, Take
  <2>2. cur[l] = NoConn
    BY <2>1 DEF TInv, TrackParts, PlaceInv
  <2>3. UNCHANGED <<phase, m_ConnectionMap, m_elConnectionMap, mconn>>
    BY <1>5 DEF HandleRead, HandleHangup, mapVars, mainVars
  <2>4. cur' = cur \/ cur' = [cur EXCEPT ![l] = c]
    BY <1>5 DEF HandleRead, HandleHangup
  <2>5. \A k \in Loops : cur[k] # NoConn => cur'[k] = cur[k]
    BY <2>2, <2>4 DEF TInv, IInv, TypeOK
  <2>6. QED BY <2>3, <2>5, KeepHeld
<1>6. ASSUME NEW l \in Loops,
             \/ EpollWait(l) \/ CloseDevice(l) \/ HandleTimer(l) \/ Scan(l) \/ TimerExpires(l)
             \/ \E c \in Conns : HandleDangling(l, c) \/ HandleUnwired(l, c)
      PROVE  HeldInv'
  BY <1>6, KeepHeld DEF EpollWait, CloseDevice, HandleTimer, Scan, TimerExpires, HandleDangling,
     HandleUnwired, Die, objVars, mapVars, mainVars, loopVars
<1>7. ASSUME NEW c \in Conns, GrowIdle(c) \/ \E what \in {"data", "fin", "err"} : NetworkEvent(c, what)
      PROVE  HeldInv'
  BY <1>7, KeepHeld DEF GrowIdle, NetworkEvent, objVars, mapVars, mainVars, loopVars
<1>8. QED
  BY <1>1, <1>2, <1>3, <1>4, <1>5, <1>6, <1>7 DEF Next, Main, Loop, Environment

(* RInv is inductive. *)
THEOREM NextRInv == RInv /\ [Next]_vars => RInv'
<1> SUFFICES ASSUME RInv, [Next]_vars PROVE RInv'
  OBVIOUS
<1>1. TInv'
  BY NextTInv DEF RInv
<1>2. CASE UNCHANGED vars
  BY <1>1, <1>2, KeepHeld DEF RInv, vars, objVars, mapVars, mainVars, loopVars
<1>3. CASE Next
  BY <1>1, <1>3, NextKeepsHeld DEF RInv
<1>4. QED BY <1>2, <1>3

-----------------------------------------------------------------------------
(* Nothing a client could notice. *)
LEMMA NoNotice ==
  ASSUME \A c \in Conns : StatusOf(c)' = StatusOf(c), idle' = idle, fdOf' = fdOf
  PROVE  UNCHANGED Clients!registryVars
BY DEF Clients!registryVars

(* One connection changes its status, the others keep theirs. *)
LEMMA OneBecomes ==
  ASSUME NEW c \in Conns, NEW from, NEW to,
         StatusOf(c) \in from, StatusOf(c)' = to,
         \A d \in Conns : d # c => StatusOf(d)' = StatusOf(d)
  PROVE  Clients!Become(c, from, to)
BY DEF Clients!Become

(* Whose status a step leaves alone. *)
LEMMA SameStatus ==
  ASSUME NEW c \in Conns, phase'[c] = phase[c], m_disconnect'[c] = m_disconnect[c],
         Alive(c) => (GivenUp(c)' <=> GivenUp(c))
  PROVE  StatusOf(c)' = StatusOf(c)
BY DEF StatusOf, GivenUp, Alive

(* A step that drops references lets go of one connection at most, and of  *)
(* an open one only because the timer has found it idle.                   *)
LEMMA DropRefines ==
  ASSUME RInv, DestroyUnheld, NEW x,
         \A c \in Conns : c # x /\ Alive(c) => Held(c)' /\ (GivenUp(c)' <=> GivenUp(c)),
         x \in Conns /\ Alive(x) =>
           /\ GivenUp(x) => GivenUp(x)'
           /\ GivenUp(x)' => GivenUp(x) \/ idle[x] \/ m_disconnect[x]
  PROVE  Clients!RegistryNext \/ UNCHANGED Clients!registryVars
<1>1. UNCHANGED <<fdOf, m_disconnect, idle>>
  BY DEF DestroyUnheld
<1>2. ASSUME NEW c \in Conns, c # x PROVE StatusOf(c)' = StatusOf(c)
  <2>1. phase'[c] = phase[c]
    BY <1>2 DEF DestroyUnheld
  <2>2. QED BY <1>1, <1>2, <2>1, SameStatus
<1>3. CASE x \notin Conns \/ StatusOf(x)' = StatusOf(x)
  BY <1>1, <1>2, <1>3, NoNotice
<1>4. CASE x \in Conns /\ StatusOf(x)' # StatusOf(x)
  <2>1. x \in Conns
    BY <1>4
  <2>2. Alive(x)
    <3>1. SUFFICES ASSUME ~Alive(x) PROVE FALSE
      OBVIOUS
    <3>2. phase'[x] = phase[x]
      BY <2>1, <3>1 DEF DestroyUnheld
    <3>3. QED BY <1>1, <1>4, <2>1, <3>1, <3>2, SameStatus
  <2>3. CASE Held(x)'
    <3>1. phase'[x] = phase[x]
      BY <2>1, <2>3 DEF DestroyUnheld
    <3>2. ~GivenUp(x) /\ GivenUp(x)' /\ ~m_disconnect[x]
      BY <1>1, <1>4, <2>1, <2>2, <3>1, SameStatus DEF StatusOf
    <3>3. idle[x] /\ StatusOf(x) = "open" /\ StatusOf(x)' = "expired"
      BY <1>1, <2>1, <2>2, <3>1, <3>2 DEF StatusOf, GivenUp, Alive
    <3>4. Clients!Become(x, {"open"}, "expired")
      BY <1>2, <2>1, <3>3, OneBecomes
    <3>5. Clients!Expire(x)
      BY <1>1, <3>3, <3>4 DEF Clients!Expire
    <3>6. QED BY <2>1, <3>5 DEF Clients!RegistryNext
  <2>4. CASE ~Held(x)'
    <3>1. phase'[x] = "destroyed"
      BY <2>1, <2>2, <2>4 DEF DestroyUnheld
    <3>2. StatusOf(x)' = "gone"
      BY <3>1 DEF StatusOf
    <3>3. fdOf[x] \in Fds
      BY <2>1, <2>2 DEF RInv, TInv, IInv, RefInv
    <3>4. GivenUp(x)'
      BY <1>1, <2>4, <3>3 DEF GivenUp, Entered, Held
    <3>5. StatusOf(x) \in {"closed", "expired"} \/ (StatusOf(x) = "open" /\ idle[x])
      BY <2>1, <2>2, <3>4 DEF StatusOf, GivenUp, Alive
    <3>6. \/ Clients!Become(x, {"closed", "expired"}, "gone")
          \/ idle[x] /\ Clients!Become(x, {"open"}, "gone")
      BY <1>2, <2>1, <3>2, <3>5, OneBecomes
    <3>7. Clients!Reclaim(x)
      BY <1>1, <3>6 DEF Clients!Reclaim
    <3>8. QED BY <2>1, <3>7 DEF Clients!RegistryNext
  <2>5. QED BY <2>3, <2>4
<1>5. QED BY <1>3, <1>4

(* In the tables, what a descriptor names is one live connection. *)
LEMMA EntryFacts ==
  ASSUME TInv, NEW f \in Fds, NEW c \in Conns,
         m_ConnectionMap[f] = c \/ m_elConnectionMap[f] = c
  PROVE  Alive(c) /\ fdOf[c] = f
BY ConstantsAssumption DEF TInv, IInv, TablesAgree

(* Each step of the main thread that drops references or accepts. *)
LEMMA MainRefines ==
  ASSUME RInv, RInv', Main
  PROVE  Clients!RegistryNext \/ UNCHANGED Clients!registryVars
<1> USE ConstantsAssumption
<1>1. ASSUME NEW c \in Conns, Accept(c) PROVE Clients!RegistryNext
  <2>1. PICK f \in FreeFds : fdOf' = [fdOf EXCEPT ![c] = f]
    BY <1>1 DEF Accept
  <2>2. /\ phase[c] = "unborn" /\ mconn = NoConn
        /\ phase' = [phase EXCEPT ![c] = "alive"]
        /\ mconn' = c /\ mpc' = "wire"
        /\ UNCHANGED <<m_disconnect, idle, mapVars>>
    BY <1>1 DEF Accept, RInv, TInv, TrackParts, PlaceInv
  <2>3. f \in Fds /\ \A d \in Conns : Alive(d) => fdOf[d] # f
    BY <2>1 DEF FreeFds
  <2>4. StatusOf(c) = "unborn"
    BY <2>2 DEF StatusOf
  <2>5. StatusOf(c)' = "open"
    <3>1. phase'[c] = "alive"
      BY <2>2 DEF RInv, TInv, IInv, TypeOK
    <3>2. ~m_disconnect'[c]
      BY <2>2 DEF RInv, TInv, TrackParts, EventInv
    <3>3. ~Entered(c)'
      BY <2>2 DEF Entered
    <3>4. QED BY <3>1, <3>2, <3>3 DEF StatusOf
  <2>6. ASSUME NEW d \in Conns, d # c PROVE StatusOf(d)' = StatusOf(d)
    <3>1. phase'[d] = phase[d] /\ m_disconnect'[d] = m_disconnect[d] /\ fdOf'[d] = fdOf[d]
      BY <2>1, <2>2, <2>6 DEF RInv, TInv, IInv, TypeOK
    <3>2. Alive(d) => (GivenUp(d)' <=> GivenUp(d))
      BY <2>2, <2>6, <3>1 DEF GivenUp, Entered, mapVars
    <3>3. QED BY <3>1, <3>2, SameStatus
  <2>7. Clients!Become(c, {"unborn"}, "open")
    BY <2>4, <2>5, <2>6, OneBecomes
  <2>8. \A e \in Conns : Clients!Live(e) => Alive(e)
    BY DEF Clients!Live, StatusOf, Alive
  <2>9. f \in Fds \ {fdOf[d] : d \in {e \in Conns : Clients!Live(e)}}
    BY <2>3, <2>8
  <2>10. Clients!Connect(c)
    BY <2>1, <2>2, <2>7, <2>9 DEF Clients!Connect
  <2>11. QED BY <2>10 DEF Clients!RegistryNext
<1>2. CASE AcceptExhausted \/ WireCallbacks \/ LockLoopMap \/ LockDeviceMap \/ InsertDevice
  <2>1. UNCHANGED <<phase, fdOf, m_disconnect, idle, m_elConnectionMap, mconn>>
    BY <1>2 DEF AcceptExhausted, Die, WireCallbacks, LockLoopMap, LockDeviceMap, InsertDevice,
       objVars, mapVars, mainVars
  <2>2. \A c \in Conns : Entered(c)' <=> Entered(c)
    BY <1>2, <2>1 DEF AcceptExhausted, Die, WireCallbacks, LockLoopMap, LockDeviceMap,
       InsertDevice, MainStep, Entered, mainVars
  <2>3. \A c \in Conns : StatusOf(c)' = StatusOf(c)
    BY <2>1, <2>2, SameStatus DEF GivenUp
  <2>4. QED BY <2>1, <2>3, NoNotice
<1>3. CASE InsertServerMap
  <2>1. /\ mpc = "server_map" /\ mpc' = "loop_map" /\ mconn \in Conns
        /\ fdOf[mconn] \in Fds /\ Alive(mconn)
        /\ m_ConnectionMap' = [m_ConnectionMap EXCEPT ![fdOf[mconn]] = mconn]
        /\ UNCHANGED <<m_elConnectionMap, mconn, cur, fdOf>>
        /\ DestroyUnheld
    BY <1>3 DEF InsertServerMap, MainStep, RInv, TInv, IInv, TypeOK, RefInv, DestroyUnheld, loopVars
  <2>2. ASSUME NEW c \in Conns, Alive(c) PROVE Held(c)' /\ (GivenUp(c)' <=> GivenUp(c))
    <3>1. GivenUp(c)' <=> GivenUp(c)
      BY <2>1 DEF GivenUp, Entered
    <3>2. \A f \in Fds : m_ConnectionMap[f] = c => m_ConnectionMap'[f] = c
      BY <2>1, <2>2, EntryFacts DEF RInv, TInv, IInv, TypeOK, TablesAgree
    <3>3. Held(c)
      BY <2>2 DEF RInv, HeldInv
    <3>4. Held(c)'
      BY <2>1, <3>2, <3>3 DEF Held
    <3>5. QED BY <3>1, <3>4
  <2>3. QED BY <2>1, <2>2, DropRefines
<1>4. CASE InsertLoopMap
  <2>1. /\ mpc = "loop_map_locked" /\ mpc' = "device_map" /\ mconn \in Conns
        /\ fdOf[mconn] \in Fds /\ Alive(mconn) /\ m_elConnectionMap[fdOf[mconn]] = NoConn
        /\ m_elConnectionMap' = [m_elConnectionMap EXCEPT ![fdOf[mconn]] = mconn]
        /\ UNCHANGED <<m_ConnectionMap, mconn, cur, fdOf>>
        /\ DestroyUnheld
    BY <1>4 DEF InsertLoopMap, MainStep, RInv, TInv, IInv, TypeOK, RefInv, TrackParts, FreshInv,
       DestroyUnheld, loopVars
  <2>2. ASSUME NEW c \in Conns, Alive(c) PROVE Held(c)' /\ (GivenUp(c)' <=> GivenUp(c))
    <3>1. \A f \in Fds : m_elConnectionMap[f] = c => m_elConnectionMap'[f] = c
      BY <2>1 DEF RInv, TInv, IInv, TypeOK
    <3>2. Held(c)
      BY <2>2 DEF RInv, HeldInv
    <3>3. Held(c)'
      BY <2>1, <3>1, <3>2 DEF Held
    <3>4. CASE c = mconn
      <4>1. m_elConnectionMap'[fdOf'[c]] = c
        BY <2>1, <3>4 DEF RInv, TInv, IInv, TypeOK
      <4>2. ~Entered(c)
        BY <2>1, <3>4 DEF Entered
      <4>3. QED BY <3>3, <4>1, <4>2 DEF GivenUp
    <3>5. CASE c # mconn
      <4>1. fdOf[c] \in Fds /\ fdOf[c] # fdOf[mconn]
        BY <2>1, <2>2, <3>5 DEF RInv, TInv, IInv, RefInv, TablesAgree
      <4>2. QED BY <2>1, <3>3, <3>5, <4>1 DEF GivenUp, Entered, RInv, TInv, IInv, TypeOK
    <3>6. QED BY <3>3, <3>4, <3>5
  <2>3. QED BY <2>1, <2>2, DropRefines
<1>5. CASE ReturnToLoop
  <2>1. /\ mpc = "return" /\ mconn' = NoConn
        /\ UNCHANGED <<m_ConnectionMap, m_elConnectionMap, cur, fdOf>>
        /\ DestroyUnheld
    BY <1>5 DEF ReturnToLoop, MainStep, mapVars, loopVars, DestroyUnheld
  <2>2. ASSUME NEW c \in Conns PROVE GivenUp(c)' <=> GivenUp(c)
    BY <2>1 DEF GivenUp, Entered
  <2>3. ASSUME NEW c \in Conns, c # mconn, Alive(c) PROVE Held(c)'
    BY <2>1, <2>3 DEF Held, RInv, HeldInv
  <2>4. QED BY <2>1, <2>2, <2>3, DropRefines
<1>6. QED BY <1>1, <1>2, <1>3, <1>4, <1>5 DEF Main

(* The I/O threads' steps that drop no reference. *)
LEMMA LoopQuietRefines ==
  ASSUME RInv, NEW l \in Loops,
         \/ EpollWait(l) \/ CloseDevice(l) \/ HandleTimer(l) \/ Scan(l)
         \/ \E c \in Conns : \/ HandleDangling(l, c) \/ HandleUnwired(l, c)
                             \/ HandleRead(l, c) \/ HandleHangup(l, c)
  PROVE  Clients!RegistryNext \/ UNCHANGED Clients!registryVars
<1>1. UNCHANGED <<phase, fdOf, m_elConnectionMap, mconn, mpc>>
  BY DEF EpollWait, CloseDevice, HandleTimer, Scan, HandleDangling, HandleUnwired, HandleRead,
     HandleHangup, Die, objVars, mapVars, mainVars
<1>2. \A c \in Conns : GivenUp(c)' <=> GivenUp(c)
  BY <1>1 DEF GivenUp, Entered
<1>3. ASSUME NEW c \in Conns, HandleRead(l, c), idle' # idle
      PROVE  Clients!RegistryNext
  <2>1. /\ c \in batch[l] /\ Alive(c) /\ m_disconnect' = m_disconnect
        /\ idle' = [idle EXCEPT ![c] = FALSE]
    BY <1>3 DEF HandleRead, Take
  <2>2. ~m_disconnect[c]
    BY <2>1 DEF RInv, TInv, TrackParts, NoEventAfterClose
  <2>3. StatusOf(c) \in {"open", "expired"}
    BY <2>1, <2>2 DEF StatusOf, Alive
  <2>4. \A d \in Conns : StatusOf(d)' = StatusOf(d)
    BY <1>1, <1>2, <2>1, SameStatus
  <2>5. Clients!Speak(c)
    BY <1>1, <2>1, <2>3, <2>4 DEF Clients!Speak
  <2>6. QED BY <2>5 DEF Clients!RegistryNext
<1>4. ASSUME NEW c \in Conns, HandleHangup(l, c) PROVE Clients!RegistryNext
  <2>1. /\ c \in batch[l] /\ Alive(c) /\ idle' = idle
        /\ m_disconnect' = [m_disconnect EXCEPT ![c] = TRUE]
    BY <1>4 DEF HandleHangup, Take
  <2>2. ~m_disconnect[c]
    BY <2>1 DEF RInv, TInv, TrackParts, NoEventAfterClose
  <2>3. StatusOf(c) \in {"open", "expired"}
    BY <2>1, <2>2 DEF StatusOf, Alive
  <2>4. StatusOf(c)' = "closed"
    BY <1>1, <2>1 DEF StatusOf, Alive, RInv, TInv, IInv, TypeOK
  <2>5. \A d \in Conns : d # c => m_disconnect'[d] = m_disconnect[d]
    BY <2>1 DEF RInv, TInv, IInv, TypeOK
  <2>6. \A d \in Conns : d # c => StatusOf(d)' = StatusOf(d)
    BY <1>1, <1>2, <2>5, SameStatus
  <2>7. Clients!Become(c, {"open", "expired"}, "closed")
    BY <2>3, <2>4, <2>6, OneBecomes
  <2>8. Clients!Disconnect(c)
    BY <1>1, <2>1, <2>7 DEF Clients!Disconnect
  <2>9. QED BY <2>8 DEF Clients!RegistryNext
<1>5. CASE UNCHANGED <<m_disconnect, idle>>
  BY <1>1, <1>2, <1>5, SameStatus, NoNotice
<1>6. CASE ~UNCHANGED <<m_disconnect, idle>>
  <2>1. \E c \in Conns : HandleHangup(l, c) \/ (HandleRead(l, c) /\ idle' # idle)
    BY <1>6 DEF EpollWait, CloseDevice, HandleTimer, Scan, HandleDangling, HandleUnwired,
       HandleRead, Die, objVars
  <2>2. QED BY <1>3, <1>4, <2>1
<1>7. QED BY <1>5, <1>6

(* The I/O threads' steps that drop one. *)
LEMMA LoopDropRefines ==
  ASSUME RInv, NEW l \in Loops,
         LookupDevice(l) \/ CloseServer(l) \/ ExpireFromLoop(l) \/ ForgetInServer(l)
  PROVE  Clients!RegistryNext \/ UNCHANGED Clients!registryVars
<1> USE ConstantsAssumption
<1>1. UNCHANGED <<mconn, mpc, fdOf>>
  BY DEF LookupDevice, CloseServer, ExpireFromLoop, ForgetInServer, Die, DestroyUnheld, objVars, mainVars
<1>2. \A c \in Conns : Alive(c) => Held(c) /\ fdOf[c] \in Fds
  BY DEF RInv, HeldInv, TInv, IInv, RefInv
<1>3. ASSUME NEW how, Die(how)
      PROVE  UNCHANGED Clients!registryVars
  <2>1. UNCHANGED <<phase, m_disconnect, idle, m_elConnectionMap>>
    BY <1>3 DEF Die, objVars, mapVars
  <2>2. \A c \in Conns : StatusOf(c)' = StatusOf(c)
    BY <1>1, <2>1, SameStatus DEF GivenUp, Entered
  <2>3. QED BY <1>1, <2>1, <2>2, NoNotice
<1>4. CASE /\ LoopStep(l, "lookup", "loop")
           /\ cur' = [cur EXCEPT ![l] = NoConn]
           /\ UNCHANGED <<m_ConnectionMap, m_elConnectionMap>>
           /\ DestroyUnheld
  <2>1. \A c \in Conns : GivenUp(c)' <=> GivenUp(c)
    BY <1>1, <1>4 DEF GivenUp, Entered
  <2>2. ASSUME NEW c \in Conns, c # cur[l], Alive(c) PROVE Held(c)'
    <3>1. \A k \in Loops : cur[k] = c => cur'[k] = c
      BY <1>4, <2>2 DEF RInv, TInv, IInv, TypeOK
    <3>2. QED BY <1>1, <1>2, <1>4, <2>2, <3>1 DEF Held
  <2>3. QED BY <1>4, <2>1, <2>2, DropRefines
<1>5. CASE CloseServer(l)
  <2>1. /\ cur[l] \in Conns /\ Alive(cur[l]) /\ fdOf[cur[l]] \in Fds
        /\ cur' = [cur EXCEPT ![l] = NoConn]
        /\ m_ConnectionMap' = [m_ConnectionMap EXCEPT ![fdOf[cur[l]]] = NoConn]
        /\ m_elConnectionMap' = m_elConnectionMap
        /\ DestroyUnheld
    BY <1>5 DEF CloseServer, LoopStep, RInv, TInv, IInv, TypeOK, RefInv
  <2>2. \A c \in Conns : GivenUp(c)' <=> GivenUp(c)
    BY <1>1, <2>1 DEF GivenUp, Entered
  <2>3. ASSUME NEW c \in Conns, c # cur[l], Alive(c) PROVE Held(c)'
    <3>1. \A k \in Loops : cur[k] = c => cur'[k] = c
      BY <2>1, <2>3 DEF RInv, TInv, IInv, TypeOK
    <3>2. fdOf[c] # fdOf[cur[l]]
      BY <2>1, <2>3 DEF RInv, TInv, IInv, TablesAgree
    <3>3. \A f \in Fds : m_ConnectionMap[f] = c => m_ConnectionMap'[f] = c
      BY <2>1, <3>2, EntryFacts DEF RInv, TInv, IInv, TypeOK
    <3>4. QED BY <1>1, <1>2, <2>1, <2>3, <3>1, <3>3 DEF Held
  <2>4. QED BY <2>1, <2>2, <2>3, DropRefines
<1>6. CASE ExpireFromLoop(l)
  <2>1. PICK f \in Fds : /\ Lowest(f, m_timeoutFdQueue[l])
                         /\ m_elConnectionMap' = [m_elConnectionMap EXCEPT ![f] = NoConn]
    BY <1>6 DEF ExpireFromLoop
  <2>2. lpc[l] = "expire" /\ UNCHANGED <<m_ConnectionMap, cur>> /\ DestroyUnheld
    BY <1>6 DEF ExpireFromLoop, LoopStep
  <2>3. PICK x : x = m_elConnectionMap[f]
    OBVIOUS
  <2>4. \A g \in Fds : m_elConnectionMap'[g] = IF g = f THEN NoConn ELSE m_elConnectionMap[g]
    BY <2>1 DEF RInv, TInv, IInv, TypeOK
  <2>5. ASSUME NEW c \in Conns, c # x, Alive(c)
        PROVE  Held(c)' /\ (GivenUp(c)' <=> GivenUp(c))
    <3>1. \A g \in Fds : m_elConnectionMap[g] = c <=> m_elConnectionMap'[g] = c
      BY <2>3, <2>4, <2>5
    <3>2. Held(c)'
      BY <1>1, <1>2, <2>2, <2>5, <3>1 DEF Held
    <3>3. GivenUp(c)' <=> GivenUp(c)
      BY <1>1, <1>2, <2>5, <3>1 DEF GivenUp, Entered
    <3>4. QED BY <3>2, <3>3
  <2>6. x \in Conns => idle[x] /\ ~GivenUp(x)
    <3>1. idle[x]
      BY <2>1, <2>2, <2>3 DEF RInv, TInv, TrackParts, QueueInv, Lowest
    <3>2. x \in Conns => fdOf[x] = f
      BY <2>3, EntryFacts DEF RInv
    <3>3. QED BY <2>3, <3>1, <3>2 DEF GivenUp
  <2>7. QED BY <2>2, <2>5, <2>6, DropRefines
<1>7. CASE ForgetInServer(l)
  <2>1. PICK f \in Fds : m_ConnectionMap' = [m_ConnectionMap EXCEPT ![f] = NoConn]
    BY <1>7 DEF ForgetInServer
  <2>2. UNCHANGED <<m_elConnectionMap, cur>> /\ DestroyUnheld
    BY <1>7 DEF ForgetInServer
  <2>3. \A c \in Conns : GivenUp(c)' <=> GivenUp(c)
    BY <1>1, <2>2 DEF GivenUp, Entered
  <2>4. ASSUME NEW c \in Conns, c # m_ConnectionMap[f], Alive(c) PROVE Held(c)'
    <3>1. \A g \in Fds : m_ConnectionMap[g] = c => m_ConnectionMap'[g] = c
      BY <2>1, <2>4 DEF RInv, TInv, IInv, TypeOK
    <3>2. QED BY <1>1, <1>2, <2>2, <2>4, <3>1 DEF Held
  <2>5. QED BY <2>2, <2>3, <2>4, DropRefines
<1>8. CASE LookupDevice(l)
  BY <1>3, <1>4, <1>8 DEF LookupDevice
<1>9. QED BY <1>5, <1>6, <1>7, <1>8

(* Clients and the clock. *)
LEMMA EnvironmentRefines ==
  ASSUME RInv, Environment
  PROVE  Clients!RegistryNext \/ UNCHANGED Clients!registryVars
<1>1. UNCHANGED <<phase, fdOf, m_disconnect, m_elConnectionMap, mconn, mpc>>
  BY DEF Environment, NetworkEvent, GrowIdle, TimerExpires, objVars, mapVars, mainVars
<1>2. \A c \in Conns : StatusOf(c)' = StatusOf(c)
  BY <1>1, SameStatus DEF GivenUp, Entered
<1>3. CASE idle' = idle
  BY <1>1, <1>2, <1>3, NoNotice
<1>4. CASE idle' # idle
  <2>1. PICK c \in Conns : GrowIdle(c)
    BY <1>4 DEF Environment, NetworkEvent, TimerExpires, objVars
  <2>2. Clients!Live(c)
    BY <2>1 DEF GrowIdle, Clients!Live, StatusOf, Alive
  <2>3. Clients!FallSilent(c)
    BY <1>1, <1>2, <2>1, <2>2 DEF Clients!FallSilent, GrowIdle
  <2>4. QED BY <2>3 DEF Clients!RegistryNext
<1>5. QED BY <1>3, <1>4

(* Three tables, shared ownership and the timer implement Registry: no     *)
(* client loses an open connection that it uses, none is heard or closed   *)
(* again after its close, and no descriptor names two live connections.    *)
THEOREM ServerImplementsRegistry == Spec => ImplementsRegistry
<1>1. Init => RInv
  <2>1. Init => HeldInv
    BY DEF Init, HeldInv, Alive
  <2>2. QED BY <2>1, InitTInv DEF RInv
<1>2. Init => Clients!RegistryInit
  BY DEF Init, Clients!RegistryInit, StatusOf
<1>3. RInv /\ RInv' /\ [Next]_vars => [Clients!RegistryNext]_(Clients!registryVars)
  <2> SUFFICES ASSUME RInv, RInv', [Next]_vars
               PROVE  Clients!RegistryNext \/ UNCHANGED Clients!registryVars
    OBVIOUS
  <2>1. CASE UNCHANGED vars
    <3>1. UNCHANGED <<phase, fdOf, m_disconnect, idle, m_elConnectionMap, mconn, mpc>>
      BY <2>1 DEF vars, objVars, mapVars, mainVars
    <3>2. \A c \in Conns : StatusOf(c)' = StatusOf(c)
      BY <3>1, SameStatus DEF GivenUp, Entered
    <3>3. QED BY <3>1, <3>2, NoNotice
  <2>2. CASE Main
    BY <2>2, MainRefines
  <2>3. ASSUME NEW l \in Loops, Loop(l)
        PROVE  Clients!RegistryNext \/ UNCHANGED Clients!registryVars
    BY <2>3, LoopQuietRefines, LoopDropRefines DEF Loop
  <2>4. CASE Environment
    BY <2>4, EnvironmentRefines
  <2>5. QED BY <2>1, <2>2, <2>3, <2>4 DEF Next
<1>4. QED BY <1>1, <1>2, <1>3, NextRInv, PTL DEF Spec, ImplementsRegistry, Clients!RegistrySpec
=============================================================================
