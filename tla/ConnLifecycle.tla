---------------------------- MODULE ConnLifecycle ----------------------------
(***************************************************************************)
(* The life of a client connection: the main thread accepts it and enters  *)
(* it in three tables, the I/O thread of its event loop delivers its       *)
(* events, and its close, its error or the idle timer takes it out again.  *)
(*                                                                         *)
(* A Connection is owned by shared_ptrs only, so it is destroyed (and its  *)
(* descriptor closed, free for the next accept) by whichever step drops    *)
(* the last of them.  The tables are keyed by descriptor, not by object.   *)
(*                                                                         *)
(* Modelled with no worker threads, as navServer.cpp configures it:        *)
(* messages are handled on the I/O thread.  Bytes are abstracted to "there *)
(* is unread data", time to "idle for longer than m_timeout".              *)
(***************************************************************************)
EXTENDS Integers, FiniteSets

CONSTANTS
  Conns,       (* the Connection objects the server may ever create         *)
  Fds,         (* the descriptors the kernel can hand out to connections    *)
  ThreadNum,   (* m_threadNum: number of sub event loops and I/O threads    *)
  Timer,       (* the timerfd's Channel, as an element of a batch           *)
  NoConn,      (* an absent table entry, or no connection                   *)
  NullDevice   (* an entry operator[] created: a null shared_ptr            *)

ASSUME ConstantsAssumption ==
  /\ Fds \subseteq Nat
  /\ ThreadNum \in Nat \ {0}
  /\ Timer \notin Conns
  /\ NoConn \notin Conns
  /\ NullDevice \notin Conns \union {NoConn}

Loops == 0 .. ThreadNum - 1

(* newConnection picks the sub loop m_subLoops[fd % m_threadNum]. *)
LoopOf(f) == f % ThreadNum

VARIABLES
  phase,             (* of each Connection: unborn, alive, destroyed         *)
  fdOf,              (* m_clientSock's descriptor                            *)
  wired,             (* the four callbacks of the Connection are set         *)
  m_disconnect,
  idle,              (* now - m_lastTime > m_timeout                         *)
  inTree,            (* the Channel is registered with epoll                 *)
  edge,              (* an edge is pending for the Channel (EPOLLET)         *)
  sock,              (* what the socket has for its reader                   *)
  m_ConnectionMap,   (* TcpServer's table                                    *)
  m_elConnectionMap, (* the event loops' tables; fd determines the loop      *)
  m_deviceInfoMap,   (* Navigation's table: whose DeviceInfo an entry is     *)
  mpc, mconn,        (* main thread: where it is in newConnection, conn      *)
  lpc, batch, cur,   (* I/O threads: where, unhandled events, shared_from_this *)
  m_timeoutFdQueue,
  timerDue,          (* the loop's timerfd is readable                       *)
  fault              (* how the process died, or "none"                      *)

objVars == <<phase, fdOf, wired, m_disconnect, idle>>
netVars == <<inTree, edge, sock>>
mapVars == <<m_ConnectionMap, m_elConnectionMap, m_deviceInfoMap>>
mainVars == <<mpc, mconn>>
loopVars == <<lpc, batch, cur, m_timeoutFdQueue, timerDue>>
vars == <<objVars, netVars, mapVars, mainVars, loopVars, fault>>

MainPCs == {"accept", "wire", "server_map", "loop_map", "loop_map_locked",
            "device_map", "device_map_locked", "return"}
LoopPCs == {"loop", "lookup", "close_device", "close_server",
            "scan", "expire", "forget"}
Faults == {"none", "bad_accept", "unset_callback", "dangling_channel", "null_device",
           "torn_map"}

TypeOK ==
  /\ phase \in [Conns -> {"unborn", "alive", "destroyed"}]
  /\ fdOf \in [Conns -> Fds \union {NoConn}]
  /\ wired \in [Conns -> BOOLEAN]
  /\ m_disconnect \in [Conns -> BOOLEAN]
  /\ idle \in [Conns -> BOOLEAN]
  /\ inTree \in [Conns -> BOOLEAN]
  /\ edge \in [Conns -> BOOLEAN]
  /\ sock \in [Conns -> {"quiet", "data", "fin", "err"}]
  /\ m_ConnectionMap \in [Fds -> Conns \union {NoConn}]
  /\ m_elConnectionMap \in [Fds -> Conns \union {NoConn}]
  /\ m_deviceInfoMap \in [Fds -> Conns \union {NoConn, NullDevice}]
  /\ mpc \in MainPCs
  /\ mconn \in Conns \union {NoConn}
  /\ lpc \in [Loops -> LoopPCs]
  /\ batch \in [Loops -> SUBSET (Conns \union {Timer})]
  /\ cur \in [Loops -> Conns \union {NoConn}]
  /\ m_timeoutFdQueue \in [Loops -> SUBSET Fds]
  /\ timerDue \in [Loops -> BOOLEAN]
  /\ fault \in Faults

Init ==
  /\ phase = [c \in Conns |-> "unborn"]
  /\ fdOf = [c \in Conns |-> NoConn]
  /\ wired = [c \in Conns |-> FALSE]
  /\ m_disconnect = [c \in Conns |-> FALSE]
  /\ idle = [c \in Conns |-> FALSE]
  /\ inTree = [c \in Conns |-> FALSE]
  /\ edge = [c \in Conns |-> FALSE]
  /\ sock = [c \in Conns |-> "quiet"]
  /\ m_ConnectionMap = [f \in Fds |-> NoConn]
  /\ m_elConnectionMap = [f \in Fds |-> NoConn]
  /\ m_deviceInfoMap = [f \in Fds |-> NoConn]
  /\ mpc = "accept"
  /\ mconn = NoConn
  /\ lpc = [l \in Loops |-> "loop"]
  /\ batch = [l \in Loops |-> {}]
  /\ cur = [l \in Loops |-> NoConn]
  /\ m_timeoutFdQueue = [l \in Loops |-> {}]
  /\ timerDue = [l \in Loops |-> FALSE]
  /\ fault = "none"

(***************************************************************************)
(* Ownership.                                                              *)
(***************************************************************************)
Alive(c) == phase[c] = "alive"

(* Variant: the event loop's table keeps raw pointers. *)
HeldOutsideLoop(c) ==
  mconn = c \/ (\E f \in Fds : m_ConnectionMap[f] = c) \/ (\E l \in Loops : cur[l] = c)

(* A shared_ptr to c exists: main's local, a table entry, or the copy that *)
(* shared_from_this() made for the callback in progress.                   *)
Held(c) ==
  \/ mconn = c
  \/ \E f \in Fds : m_ConnectionMap[f] = c \/ m_elConnectionMap[f] = c
  \/ \E l \in Loops : cur[l] = c

(* Every step that drops a reference ends with this: ~Connection closes    *)
(* the descriptor, which takes it off the epoll tree.  The Channel pointer *)
(* a batch may still contain stays there.                                  *)
DestroyUnheld ==
  LET dead == {c \in Conns : Alive(c) /\ ~Held(c)'}
  IN  /\ phase' = [c \in Conns |-> IF c \in dead THEN "destroyed" ELSE phase[c]]
      /\ inTree' = [c \in Conns |-> inTree[c] /\ c \notin dead]
      /\ edge' = [c \in Conns |-> edge[c] /\ c \notin dead]
      /\ sock' = [c \in Conns |-> IF c \in dead THEN "quiet" ELSE sock[c]]
      /\ UNCHANGED <<fdOf, wired, m_disconnect, idle>>

FreeFds == Fds \ {fdOf[c] : c \in {d \in Conns : Alive(d)}}

Lowest(f, S) == f \in S /\ \A g \in S : f <= g

Die(how) ==
  /\ fault' = how
  /\ UNCHANGED <<objVars, netVars, mapVars, mainVars, loopVars>>

(***************************************************************************)
(* The main thread: Acceptor::newConnection -> TcpServer::newConnection.   *)
(***************************************************************************)

(* accept4 returns the lowest free descriptor, and the constructor of      *)
(* Connection already registers it for reading with the loop's epoll.      *)
Accept(c) ==
  /\ mpc = "accept"
  /\ phase[c] = "unborn"
  /\ \E f \in FreeFds :
       /\ Lowest(f, FreeFds)
       /\ fdOf' = [fdOf EXCEPT ![c] = f]
  /\ phase' = [phase EXCEPT ![c] = "alive"]
  /\ inTree' = [inTree EXCEPT ![c] = TRUE]
  /\ mconn' = c
  /\ mpc' = "wire"
  /\ UNCHANGED <<wired, m_disconnect, idle, edge, sock, mapVars, loopVars, fault>>

(* With every descriptor in use accept4 returns -1, which nobody tests:    *)
(* m_subLoops[-1 % m_threadNum] is then indexed out of bounds.             *)
AcceptExhausted ==
  /\ mpc = "accept"
  /\ FreeFds = {}
  /\ \E c \in Conns : phase[c] = "unborn"
  /\ Die("bad_accept")

MainStep(from, to) == mpc = from /\ mpc' = to

(* setCloseCallback .. setSendCompleteCallback *)
WireCallbacks ==
  /\ MainStep("wire", "server_map")
  /\ wired' = [wired EXCEPT ![mconn] = TRUE]
  /\ UNCHANGED <<phase, fdOf, m_disconnect, idle, netVars, mapVars, mconn, loopVars, fault>>

(* Variant: the step that also enters conn in its loop's table is missing. *)
InsertServerMapOnly ==
  /\ MainStep("server_map", "device_map")
  /\ m_ConnectionMap' = [m_ConnectionMap EXCEPT ![fdOf[mconn]] = mconn]
  /\ UNCHANGED <<m_elConnectionMap, m_deviceInfoMap, mconn, loopVars, fault>>
  /\ DestroyUnheld

InsertServerMap ==
  /\ MainStep("server_map", "loop_map")
  /\ m_ConnectionMap' = [m_ConnectionMap EXCEPT ![fdOf[mconn]] = mconn]
  /\ UNCHANGED <<m_elConnectionMap, m_deviceInfoMap, mconn, loopVars, fault>>
  /\ DestroyUnheld

(* addNewConnection: lock m_elConnectionMapMutex ...                       *)
LockLoopMap ==
  /\ MainStep("loop_map", "loop_map_locked")
  /\ UNCHANGED <<objVars, netVars, mapVars, mconn, loopVars, fault>>

(* ... insert, and unlock. *)
InsertLoopMap ==
  /\ MainStep("loop_map_locked", "device_map")
  /\ m_elConnectionMap' = [m_elConnectionMap EXCEPT ![fdOf[mconn]] = mconn]
  /\ UNCHANGED <<m_ConnectionMap, m_deviceInfoMap, mconn, loopVars, fault>>
  /\ DestroyUnheld

(* Navigation::handleNewConnection: lock m_deviceMutex ...                 *)
LockDeviceMap ==
  /\ MainStep("device_map", "device_map_locked")
  /\ UNCHANGED <<objVars, netVars, mapVars, mconn, loopVars, fault>>

(* Variant: map::insert in place of operator[], which keeps a present entry. *)
InsertDeviceIfAbsent ==
  /\ MainStep("device_map_locked", "return")
  /\ m_deviceInfoMap' =
       [m_deviceInfoMap EXCEPT ![fdOf[mconn]] = IF @ = NoConn THEN mconn ELSE @]
  /\ UNCHANGED <<objVars, netVars, m_ConnectionMap, m_elConnectionMap, mconn, loopVars, fault>>

(* ... store a fresh DeviceInfo, and unlock. *)
InsertDevice ==
  /\ MainStep("device_map_locked", "return")
  /\ m_deviceInfoMap' = [m_deviceInfoMap EXCEPT ![fdOf[mconn]] = mconn]
  /\ UNCHANGED <<objVars, netVars, m_ConnectionMap, m_elConnectionMap, mconn, loopVars, fault>>

(* The local shared_ptr conn goes out of scope. *)
ReturnToLoop ==
  /\ MainStep("return", "accept")
  /\ mconn' = NoConn
  /\ UNCHANGED <<mapVars, loopVars, fault>>
  /\ DestroyUnheld

Main ==
  \/ \E c \in Conns : Accept(c)
  \/ AcceptExhausted
  \/ WireCallbacks \/ InsertServerMap
  \/ LockLoopMap \/ InsertLoopMap
  \/ LockDeviceMap \/ InsertDevice
  \/ ReturnToLoop

(***************************************************************************)
(* An I/O thread: EventLoop::run of sub loop l.                            *)
(***************************************************************************)
LoopStep(l, from, to) == lpc[l] = from /\ lpc' = [lpc EXCEPT ![l] = to]

Ready(l) ==
  {c \in Conns : inTree[c] /\ LoopOf(fdOf[c]) = l /\ edge[c]}
    \union (IF timerDue[l] THEN {Timer} ELSE {})

(* epoll_wait returns raw Channel pointers; an edge is reported once. *)
EpollWait(l) ==
  /\ lpc[l] = "loop" /\ batch[l] = {}
  /\ Ready(l) # {}
  /\ batch' = [batch EXCEPT ![l] = Ready(l)]
  /\ edge' = [c \in Conns |-> edge[c] /\ c \notin Ready(l)]
  /\ UNCHANGED <<objVars, inTree, sock, mapVars, mainVars, lpc, cur, m_timeoutFdQueue, timerDue, fault>>

(* The next event of the batch is taken up: ch->handleEvent(). *)
Take(l, item) ==
  /\ lpc[l] = "loop"
  /\ item \in batch[l]
  /\ batch' = [batch EXCEPT ![l] = @ \ {item}]

(* The Channel was destroyed with its Connection after epoll_wait. *)
HandleDangling(l, c) ==
  /\ lpc[l] = "loop" /\ c \in batch[l]
  /\ ~Alive(c)
  /\ Die("dangling_channel")

(* The event needs a callback of the Connection that newConnection has not *)
(* set yet: calling an empty std::function throws.                         *)
HandleUnwired(l, c) ==
  /\ lpc[l] = "loop" /\ c \in batch[l]
  /\ Alive(c) /\ ~wired[c]
  /\ Die("unset_callback")

(* EPOLLIN with no end of file: read until EAGAIN, so an edge that arose   *)
(* since epoll_wait has nothing left to report.  Either no message is      *)
(* complete yet, or m_lastTime is updated and the message is handled.      *)
HandleRead(l, c) ==
  /\ Take(l, c)
  /\ Alive(c)
  /\ sock[c] = "data"
  /\ sock' = [sock EXCEPT ![c] = "quiet"]
  /\ edge' = [edge EXCEPT ![c] = FALSE]
  /\ \/ UNCHANGED <<lpc, cur, idle>>
     \/ /\ wired[c]
        /\ idle' = [idle EXCEPT ![c] = FALSE]
        /\ cur' = [cur EXCEPT ![l] = c]
        /\ lpc' = [lpc EXCEPT ![l] = "lookup"]
  /\ UNCHANGED <<phase, fdOf, wired, m_disconnect, inTree, mapVars, mainVars,
                 m_timeoutFdQueue, timerDue, fault>>

(* Variant: closeCallback leaves the Channel on the tree. *)
HandleHangupPolled(l, c) ==
  /\ Take(l, c)
  /\ Alive(c) /\ wired[c]
  /\ sock[c] \in {"fin", "err"}
  /\ m_disconnect' = [m_disconnect EXCEPT ![c] = TRUE]
  /\ cur' = [cur EXCEPT ![l] = c]
  /\ lpc' = [lpc EXCEPT ![l] = "close_device"]
  /\ UNCHANGED <<phase, fdOf, wired, idle, netVars, mapVars, mainVars, m_timeoutFdQueue, timerDue, fault>>

(* read() returned 0, or only the error condition is set: closeCallback    *)
(* and errorCallback both start by taking the Channel off the tree.        *)
HandleHangup(l, c) ==
  /\ Take(l, c)
  /\ Alive(c) /\ wired[c]
  /\ sock[c] \in {"fin", "err"}
  /\ m_disconnect' = [m_disconnect EXCEPT ![c] = TRUE]
  /\ inTree' = [inTree EXCEPT ![c] = FALSE]
  /\ edge' = [edge EXCEPT ![c] = FALSE]
  /\ cur' = [cur EXCEPT ![l] = c]
  /\ lpc' = [lpc EXCEPT ![l] = "close_device"]
  /\ UNCHANGED <<phase, fdOf, wired, idle, sock, mapVars, mainVars, m_timeoutFdQueue, timerDue, fault>>

(* Another thread may be changing m_deviceInfoMap. *)
DeviceMapBusy(l) ==
  \/ mpc = "device_map_locked"
  \/ \E k \in Loops \ {l} : lpc[k] \in {"lookup", "close_device"}

(* handleMessageToThreadPool: m_deviceInfoMap[conn->fd()] without the lock *)
(* inserts a null entry for an absent key.  Only some business codes use   *)
(* the result.  Against a change under way it is a race: the process may   *)
(* survive it or not.                                                      *)
LookupDevice(l) ==
  LET f == fdOf[cur[l]]
      found == IF m_deviceInfoMap[f] = NoConn THEN NullDevice ELSE m_deviceInfoMap[f]
  IN  \/ /\ LoopStep(l, "lookup", "loop")
         /\ m_deviceInfoMap' = [m_deviceInfoMap EXCEPT ![f] = found]
         /\ cur' = [cur EXCEPT ![l] = NoConn]
         /\ UNCHANGED <<m_ConnectionMap, m_elConnectionMap, mainVars, batch, m_timeoutFdQueue, timerDue, fault>>
         /\ DestroyUnheld
      \/ /\ lpc[l] = "lookup"
         /\ found = NullDevice
         /\ Die("null_device")
      \/ /\ lpc[l] = "lookup"
         /\ DeviceMapBusy(l)
         /\ Die("torn_map")

(* Navigation::handleCloseConnection, under m_deviceMutex. *)
CloseDevice(l) ==
  /\ LoopStep(l, "close_device", "close_server")
  /\ mpc # "device_map_locked"
  /\ m_deviceInfoMap' = [m_deviceInfoMap EXCEPT ![fdOf[cur[l]]] = NoConn]
  /\ UNCHANGED <<objVars, netVars, m_ConnectionMap, m_elConnectionMap, mainVars, batch, cur,
                 m_timeoutFdQueue, timerDue, fault>>

(* TcpServer::closeConnection erases its own entry only: the loop's table  *)
(* keeps the Connection until the idle timer finds it.                     *)
CloseServer(l) ==
  /\ LoopStep(l, "close_server", "loop")
  /\ m_ConnectionMap' = [m_ConnectionMap EXCEPT ![fdOf[cur[l]]] = NoConn]
  /\ cur' = [cur EXCEPT ![l] = NoConn]
  /\ UNCHANGED <<m_elConnectionMap, m_deviceInfoMap, mainVars, batch, m_timeoutFdQueue, timerDue, fault>>
  /\ DestroyUnheld

(* handleTimer: re-arm the timerfd ... *)
HandleTimer(l) ==
  /\ Take(l, Timer)
  /\ LoopStep(l, "loop", "scan")
  /\ timerDue' = [timerDue EXCEPT ![l] = FALSE]
  /\ UNCHANGED <<objVars, netVars, mapVars, mainVars, cur, m_timeoutFdQueue, fault>>

(* Variants of the scan: it queues the place in the walk in place of the   *)
(* key, or passes over connections that are closed already.                *)
ExpiredPlaces(l) ==
  LET keys == {f \in Fds : LoopOf(f) = l /\ m_elConnectionMap[f] # NoConn}
  IN  {Cardinality({g \in keys : g < f}) : f \in {k \in keys : idle[m_elConnectionMap[k]]}}
ExpiredOpen(l) ==
  {f \in Fds : /\ LoopOf(f) = l
               /\ m_elConnectionMap[f] # NoConn
               /\ LET c == m_elConnectionMap[f] IN idle[c] /\ ~m_disconnect[c]}

Expired(l) ==
  {f \in Fds : /\ LoopOf(f) = l
               /\ m_elConnectionMap[f] # NoConn
               /\ idle[m_elConnectionMap[f]]}

MainHoldsLoopMap(l) == mpc = "loop_map_locked" /\ LoopOf(fdOf[mconn]) = l

(* ... walk the loop's table without its lock, queueing what has expired;  *)
(* the walk may not survive an insertion under way.                        *)
Scan(l) ==
  \/ /\ LoopStep(l, "scan", IF Expired(l) = {} THEN "loop" ELSE "expire")
     /\ m_timeoutFdQueue' = [m_timeoutFdQueue EXCEPT ![l] = Expired(l)]
     /\ UNCHANGED <<objVars, netVars, mapVars, mainVars, batch, cur, timerDue, fault>>
  \/ /\ lpc[l] = "scan"
     /\ MainHoldsLoopMap(l)
     /\ Die("torn_map")

(* the queue's fds ascend: erase the front one from the loop's table ...   *)
ExpireFromLoop(l) ==
  /\ LoopStep(l, "expire", "forget")
  /\ ~MainHoldsLoopMap(l)
  /\ \E f \in Fds :
       /\ Lowest(f, m_timeoutFdQueue[l])
       /\ m_elConnectionMap' = [m_elConnectionMap EXCEPT ![f] = NoConn]
  /\ UNCHANGED <<m_ConnectionMap, m_deviceInfoMap, mainVars, batch, cur, m_timeoutFdQueue, timerDue, fault>>
  /\ DestroyUnheld

(* Variant: both tables are erased from here, the lock taken once more. *)
ForgetInBoth(l) ==
  /\ \E f \in Fds :
       /\ Lowest(f, m_timeoutFdQueue[l])
       /\ LoopStep(l, "forget", IF m_timeoutFdQueue[l] = {f} THEN "loop" ELSE "expire")
       /\ m_ConnectionMap' = [m_ConnectionMap EXCEPT ![f] = NoConn]
       /\ m_elConnectionMap' = [m_elConnectionMap EXCEPT ![f] = NoConn]
       /\ m_timeoutFdQueue' = [m_timeoutFdQueue EXCEPT ![l] = @ \ {f}]
  /\ UNCHANGED <<m_deviceInfoMap, mainVars, batch, cur, timerDue, fault>>
  /\ DestroyUnheld

(* ... and, the lock released, whatever TcpServer's table has at that fd.  *)
(* m_handleConnectionTimeoutCallback is named there but never called.      *)
ForgetInServer(l) ==
  /\ \E f \in Fds :
       /\ Lowest(f, m_timeoutFdQueue[l])
       /\ LoopStep(l, "forget", IF m_timeoutFdQueue[l] = {f} THEN "loop" ELSE "expire")
       /\ m_ConnectionMap' = [m_ConnectionMap EXCEPT ![f] = NoConn]
       /\ m_timeoutFdQueue' = [m_timeoutFdQueue EXCEPT ![l] = @ \ {f}]
  /\ UNCHANGED <<m_elConnectionMap, m_deviceInfoMap, mainVars, batch, cur, timerDue, fault>>
  /\ DestroyUnheld

Loop(l) ==
  \/ EpollWait(l)
  \/ \E c \in Conns :
       HandleDangling(l, c) \/ HandleUnwired(l, c) \/ HandleRead(l, c) \/ HandleHangup(l, c)
  \/ LookupDevice(l) \/ CloseDevice(l) \/ CloseServer(l)
  \/ HandleTimer(l) \/ Scan(l) \/ ExpireFromLoop(l) \/ ForgetInServer(l)

(***************************************************************************)
(* The environment: clients, the network and the clock.                    *)
(***************************************************************************)

(* Data, the end of the stream (FIN or RST), or an error condition without *)
(* either arrives on a polled socket.  A reader that finds data and the    *)
(* end of the stream runs into the latter.                                 *)
NetworkEvent(c, what) ==
  /\ inTree[c]
  /\ sock[c] = "fin" => what = "fin"
  /\ what = "err" => sock[c] \in {"quiet", "err"}
  /\ sock' = [sock EXCEPT ![c] = what]
  /\ edge' = [edge EXCEPT ![c] = TRUE]
  /\ UNCHANGED <<objVars, inTree, mapVars, mainVars, loopVars, fault>>

(* m_timeout seconds pass without a message on c, perhaps before           *)
(* newConnection is done with it.                                          *)
GrowIdle(c) ==
  /\ Alive(c) /\ ~idle[c]
  /\ idle' = [idle EXCEPT ![c] = TRUE]
  /\ UNCHANGED <<phase, fdOf, wired, m_disconnect, netVars, mapVars, mainVars, loopVars, fault>>

TimerExpires(l) ==
  /\ ~timerDue[l]
  /\ timerDue' = [timerDue EXCEPT ![l] = TRUE]
  /\ UNCHANGED <<objVars, netVars, mapVars, mainVars, lpc, batch, cur, m_timeoutFdQueue, fault>>

Environment ==
  \/ \E c \in Conns, what \in {"data", "fin", "err"} : NetworkEvent(c, what)
  \/ \E c \in Conns : GrowIdle(c)
  \/ \E l \in Loops : TimerExpires(l)

Next ==
  /\ fault = "none"
  /\ Main \/ (\E l \in Loops : Loop(l)) \/ Environment

Spec == Init /\ [][Next]_vars

(* Every thread is scheduled and every condition that has arisen is        *)
(* noticed; re-armed timerfds expire, and a silent connection grows idle.  *)
(* Nothing is assumed of the clients, and nothing of further accepts.      *)
Fairness ==
  /\ WF_vars(fault = "none" /\ Main /\ mpc # "accept")
  /\ \A l \in Loops : /\ WF_vars(fault = "none" /\ Loop(l))
                      /\ WF_vars(fault = "none" /\ TimerExpires(l))
  /\ \A c \in Conns : WF_vars(fault = "none" /\ GrowIdle(c))

FairSpec == Spec /\ Fairness

-----------------------------------------------------------------------------
(***************************************************************************)
(* What holds.                                                             *)
(***************************************************************************)

(* A descriptor names one connection: no two live Connections share it,    *)
(* an entry of either connection table is a live Connection of that very   *)
(* descriptor, and the two tables never disagree on whose it is, although  *)
(* closing, expiring and accepting update them at different moments.       *)
TablesAgree ==
  /\ \A c, d \in Conns : Alive(c) /\ Alive(d) /\ fdOf[c] = fdOf[d] => c = d
  /\ \A f \in Fds : \A c \in {m_ConnectionMap[f], m_elConnectionMap[f]} \ {NoConn} :
       Alive(c) /\ fdOf[c] = f

(* A Connection whose Channel is polled is one the idle timer can find:    *)
(* once newConnection has returned it is in its loop's table, except while *)
(* handleTimer is between its two erasures for that descriptor or a        *)
(* callback is still at work on what expired during newConnection.         *)
PolledIsTracked ==
  \A c \in Conns :
    inTree[c] /\ mconn # c =>
      \/ m_elConnectionMap[fdOf[c]] = c
      \/ \E l \in Loops : \/ lpc[l] = "forget" /\ Lowest(fdOf[c], m_timeoutFdQueue[l])
                         \/ cur[l] = c

(* Once newConnection has returned, an open connection's entry in          *)
(* m_deviceInfoMap is its own DeviceInfo, whatever its descriptor was used *)
(* for before and whatever other loops close meanwhile.                    *)
OwnDevice ==
  \A c \in Conns :
    Alive(c) /\ mconn # c /\ ~m_disconnect[c] => m_deviceInfoMap[fdOf[c]] = c

InTable(c) == \E f \in Fds : m_ConnectionMap[f] = c \/ m_elConnectionMap[f] = c

(* Once newConnection has returned, no step takes a Connection that is     *)
(* neither closed nor idle out of the last table that holds it: between    *)
(* the close, the timer, the reuse of descriptors and newConnection, the   *)
(* active connection is never the one let go of.                           *)
ActiveSurvives ==
  [][\A c \in Conns :
       InTable(c) /\ ~InTable(c)' /\ mconn # c => m_disconnect[c] \/ idle[c]]_vars

(* newConnection has entered c in its loop's table. *)
Entered(c) ==
  mconn = c => mpc \in {"device_map", "device_map_locked", "return"}

(* What has become of c, as its client may see it: the idle timer has      *)
(* given it up once its loop's table had it and has it no more.            *)
StatusOf(c) ==
  IF phase[c] # "alive" THEN IF phase[c] = "unborn" THEN "unborn" ELSE "gone"
  ELSE IF m_disconnect[c] THEN "closed"
  ELSE IF Entered(c) /\ m_elConnectionMap[fdOf[c]] # c THEN "expired"
  ELSE "open"

(* The server keeps what Registry promises a client: no step of accept,    *)
(* close, timer or newConnection destroys an open connection that is not   *)
(* idle, closes one twice, hears one it has closed, or gives out a         *)
(* descriptor that still names a live one, whatever stays in which table.  *)
Clients == INSTANCE Registry WITH
  status <- [c \in Conns |-> StatusOf(c)], silent <- idle, at <- fdOf

ImplementsRegistry == Clients!RegistrySpec

(* No event reaches a connection that is closed: none is left in a batch,  *)
(* none arises again, so closeCallback runs once, and a pointer that       *)
(* dangles in a batch is one the timer let go of, never a closed one.      *)
NoEventAfterClose ==
  \A c \in Conns :
    m_disconnect[c] => ~inTree[c] /\ \A l \in Loops : c \notin batch[l]

(* The loop's table loses an entry only to the timer, and what the timer   *)
(* takes out is still idle then: no message slips in after the scan, and   *)
(* newConnection never displaces an entry.                                 *)
OnlyIdleLeaveLoop ==
  [][\A f \in Fds :
       m_elConnectionMap[f] # NoConn /\ m_elConnectionMap'[f] # m_elConnectionMap[f]
         => idle[m_elConnectionMap[f]]]_vars

(* A closed connection is destroyed in the end, and its descriptor free,   *)
(* even if it was closed before newConnection had entered it anywhere.     *)
ClosedIsReclaimed ==
  \A c \in Conns : m_disconnect[c] ~> (phase[c] = "destroyed" \/ fault # "none")
=============================================================================
