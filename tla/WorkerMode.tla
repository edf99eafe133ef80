------------------------------ MODULE WorkerMode ------------------------------
(***************************************************************************)
(* The server with worker threads (workThreadNum > 0, the default of       *)
(* Navigation's constructor): the I/O thread hands each request to the     *)
(* pool with a shared_ptr to its Connection and a copy of the message; a   *)
(* worker handles it and posts the reply back to the loop as a bare        *)
(* Connection pointer and a bare pointer to a string of its own.           *)
(*                                                                         *)
(* One event loop with its clients.  What ConnLifecycle, ThreadPool and    *)
(* EventLoop treat in full is coarser here: newConnection is split only    *)
(* before it enters the device, the idle timer's walk through the loop's   *)
(* table and a close are one step each, and so is each use of a queue.     *)
(***************************************************************************)
EXTENDS Naturals, Sequences, FiniteSets, SequencesExt

CONSTANTS
  Conns,        (* the Connection objects the server may ever create          *)
  Fds,          (* the descriptors the kernel can hand out to connections     *)
  Workers,      (* the threads of m_workThreadPool                            *)
  MaxRequests,  (* bound: requests handed over, of all clients                *)
  NoConn,       (* an absent table entry                                      *)
  NullDevice    (* an entry operator[] created: a null shared_ptr             *)

ASSUME WorkerAssumption ==
  /\ Fds \subseteq Nat
  /\ IsFiniteSet(Workers)
  /\ MaxRequests \in Nat
  /\ NoConn \notin Conns
  /\ NullDevice \notin Conns \union {NoConn}

VARIABLES
  phase,             (* of each Connection: unborn, alive, destroyed          *)
  fdOf,
  m_disconnect,
  sock,              (* what the socket has for its reader                    *)
  tree,              (* the Channel in epoll: "none", "read" (IN, edge-       *)
                     (* triggered), "bare" (re-registered after the close)    *)
  out,               (* EPOLLOUT is asked for: m_outputBuffer has a reply     *)
  received,          (* the connection of each request handed over so far     *)
  m_ConnectionMap, m_elConnectionMap,
  m_deviceInfoMap,   (* whose DeviceInfo an entry is                          *)
  mconn,             (* newConnection has yet to enter mconn's DeviceInfo     *)
  lpc, raw,          (* the loop: where, and the Connection it works in       *)
  batch,             (* the loop's unhandled events                           *)
  m_timeoutFdQueue,  (* the descriptors handleTimer has yet to erase          *)
  works,             (* m_workThreadPool's queue                              *)
  posted,            (* the loop's queue: replies to be sent in the loop      *)
  wpc, wtask, dev,   (* each worker: where, its task, the DeviceInfo it got   *)
  finished,          (* history: requests a worker is done with               *)
  expired,           (* history: connections handleTimer has taken out        *)
  fault              (* how the process died, or "none"                       *)

connVars == <<phase, fdOf, m_disconnect>>
netVars == <<sock, tree, out>>
mapVars == <<m_ConnectionMap, m_elConnectionMap, m_deviceInfoMap>>
loopVars == <<lpc, raw, batch, m_timeoutFdQueue>>
workVars == <<works, posted, wpc, wtask, dev>>
histVars == <<received, finished, expired>>
vars == <<connVars, netVars, mapVars, mconn, loopVars, workVars, histVars, fault>>

(* A request, and the reply to it, is known by its number. *)
Requests == 1 .. Len(received)

(* A worker without a task. *)
NoTask == 0

Events == (Conns \X {"in", "out", "err"}) \union {<<"timer">>, <<"wakeup">>}

TypeOK ==
  /\ phase \in [Conns -> {"unborn", "alive", "destroyed"}]
  /\ fdOf \in [Conns -> Fds \union {NoConn}]
  /\ m_disconnect \in [Conns -> BOOLEAN]
  /\ sock \in [Conns -> {"quiet", "data", "fin", "reset"}]
  /\ tree \in [Conns -> {"none", "read", "bare"}]
  /\ out \in [Conns -> BOOLEAN]
  /\ received \in Seq(Conns) /\ Len(received) <= MaxRequests
  /\ m_ConnectionMap \in [Fds -> Conns \union {NoConn}]
  /\ m_elConnectionMap \in [Fds -> Conns \union {NoConn}]
  /\ m_deviceInfoMap \in [Fds -> Conns \union {NoConn, NullDevice}]
  /\ mconn \in Conns \union {NoConn}
  /\ lpc \in {"loop", "read", "drain", "expire", "forget"}
  /\ raw \in Conns \union {NoConn}
  /\ batch \subseteq Events
  /\ m_timeoutFdQueue \subseteq Fds
  /\ works \in Seq(Requests)
  /\ posted \in Seq(Requests)
  /\ wpc \in [Workers -> {"take", "lookup", "process", "send", "post", "return"}]
  /\ wtask \in [Workers -> Requests \union {NoTask}]
  /\ dev \in [Workers -> Conns \union {NoConn, NullDevice}]
  /\ finished \subseteq Requests
  /\ expired \subseteq Conns
  /\ fault \in {"none", "dangling_channel", "dangling_this", "dangling_data", "null_device",
                "torn_map", "device_race", "send_failed"}

Init ==
  /\ phase = [c \in Conns |-> "unborn"]
  /\ fdOf = [c \in Conns |-> NoConn]
  /\ m_disconnect = [c \in Conns |-> FALSE]
  /\ sock = [c \in Conns |-> "quiet"]
  /\ tree = [c \in Conns |-> "none"]
  /\ out = [c \in Conns |-> FALSE]
  /\ received = <<>>
  /\ m_ConnectionMap = [f \in Fds |-> NoConn]
  /\ m_elConnectionMap = [f \in Fds |-> NoConn]
  /\ m_deviceInfoMap = [f \in Fds |-> NoConn]
  /\ mconn = NoConn
  /\ lpc = "loop" /\ raw = NoConn /\ batch = {} /\ m_timeoutFdQueue = {}
  /\ works = <<>> /\ posted = <<>>
  /\ wpc = [w \in Workers |-> "take"]
  /\ wtask = [w \in Workers |-> NoTask]
  /\ dev = [w \in Workers |-> NoConn]
  /\ finished = {} /\ expired = {}
  /\ fault = "none"

Die(how) ==
  /\ fault' = how
  /\ UNCHANGED <<connVars, netVars, mapVars, mconn, loopVars, workVars, histVars>>

(***************************************************************************)
(* Ownership: tables, newConnection's local, and the tasks of the pool.    *)
(***************************************************************************)
Alive(c) == phase[c] = "alive"

(* Variant: the task is bound to a bare pointer as the reply is. *)
HeldByTables(c) ==
  mconn = c \/ \E f \in Fds : m_ConnectionMap[f] = c \/ m_elConnectionMap[f] = c

Held(c) ==
  \/ mconn = c
  \/ \E f \in Fds : m_ConnectionMap[f] = c \/ m_elConnectionMap[f] = c
  \/ \E r \in Requests :
       received[r] = c /\ (r \in ToSet(works) \/ \E w \in Workers : wtask[w] = r)

(* ~Connection, on whichever thread dropped the last reference: the        *)
(* descriptor is closed, and epoll forgets it.  A Channel that is only     *)
(* closing leaves epoll too.                                               *)
DestroyUnheld(closing) ==
  LET dead == {c \in Conns : Alive(c) /\ ~Held(c)'}
      gone == dead \union closing
  IN  /\ phase' = [c \in Conns |-> IF c \in dead THEN "destroyed" ELSE phase[c]]
      /\ tree' = [c \in Conns |-> IF c \in gone THEN "none" ELSE tree[c]]
      /\ out' = [c \in Conns |-> out[c] /\ c \notin gone]
      /\ sock' = [c \in Conns |-> IF c \in dead THEN "quiet" ELSE sock[c]]

(* Variant: the descriptor is closed, and free again, with the connection. *)
FreeFdsOnClose == Fds \ {fdOf[c] : c \in {d \in Conns : Alive(d) /\ ~m_disconnect[d]}}

FreeFds == Fds \ {fdOf[c] : c \in {d \in Conns : Alive(d)}}

(***************************************************************************)
(* The main thread: newConnection, up to handleNewConnection, and the      *)
(* insertion under m_deviceMutex.                                          *)
(***************************************************************************)
Accept(c) ==
  /\ mconn = NoConn
  /\ phase[c] = "unborn"
  /\ \E f \in FreeFds :
       /\ \A g \in FreeFds : f <= g
       /\ fdOf' = [fdOf EXCEPT ![c] = f]
       /\ m_ConnectionMap' = [m_ConnectionMap EXCEPT ![f] = c]
       /\ m_elConnectionMap' = [m_elConnectionMap EXCEPT ![f] = c]
  /\ phase' = [phase EXCEPT ![c] = "alive"]
  /\ tree' = [tree EXCEPT ![c] = "read"]
  /\ mconn' = c
  /\ UNCHANGED <<m_disconnect, sock, out, m_deviceInfoMap, loopVars, workVars, histVars, fault>>

InsertDevice ==
  /\ mconn # NoConn
  /\ m_deviceInfoMap' = [m_deviceInfoMap EXCEPT ![fdOf[mconn]] = mconn]
  /\ mconn' = NoConn
  /\ UNCHANGED <<fdOf, m_disconnect, m_ConnectionMap, m_elConnectionMap,
                 loopVars, workVars, histVars, fault>>
  /\ DestroyUnheld({})

(***************************************************************************)
(* The I/O thread.                                                         *)
(***************************************************************************)
Readable(c) == tree[c] = "read" /\ sock[c] # "quiet"

Ready ==
  {<<c, "in">> : c \in {d \in Conns : Readable(d)}}
    \union {<<c, "out">> : c \in {d \in Conns : tree[d] # "none" /\ out[d] /\ ~Readable(d)}}
    \union {<<c, "err">> : c \in {d \in Conns : tree[d] = "bare" /\ ~out[d] /\ sock[d] = "reset"}}
    \union (IF posted # <<>> THEN {<<"wakeup">>} ELSE {})

InLoopTable == {f \in Fds : m_elConnectionMap[f] # NoConn}

(* The timer is due at some time or other. *)
EpollWait ==
  /\ lpc = "loop" /\ batch = {}
  /\ \/ batch' = Ready
     \/ InLoopTable # {} /\ batch' = Ready \union {<<"timer">>}
  /\ batch' # {}
  /\ UNCHANGED <<connVars, netVars, mapVars, mconn, lpc, raw, m_timeoutFdQueue, workVars,
                 histVars, fault>>

Take(event) ==
  /\ lpc = "loop"
  /\ event \in batch
  /\ batch' = batch \ {event}

(* The Channel was destroyed with its Connection after epoll_wait. *)
HandleDangling(c) ==
  /\ lpc = "loop"
  /\ \E what \in {"in", "out", "err"} : <<c, what>> \in batch
  /\ ~Alive(c)
  /\ Die("dangling_channel")

MoreRequests == Len(received) < MaxRequests

(* Connection::handleMessage works on a bare this: read until EAGAIN ...   *)
HandleRead(c) ==
  /\ Take(<<c, "in">>)
  /\ Alive(c) /\ sock[c] = "data"
  /\ sock' = [sock EXCEPT ![c] = "quiet"]
  /\ lpc' = "read" /\ raw' = c
  /\ UNCHANGED <<connVars, tree, out, mapVars, mconn, m_timeoutFdQueue, workVars, histVars, fault>>

(* ... for each message: addTask(bind(handleMessageToThreadPool, conn, message)), *)
HandOver ==
  /\ lpc = "read" /\ Alive(raw)
  /\ MoreRequests
  /\ received' = Append(received, raw)
  /\ works' = Append(works, Len(received) + 1)
  /\ UNCHANGED <<phase, fdOf, m_disconnect, netVars, mapVars, mconn, loopVars,
                 posted, wpc, wtask, dev, finished, expired, fault>>

(* ... until m_inputBuffer has no whole message left.                      *)
FinishRead ==
  /\ lpc = "read" /\ Alive(raw)
  /\ lpc' = "loop" /\ raw' = NoConn
  /\ UNCHANGED <<connVars, netVars, mapVars, mconn, batch, m_timeoutFdQueue, workVars, histVars,
                 fault>>

(* Expired, the Connection lived on in a worker's task alone, which ended. *)
LoseConnection ==
  /\ lpc = "read" /\ ~Alive(raw)
  /\ Die("dangling_this")

(* Variant: the loop's table is cleaned up here too. *)
CloseInBoth(c) ==
  /\ m_disconnect' = [m_disconnect EXCEPT ![c] = TRUE]
  /\ m_ConnectionMap' = [m_ConnectionMap EXCEPT ![fdOf[c]] = NoConn]
  /\ m_elConnectionMap' = [m_elConnectionMap EXCEPT ![fdOf[c]] = NoConn]
  /\ m_deviceInfoMap' = [m_deviceInfoMap EXCEPT ![fdOf[c]] = NoConn]
  /\ UNCHANGED <<fdOf, mconn, lpc, raw, m_timeoutFdQueue, workVars, histVars, fault>>
  /\ DestroyUnheld({c})

(* closeCallback and errorCallback with all they call. *)
Close(c) ==
  /\ m_disconnect' = [m_disconnect EXCEPT ![c] = TRUE]
  /\ m_ConnectionMap' = [m_ConnectionMap EXCEPT ![fdOf[c]] = NoConn]
  /\ m_deviceInfoMap' = [m_deviceInfoMap EXCEPT ![fdOf[c]] = NoConn]
  /\ UNCHANGED <<fdOf, m_elConnectionMap, mconn, lpc, raw, m_timeoutFdQueue, workVars, histVars,
                 fault>>
  /\ DestroyUnheld({c})

HandleHangup(c) ==
  /\ Take(<<c, "in">>)
  /\ Alive(c) /\ sock[c] \in {"fin", "reset"}
  /\ Close(c)

(* A second close: the reply to a closed connection has put its Channel    *)
(* back on the tree, and the peer has reset the connection since.          *)
HandleError(c) ==
  /\ Take(<<c, "err">>)
  /\ Alive(c)
  /\ Close(c)

(* writeCallback: send to a connection that the peer has reset fails, and  *)
(* the process exits; otherwise the buffer is emptied.                     *)
HandleWrite(c) ==
  /\ Alive(c)
  /\ \/ /\ Take(<<c, "out">>)
        /\ sock[c] # "reset"
        /\ out' = [out EXCEPT ![c] = FALSE]
        /\ UNCHANGED <<connVars, sock, tree, mapVars, mconn, lpc, raw, m_timeoutFdQueue, workVars,
                       histVars, fault>>
     \/ /\ lpc = "loop" /\ <<c, "out">> \in batch
        /\ sock[c] = "reset"
        /\ Die("send_failed")

Lowest(f, set) == f \in set /\ \A g \in set : f <= g

(* handleTimer: its walk queues what is idle.  Which connections have been *)
(* so for m_timeout is left open.                                          *)
HandleTimer ==
  /\ Take(<<"timer">>)
  /\ \E idle \in SUBSET InLoopTable :
       /\ m_timeoutFdQueue' = idle
       /\ lpc' = IF idle = {} THEN "loop" ELSE "expire"
  /\ UNCHANGED <<connVars, netVars, mapVars, mconn, raw, workVars, histVars, fault>>

(* Each in turn leaves the loop's table, under m_elConnectionMapMutex ...  *)
ExpireFromLoop ==
  /\ lpc = "expire" /\ lpc' = "forget"
  /\ \E f \in m_timeoutFdQueue :
       /\ Lowest(f, m_timeoutFdQueue)
       /\ m_elConnectionMap' = [m_elConnectionMap EXCEPT ![f] = NoConn]
       /\ expired' = expired \union {m_elConnectionMap[f]}
  /\ UNCHANGED <<fdOf, m_disconnect, m_ConnectionMap, m_deviceInfoMap, mconn, raw, batch,
                 m_timeoutFdQueue, workVars, received, finished, fault>>
  /\ DestroyUnheld({})

(* Variant: the loop ends without its pop. *)
ForgetUnpopped ==
  /\ lpc = "forget" /\ lpc' = "expire"
  /\ \E f \in m_timeoutFdQueue :
       /\ Lowest(f, m_timeoutFdQueue)
       /\ m_ConnectionMap' = [m_ConnectionMap EXCEPT ![f] = NoConn]
  /\ UNCHANGED <<fdOf, m_disconnect, m_elConnectionMap, m_deviceInfoMap, mconn, raw, batch,
                 m_timeoutFdQueue, workVars, histVars, fault>>
  /\ DestroyUnheld({})

(* ... and then TcpServer's, under m_connMapMutex: by the descriptor, that *)
(* another connection may have got in between.                             *)
ForgetInServer ==
  /\ lpc = "forget"
  /\ \E f \in m_timeoutFdQueue :
       /\ Lowest(f, m_timeoutFdQueue)
       /\ m_ConnectionMap' = [m_ConnectionMap EXCEPT ![f] = NoConn]
       /\ m_timeoutFdQueue' = m_timeoutFdQueue \ {f}
  /\ lpc' = IF m_timeoutFdQueue' = {} THEN "loop" ELSE "expire"
  /\ UNCHANGED <<fdOf, m_disconnect, m_elConnectionMap, m_deviceInfoMap, mconn, raw, batch,
                 workVars, histVars, fault>>
  /\ DestroyUnheld({})

(* handleWakeup runs the queued sendInLoop calls with m_taskQueueMutex held. *)
HandleWakeup ==
  /\ Take(<<"wakeup">>)
  /\ lpc' = "drain"
  /\ UNCHANGED <<connVars, netVars, mapVars, mconn, raw, m_timeoutFdQueue, workVars, histVars,
                 fault>>

(* replyMessage is a local variable of the worker's handleMessageToThreadPool. *)
StringLives(r) == \E w \in Workers : wtask[w] = r

(* sendInLoop: append to m_outputBuffer, ask for EPOLLOUT.  The this and   *)
(* the data it was bound to may be gone: a string that is gone leaves some *)
(* bytes or other to be sent, or ends the process.                         *)
SendInLoop ==
  /\ lpc = "drain" /\ posted # <<>>
  /\ LET r == Head(posted)
         c == received[r]
     IN  \/ /\ Alive(c)
            /\ out' = [out EXCEPT ![c] = TRUE]
            /\ tree' = [tree EXCEPT ![c] = IF @ = "none" THEN "bare" ELSE @]
            /\ posted' = Tail(posted)
            /\ UNCHANGED <<connVars, sock, mapVars, mconn, loopVars, works, wpc, wtask, dev,
                           histVars, fault>>
         \/ ~Alive(c) /\ Die("dangling_this")
         \/ Alive(c) /\ ~StringLives(r) /\ Die("dangling_data")

EndWakeup ==
  /\ lpc = "drain" /\ posted = <<>>
  /\ lpc' = "loop"
  /\ UNCHANGED <<connVars, netVars, mapVars, mconn, raw, batch, m_timeoutFdQueue, workVars,
                 histVars, fault>>

Loop ==
  \/ EpollWait
  \/ \E c \in Conns : \/ HandleDangling(c) \/ HandleRead(c) \/ HandleHangup(c)
                      \/ HandleError(c) \/ HandleWrite(c)
  \/ HandOver \/ FinishRead \/ LoseConnection
  \/ HandleTimer \/ ExpireFromLoop \/ ForgetInServer
  \/ HandleWakeup \/ SendInLoop \/ EndWakeup

(***************************************************************************)
(* The worker threads: each takes tasks in the order they were queued and  *)
(* runs Navigation::handleMessageToThreadPool.                             *)
(***************************************************************************)
WorkerStep(w, from, to) == wpc[w] = from /\ wpc' = [wpc EXCEPT ![w] = to]

(* Variant: a stack in place of the queue. *)
TakeNewest(w) ==
  /\ works # <<>>
  /\ WorkerStep(w, "take", "lookup")
  /\ wtask' = [wtask EXCEPT ![w] = Last(works)]
  /\ works' = Front(works)
  /\ UNCHANGED <<connVars, netVars, mapVars, mconn, loopVars, posted, dev, histVars, fault>>

TakeTask(w) ==
  /\ works # <<>>
  /\ WorkerStep(w, "take", "lookup")
  /\ wtask' = [wtask EXCEPT ![w] = Head(works)]
  /\ works' = Tail(works)
  /\ UNCHANGED <<connVars, netVars, mapVars, mconn, loopVars, posted, dev, histVars, fault>>

(* m_deviceInfoMap[conn->fd()], without m_deviceMutex. *)
Lookup(w) ==
  LET f == fdOf[received[wtask[w]]]
      found == IF m_deviceInfoMap[f] = NoConn THEN NullDevice ELSE m_deviceInfoMap[f]
  IN  /\ WorkerStep(w, "lookup", "process")
      /\ m_deviceInfoMap' = [m_deviceInfoMap EXCEPT ![f] = found]
      /\ dev' = [dev EXCEPT ![w] = found]
      /\ UNCHANGED <<connVars, netVars, m_ConnectionMap, m_elConnectionMap, mconn, loopVars,
                     works, posted, wtask, histVars, fault>>

(* The loop is about to erase an entry of m_deviceInfoMap. *)
EraseDue ==
  /\ lpc = "loop"
  /\ \E c \in Conns : \/ <<c, "in">> \in batch /\ sock[c] \in {"fin", "reset"}
                      \/ <<c, "err">> \in batch

(* The lookup meets another one, an insertion or an erasure under way. *)
TornLookup(w) ==
  /\ wpc[w] = "lookup"
  /\ mconn # NoConn \/ EraseDue \/ \E v \in Workers \ {w} : wpc[v] = "lookup"
  /\ Die("torn_map")

(* The business code: not all of them use the DeviceInfo. *)
Process(w) ==
  /\ WorkerStep(w, "process", "send")
  /\ UNCHANGED <<connVars, netVars, mapVars, mconn, loopVars, works, posted, wtask, dev,
                 histVars, fault>>

(* Those that do call through a null pointer when there is none ...        *)
ProcessNull(w) ==
  /\ wpc[w] = "process" /\ dev[w] = NullDevice
  /\ Die("null_device")

(* ... and use its streams with nothing to keep other workers off them.    *)
ProcessTogether(w) ==
  /\ wpc[w] = "process" /\ dev[w] # NullDevice
  /\ \E v \in Workers \ {w} : wpc[v] = "process" /\ dev[v] = dev[w]
  /\ Die("device_race")

(* sendMessage: to a closed connection nothing is sent.                    *)
SendTest(w) ==
  /\ WorkerStep(w, "send", IF m_disconnect[received[wtask[w]]] THEN "return" ELSE "post")
  /\ UNCHANGED <<connVars, netVars, mapVars, mconn, loopVars, works, posted, wtask, dev,
                 histVars, fault>>

(* addTaskToQueueInLoop: m_taskQueueMutex, the queue, the eventfd.         *)
Post(w) ==
  /\ lpc # "drain"
  /\ WorkerStep(w, "post", "return")
  /\ posted' = Append(posted, wtask[w])
  /\ UNCHANGED <<connVars, netVars, mapVars, mconn, loopVars, works, wtask, dev, histVars, fault>>

(* The task's reference to conn, its message and its reply are gone. *)
Return(w) ==
  /\ WorkerStep(w, "return", "take")
  /\ wtask' = [wtask EXCEPT ![w] = NoTask]
  /\ dev' = [dev EXCEPT ![w] = NoConn]
  /\ finished' = finished \union {wtask[w]}
  /\ UNCHANGED <<fdOf, m_disconnect, mapVars, mconn, loopVars, works, posted,
                 received, expired, fault>>
  /\ DestroyUnheld({})

Worker(w) ==
  \/ TakeTask(w) \/ Lookup(w) \/ TornLookup(w)
  \/ Process(w) \/ ProcessNull(w) \/ ProcessTogether(w)
  \/ SendTest(w) \/ Post(w) \/ Return(w)

(***************************************************************************)
(* The clients.                                                            *)
(***************************************************************************)
Arrive(c, from, what) ==
  /\ Alive(c) /\ sock[c] \in from
  /\ sock' = [sock EXCEPT ![c] = what]
  /\ UNCHANGED <<connVars, tree, out, mapVars, mconn, loopVars, workVars, histVars, fault>>

ClientSends(c) == MoreRequests /\ Arrive(c, {"quiet"}, "data")

ClientCloses(c) == Arrive(c, {"quiet"}, "fin")

(* A client that is gone answers what it is still sent with a reset.       *)
PeerResets(c) == Arrive(c, {"quiet", "fin"}, "reset")

Environment ==
  \E c \in Conns : ClientSends(c) \/ ClientCloses(c) \/ PeerResets(c)

Next ==
  /\ fault = "none"
  /\ \/ \E c \in Conns : Accept(c)
     \/ InsertDevice
     \/ Loop
     \/ \E w \in Workers : Worker(w)
     \/ Environment

Spec == Init /\ [][Next]_vars

(***************************************************************************)
(* Properties.                                                             *)
(***************************************************************************)

(* A worker handles a request on the device of the connection it came      *)
(* from, or on one that only the idle timer has left behind, although      *)
(* m_deviceInfoMap is keyed by descriptor, descriptors are used again, and *)
(* the connection may have been closed, and expired, since the request was *)
(* queued (Navigation.cpp:65, 113).                                        *)
OwnDevice ==
  \A w \in Workers :
    dev[w] \in Conns => dev[w] = received[wtask[w]] \/ dev[w] \in expired

Work == INSTANCE WorkQueue WITH
  Tasks <- 1 .. MaxRequests, Hands <- Workers, queue <- works, inHand <- wtask, ended <- finished

(* Of the pool this module assumes what ThreadPool implements, and no more *)
(* (the theorem PoolImplementsWorkQueue).                                  *)
UsesWorkQueue == Work!QueueSpec

(* Workers may finish requests out of order, those of one connection too,  *)
(* but only those running side by side: a finished request has fewer older *)
(* unfinished ones than there are workers (ThreadPool.cpp:27-31).          *)
OvertakingBounded ==
  \A r \in finished :
    Cardinality({q \in 1 .. r - 1 : q \notin finished}) < Cardinality(Workers)

(* The bare pointers the loop works with - in its batch, in handleMessage, *)
(* in the queued sendInLoop calls - outlive only connections that the idle *)
(* timer has taken out: whatever a close races with (Connection.cpp:34-46, *)
(* 149), the loop's own table keeps the object.                            *)
OnlyExpiredDangle ==
  \A c \in Conns :
    /\ phase[c] = "destroyed"
    /\ \/ raw = c
       \/ \E what \in {"in", "out", "err"} : <<c, what>> \in batch
       \/ \E r \in ToSet(posted) : received[r] = c
    => c \in expired

(* The device entry of a descriptor goes when its connection does.         *)
DeviceEntryEnds(f) ==
  LET c == m_deviceInfoMap[f]
  IN  c \in Conns /\ m_deviceInfoMap'[f] # c => m_disconnect'[c] \/ ~Alive(c)

(* So does TcpServer's, or by the second erasure of the idle timer, which  *)
(* was meant for the descriptor's last owner: then it is the loop's table  *)
(* that keeps the connection.                                              *)
ServerEntryEnds(f) ==
  LET c == m_ConnectionMap[f]
  IN  c \in Conns /\ m_ConnectionMap'[f] # c =>
        \/ m_disconnect'[c] \/ c \in expired
        \/ lpc = "forget" /\ Lowest(f, m_timeoutFdQueue) /\ m_elConnectionMap'[f] = c

(* No entry goes for another connection's sake, but for that one of the    *)
(* timer: its own has been closed or has gone idle, although descriptors   *)
(* are used again and a connection can be closed twice - the reply to a    *)
(* closed one puts its Channel back on the tree (Connection.cpp:157,       *)
(* EventLoop.cpp:160-168).                                                 *)
EntriesEndForCause ==
  [][\A f \in Fds : DeviceEntryEnds(f) /\ ServerEntryEnds(f)]_vars

(* The comment at Connection.cpp:132 says: "to send data, on whatever      *)
(* thread, call this function".  What a worker has sent is still there     *)
(* when the I/O thread comes to put it in the output buffer.               *)
ReplyOutlivesQueue ==
  lpc = "drain" /\ posted # <<>> /\ Alive(received[Head(posted)]) => StringLives(Head(posted))
=============================================================================
