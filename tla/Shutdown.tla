------------------------------- MODULE Shutdown -------------------------------
(***************************************************************************)
(* How the server ends: SIGTERM and SIGINT run Stop of navServer.cpp, in   *)
(* the middle of whatever the interrupted thread does.  Stop tells every   *)
(* event loop to stop, stops and joins the pool of I/O threads, deletes    *)
(* the Navigation object and exits.                                        *)
(*                                                                         *)
(* signal() blocks a signal only on the thread that handles it, and the    *)
(* kernel hands a signal to the main thread unless it is blocked there: a  *)
(* second signal of the other kind interrupts Stop itself, one of the same *)
(* kind runs Stop on an I/O thread.                                        *)
(*                                                                         *)
(* EventLoop shows that stop() makes run() return, and ThreadPool treats   *)
(* its threads' wait in full: both are coarser here.  Of what the main and *)
(* the I/O threads do between, only the locks they hold matter.            *)
(***************************************************************************)
EXTENDS Integers, Sequences, FiniteSets

CONSTANTS
  ThreadNum,   (* m_threadNum: number of sub event loops and I/O threads     *)
  Main,        (* the main thread                                            *)
  Tables,      (* the maps newConnection inserts in, each with its mutex     *)
  Signals,     (* the signals caught: SIGTERM and SIGINT                     *)
  FirstSignal, (* the kind that comes first: the two are alike               *)
  MaxSignals,  (* bound: signals delivered                                   *)
  MaxSections, (* bound: critical sections in the handlers of one batch      *)
  NoOne        (* a lock is free, a thread runs no loop, nobody has exited   *)

IOThreads == 0 .. ThreadNum - 1
Threads == IOThreads \union {Main}

(* Besides the maps' mutexes: what printf locks and what malloc locks.     *)
Locks == Tables \union {"stdout", "heap"}

ASSUME ShutdownAssumption ==
  /\ ThreadNum \in Nat \ {0}
  /\ FirstSignal \in Signals
  /\ MaxSignals \in Nat
  /\ Main \notin IOThreads
  /\ NoOne \notin Threads

VARIABLES
  navServer,    (* "null" until the constructor has returned, "set", "deleted" *)
  tables,       (* the maps of Navigation and TcpServer: "live" or "destroyed" *)
  loopStop,     (* m_stop of each sub loop                                     *)
  poolStop,     (* m_stop of the pool                                          *)
  m_taskQueue,  (* the loops no I/O thread has taken yet                       *)
  joined,       (* the threads that have been joined                           *)
  pc, loop,     (* of each I/O thread: where it is, the loop it runs           *)
  todo,         (* the locks its current handlers have yet to take             *)
  owner,        (* of each lock                                                *)
  lost,         (* a line was accepted after the streams had been written out  *)
  missed,       (* history: the threads that were awake at the last notify_all *)
  act,          (* of each thread: its activations of Stop, innermost first    *)
  sent,         (* signals delivered so far                                    *)
  ended,        (* the thread whose Stop called exit                           *)
  fault         (* how the process died otherwise                              *)

serverVars == <<navServer, tables, loopStop, poolStop, m_taskQueue, joined>>
threadVars == <<pc, loop, todo, owner, lost, missed>>
vars == <<serverVars, threadVars, act, sent, ended, fault>>

ThreadPCs == {"test", "check", "block", "waiting", "poll", "handle", "exited"}
StopPCs == {"enter", "stop_loops", "test_stop", "set_stop", "notify", "join",
            "delete_tables", "delete_pool", "exit"}
Frames == [sig : Signals, at : StopPCs, i : 0 .. ThreadNum]
Faults == {"none", "null_server", "use_after_free", "terminate", "torn_table",
           "destroyed_condition"}

TypeOK ==
  /\ navServer \in {"null", "set", "deleted"}
  /\ tables \in {"live", "destroyed"}
  /\ loopStop \in [IOThreads -> BOOLEAN]
  /\ poolStop \in BOOLEAN
  /\ m_taskQueue \in Seq(IOThreads)
  /\ joined \subseteq IOThreads
  /\ pc \in [IOThreads -> ThreadPCs]
  /\ loop \in [IOThreads -> IOThreads \union {NoOne}]
  /\ todo \in [IOThreads -> SUBSET Locks]
  /\ owner \in [Locks -> Threads \union {NoOne}]
  /\ lost \in BOOLEAN
  /\ missed \subseteq IOThreads
  /\ act \in [Threads -> Seq(Frames)]
  /\ sent \in 0 .. MaxSignals
  /\ ended \in Threads \union {NoOne}
  /\ fault \in Faults

(* main has set the handlers; the constructor's I/O threads have started.  *)
Init ==
  /\ navServer = "null"
  /\ tables = "live"
  /\ loopStop = [t \in IOThreads |-> FALSE]
  /\ poolStop = FALSE
  /\ m_taskQueue = <<>>
  /\ joined = {}
  /\ pc = [t \in IOThreads |-> "test"]
  /\ loop = [t \in IOThreads |-> NoOne]
  /\ todo = [t \in IOThreads |-> {}]
  /\ owner = [k \in Locks |-> NoOne]
  /\ lost = FALSE
  /\ missed = {}
  /\ act = [t \in Threads |-> <<>>]
  /\ sent = 0
  /\ ended = NoOne
  /\ fault = "none"

Die(how) ==
  /\ fault' = how
  /\ UNCHANGED <<serverVars, threadVars, act, sent, ended>>

(* A thread that runs Stop does nothing else.                              *)
Interrupted(t) == act[t] # <<>>

(***************************************************************************)
(* The main thread.                                                        *)
(***************************************************************************)

(* m_mutex is held from the predicate of a wait until the thread blocks.   *)
PoolMutexFree == \A t \in IOThreads : pc[t] # "block"

WokenAll == [t \in IOThreads |-> IF pc[t] = "waiting" THEN "check" ELSE pc[t]]

(* The constructors queue the loops, one addTask and notification each,    *)
(* and only then is navServer assigned.                                    *)
Construct ==
  /\ ~Interrupted(Main)
  /\ navServer = "null"
  /\ PoolMutexFree
  /\ navServer' = "set"
  /\ m_taskQueue' = [i \in 1 .. ThreadNum |-> i - 1]
  /\ pc' = WokenAll
  /\ UNCHANGED <<tables, loopStop, poolStop, joined, loop, todo, owner, lost, missed,
                 act, sent, ended, fault>>

(* Inside newConnection: a map's mutex, and the heap under it or alone.    *)
MainTakes(k) ==
  /\ ~Interrupted(Main)
  /\ navServer = "set"
  /\ owner[k] = NoOne
  /\ \A j \in Locks : owner[j] = Main => j \in Tables /\ k = "heap"
  /\ owner' = [owner EXCEPT ![k] = Main]
  /\ UNCHANGED <<serverVars, pc, loop, todo, lost, missed, act, sent, ended, fault>>

MainReleases(k) ==
  /\ ~Interrupted(Main)
  /\ owner[k] = Main
  /\ k \in Tables => owner["heap"] # Main
  /\ owner' = [owner EXCEPT ![k] = NoOne]
  /\ UNCHANGED <<serverVars, pc, loop, todo, lost, missed, act, sent, ended, fault>>

(***************************************************************************)
(* An I/O thread: the thread function of ThreadPool around EventLoop::run. *)
(***************************************************************************)
Goto(t, from, to) ==
  /\ ~Interrupted(t)
  /\ pc[t] = from
  /\ pc' = [pc EXCEPT ![t] = to]

TestPool(t) ==
  /\ Goto(t, "test", IF poolStop THEN "exited" ELSE "check")
  /\ UNCHANGED <<serverVars, loop, todo, owner, lost, missed, act, sent, ended, fault>>

(* while (m_stop == false) of run: once more, or the pool's task is done.  *)
BackToLoop(t, from, l) ==
  /\ Goto(t, from, IF loopStop[l] THEN "test" ELSE "poll")
  /\ loop' = [loop EXCEPT ![t] = IF loopStop[l] THEN NoOne ELSE l]

TakeLoop(t) ==
  /\ PoolMutexFree
  /\ m_taskQueue # <<>>
  /\ BackToLoop(t, "check", Head(m_taskQueue))
  /\ m_taskQueue' = Tail(m_taskQueue)
  /\ UNCHANGED <<navServer, tables, loopStop, poolStop, joined, todo, owner, lost, missed,
                 act, sent, ended, fault>>

FindNoLoop(t) ==
  /\ Goto(t, "check", IF poolStop THEN "exited" ELSE "block")
  /\ PoolMutexFree
  /\ m_taskQueue = <<>>
  /\ UNCHANGED <<serverVars, loop, todo, owner, lost, missed, act, sent, ended, fault>>

Block(t) ==
  /\ Goto(t, "block", "waiting")
  /\ UNCHANGED <<serverVars, loop, todo, owner, lost, missed, act, sent, ended, fault>>

WakeSpuriously(t) ==
  /\ Goto(t, "waiting", "check")
  /\ UNCHANGED <<serverVars, loop, todo, owner, lost, missed, act, sent, ended, fault>>

(* stop() has written the eventfd, and run returns. *)
PollStopped(t) ==
  /\ pc[t] = "poll" /\ loopStop[loop[t]]
  /\ BackToLoop(t, "poll", loop[t])
  /\ UNCHANGED <<serverVars, todo, owner, lost, missed, act, sent, ended, fault>>

(* A batch of events, and the critical sections its handlers go through.   *)
PollEvents(t) ==
  /\ Goto(t, "poll", "handle")
  /\ \E S \in SUBSET Locks :
       /\ Cardinality(S) <= MaxSections
       /\ todo' = [todo EXCEPT ![t] = S]
  /\ UNCHANGED <<serverVars, loop, owner, lost, missed, act, sent, ended, fault>>

Acquire(t, k) ==
  /\ ~Interrupted(t)
  /\ k \in todo[t]
  /\ owner[k] = NoOne
  /\ \A j \in Locks : owner[j] # t
  /\ owner' = [owner EXCEPT ![k] = t]
  /\ UNCHANGED <<serverVars, pc, loop, todo, lost, missed, act, sent, ended, fault>>

Release(t, k) ==
  /\ ~Interrupted(t)
  /\ owner[k] = t
  /\ owner' = [owner EXCEPT ![k] = NoOne]
  /\ todo' = [todo EXCEPT ![t] = @ \ {k}]
  /\ UNCHANGED <<serverVars, pc, loop, lost, missed, act, sent, ended, fault>>

(* The handlers may have put a line into a device's stream. *)
FinishBatch(t) ==
  /\ BackToLoop(t, "handle", loop[t])
  /\ todo[t] = {}
  /\ lost' \in {lost, lost \/ tables = "destroyed"}
  /\ UNCHANGED <<serverVars, todo, owner, missed, act, sent, ended, fault>>

(* A handler that uses the maps after ~Navigation has destroyed them. *)
TouchDestroyed(t) ==
  /\ ~Interrupted(t)
  /\ pc[t] = "handle"
  /\ tables = "destroyed"
  /\ Die("use_after_free")

IOThread(t) ==
  \/ TestPool(t) \/ TakeLoop(t) \/ FindNoLoop(t) \/ Block(t)
  \/ PollStopped(t)
  \/ \E k \in Locks : Acquire(t, k) \/ Release(t, k)
  \/ FinishBatch(t) \/ TouchDestroyed(t)

(***************************************************************************)
(* Stop, on the thread the signal is delivered to.                         *)
(***************************************************************************)
Blocked(t, sig) == \E n \in 1 .. Len(act[t]) : act[t][n].sig = sig

Deliver(t, sig) ==
  /\ sent < MaxSignals
  /\ sent = 0 => sig = FirstSignal
  /\ ~Blocked(t, sig)
  /\ t # Main => Blocked(Main, sig) /\ pc[t] # "exited"
  /\ sent' = sent + 1
  /\ act' = [act EXCEPT ![t] = <<[sig |-> sig, at |-> "enter", i |-> 0]>> \o @]
  /\ UNCHANGED <<serverVars, threadVars, ended, fault>>

Top(t) == Head(act[t])
At(t, where) == act[t] # <<>> /\ Top(t).at = where

Continue(t, where, i) ==
  act' = [act EXCEPT ![t] = <<[sig |-> Top(t).sig, at |-> where, i |-> i]>> \o Tail(@)]

(* A thread may take stdout's lock again; malloc's lock it may not.        *)
CanPrint(t) == owner["stdout"] \in {t, NoOne}
CanFree == owner["heap"] = NoOne

(* navServer->stopLoopRun(): there is no worker pool to stop.  On a null   *)
(* or deleted object the call reads memory that is not there.              *)
Enter(t) ==
  /\ At(t, "enter")
  /\ CanPrint(t)
  /\ \/ /\ navServer = "set"
        /\ Continue(t, "stop_loops", 0)
        /\ UNCHANGED <<serverVars, threadVars, sent, ended, fault>>
     \/ navServer = "null" /\ Die("null_server")
     \/ navServer = "deleted" /\ Die("use_after_free")

(* Variant: one loop too many is stopped. *)
StopLoopsPastEnd(t) ==
  /\ At(t, "stop_loops")
  /\ LET i == Top(t).i IN
       \/ /\ i <= ThreadNum
          /\ loopStop' = [loopStop EXCEPT ![i] = TRUE]
          /\ Continue(t, "stop_loops", i + 1)
       \/ /\ i > ThreadNum
          /\ CanPrint(t)
          /\ Continue(t, "test_stop", 0)
          /\ UNCHANGED loopStop
  /\ UNCHANGED <<navServer, tables, poolStop, m_taskQueue, joined, threadVars, sent, ended, fault>>

(* m_subLoops[i]->stop(), one after the other; the main loop needs no      *)
(* telling, its thread never leaves Stop.                                  *)
StopLoops(t) ==
  /\ At(t, "stop_loops")
  /\ LET i == Top(t).i IN
       \/ /\ i < ThreadNum
          /\ loopStop' = [loopStop EXCEPT ![i] = TRUE]
          /\ Continue(t, "stop_loops", i + 1)
       \/ /\ i = ThreadNum
          /\ CanPrint(t)
          /\ Continue(t, "test_stop", 0)
          /\ UNCHANGED loopStop
  /\ UNCHANGED <<navServer, tables, poolStop, m_taskQueue, joined, threadVars, sent, ended, fault>>

(* stopThread: who finds m_stop set returns at once, joined or not ...     *)
TestStop(t) ==
  /\ At(t, "test_stop")
  /\ Continue(t, IF poolStop THEN "delete_tables" ELSE "set_stop", 0)
  /\ UNCHANGED <<serverVars, threadVars, sent, ended, fault>>

(* ... who does not, sets it without the mutex ... *)
SetStop(t) ==
  /\ At(t, "set_stop")
  /\ poolStop' = TRUE
  /\ Continue(t, "notify", 0)
  /\ UNCHANGED <<navServer, tables, loopStop, m_taskQueue, joined, threadVars, sent, ended, fault>>

(* Variant: one of them only. *)
NotifyOne(t) ==
  /\ At(t, "notify")
  /\ \E v \in IOThreads :
       /\ pc[v] = "waiting" \/ \A u \in IOThreads : pc[u] # "waiting"
       /\ pc' = [pc EXCEPT ![v] = IF @ = "waiting" THEN "check" ELSE @]
  /\ missed' = {u \in IOThreads : pc[u] # "waiting"}
  /\ Continue(t, "join", 0)
  /\ UNCHANGED <<serverVars, loop, todo, owner, lost, sent, ended, fault>>

(* ... wakes the threads that wait by now ... *)
NotifyAll(t) ==
  /\ At(t, "notify")
  /\ pc' = WokenAll
  /\ missed' = {u \in IOThreads : pc[u] # "waiting"}
  /\ Continue(t, "join", 0)
  /\ UNCHANGED <<serverVars, loop, todo, owner, lost, sent, ended, fault>>

(* Variant: the threads are taken as joined without waiting for their end. *)
JoinNobody(t) ==
  /\ At(t, "join")
  /\ joined' = IOThreads
  /\ Continue(t, "delete_tables", 0)
  /\ UNCHANGED <<navServer, tables, loopStop, poolStop, m_taskQueue, threadVars, sent, ended, fault>>

(* ... and joins them in turn.  std::thread::join throws for the calling   *)
(* thread itself, for a thread that has been joined, and when another      *)
(* thread is about to join the same one.                                   *)
Join(t) ==
  /\ At(t, "join")
  /\ LET i == Top(t).i IN
       \/ /\ i < ThreadNum /\ i # t /\ i \notin joined
          /\ pc[i] = "exited"
          /\ joined' = joined \union {i}
          /\ Continue(t, "join", i + 1)
          /\ UNCHANGED <<navServer, tables, loopStop, poolStop, m_taskQueue, threadVars, sent, ended, fault>>
       \/ /\ \/ i = t
             \/ i \in joined
             \/ \E u \in Threads \ {t} : At(u, "join") /\ Top(u).i = i
          /\ i < ThreadNum
          /\ Die("terminate")
       \/ /\ i = ThreadNum
          /\ CanPrint(t)
          /\ Continue(t, "delete_tables", 0)
          /\ UNCHANGED <<serverVars, threadVars, sent, ended, fault>>

(* delete navServer: first m_deviceInfoMap, whose streams write what they  *)
(* buffer, then m_ConnectionMap.  Destroying them again, or while a        *)
(* handler uses them, or in the middle of an insertion that the signal     *)
(* interrupted, is undefined.                                              *)
DeleteTables(t) ==
  /\ At(t, "delete_tables")
  /\ CanFree
  /\ \/ /\ tables = "live"
        /\ tables' = "destroyed"
        /\ Continue(t, "delete_pool", 0)
        /\ UNCHANGED <<navServer, loopStop, poolStop, m_taskQueue, joined,
                       threadVars, sent, ended, fault>>
     \/ /\ tables = "destroyed" \/ \E u \in IOThreads : pc[u] = "handle"
        /\ Die("use_after_free")
     \/ /\ \E k \in Tables : owner[k] = Main
        /\ Die("torn_table")

(* Variant: the threads that were not joined are detached. *)
DeleteDetached(t) ==
  /\ At(t, "delete_pool")
  /\ CanFree
  /\ navServer' = "deleted"
  /\ Continue(t, "exit", 0)
  /\ UNCHANGED <<tables, loopStop, poolStop, m_taskQueue, joined, threadVars, sent, ended, fault>>

(* ~ThreadPool: its stopThread returns at once.  A thread still blocked in *)
(* the condition variable makes its destruction undefined, and ~thread     *)
(* terminates the process for a thread that was not joined.                *)
DeletePool(t) ==
  /\ At(t, "delete_pool")
  /\ CanFree
  /\ \/ /\ joined = IOThreads
        /\ navServer' = "deleted"
        /\ Continue(t, "exit", 0)
        /\ UNCHANGED <<tables, loopStop, poolStop, m_taskQueue, joined, threadVars, sent, ended, fault>>
     \/ joined # IOThreads /\ Die("terminate")
     \/ (\E u \in IOThreads : pc[u] = "waiting") /\ Die("destroyed_condition")

Exit(t) ==
  /\ At(t, "exit")
  /\ CanPrint(t)
  /\ ended' = t
  /\ UNCHANGED <<serverVars, threadVars, act, sent, fault>>

Stop(t) ==
  \/ Enter(t) \/ StopLoops(t) \/ TestStop(t) \/ SetStop(t) \/ NotifyAll(t) \/ Join(t)
  \/ DeleteTables(t) \/ DeletePool(t) \/ Exit(t)

Running == fault = "none" /\ ended = NoOne

Next ==
  /\ Running
  /\ \/ Construct
     \/ \E k \in Locks : MainTakes(k) \/ MainReleases(k)
     \/ \E t \in IOThreads : IOThread(t) \/ WakeSpuriously(t) \/ PollEvents(t)
     \/ \E t \in Threads, sig \in Signals : Deliver(t, sig)
     \/ \E t \in Threads : Stop(t)

Spec == Init /\ [][Next]_vars

(* Threads are scheduled, and one that waits for a lock which is released  *)
(* again and again gets it.  No event and no second signal is assumed, and *)
(* nothing of the main thread's own work.                                  *)
Fairness ==
  /\ \A t \in IOThreads : SF_vars(Running /\ IOThread(t))
  /\ \A t \in Threads : SF_vars(Running /\ Stop(t))

FairSpec == Spec /\ Fairness

-----------------------------------------------------------------------------
(* One signal is handled safely: the maps outlive every I/O thread, so the *)
(* order of the destructors, in which the maps go before the pool, does no *)
(* harm; and Stop dies of nothing but a server that is not yet there or an *)
(* insertion it interrupted.                                               *)
OneSignalIsSafe ==
  sent <= 1 =>
    /\ tables = "destroyed" => \A t \in IOThreads : pc[t] = "exited"
    /\ fault \in {"none", "null_server", "torn_table"}

(* An orderly exit, after however many signals, is the main thread's, with *)
(* every I/O thread joined and every accepted line written: Stop on an I/O *)
(* thread never gets that far, and nothing accepts a line after the flush. *)
CleanExit ==
  ended # NoOne => ended = Main /\ ~lost /\ \A t \in IOThreads : pc[t] = "exited"

(* What a signal handler must not wait for, and this one can: a lock of    *)
(* code that a handler of a signal interrupted.                            *)
WaitsForInterrupted ==
  \E k \in Locks, u \in Threads :
    /\ owner[k] = u /\ Interrupted(u)
    /\ \/ \E t \in IOThreads : ~Interrupted(t) /\ k \in todo[t]
       \/ \E t \in Threads : Interrupted(t) /\ \/ k = "stdout" /\ ~CanPrint(t)
                                               \/ k = "heap" /\ ~CanFree

(* An I/O thread that was awake when stopThread notified those that slept  *)
(* left its loop, found no other and sleeps now.                           *)
SleptPastStop == \E t \in missed : pc[t] = "waiting"

(* A signal ends the process, or leaves it hanging for one of these two    *)
(* reasons and no other: from some moment on, if a signal came at all, the *)
(* process is gone or one of the reasons is there to stay.                 *)
StopEnds == <>[](sent > 0 => ~Running \/ WaitsForInterrupted \/ SleptPastStop)
=============================================================================
