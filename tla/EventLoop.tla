------------------------------ MODULE EventLoop ------------------------------
(***************************************************************************)
(* One event loop: the thread in run(), other threads that hand it tasks   *)
(* with addTaskToQueueInLoop (worker threads sending a reply), and the     *)
(* owner that stops it.                                                    *)
(*                                                                         *)
(* The eventfd is registered level-triggered, so epoll_wait reports it as  *)
(* long as its counter is not 0.  All other Channels of the loop are one   *)
(* event, "other", whose handlers are the subject of ConnLifecycle.        *)
(***************************************************************************)
EXTENDS Naturals, Sequences, SequencesExt

CONSTANTS
  Callers,   (* the threads that hand tasks to the loop              *)
  MaxCalls,  (* bound: addTaskToQueueInLoop calls each of them makes *)
  Loop,      (* the loop's own thread, as holder of the mutex        *)
  Nobody     (* the mutex is free                                    *)

ASSUME LoopAssumption ==
  /\ MaxCalls \in Nat
  /\ Loop \notin Callers
  /\ Nobody \notin Callers \union {Loop}

(* The n-th task of a caller. *)
Tasks == Callers \X (1 .. MaxCalls)

VARIABLES
  m_stop,
  m_taskQueue,
  m_taskQueueMutex,  (* who holds it                                    *)
  m_wakeupfd,        (* the eventfd's counter                           *)
  other,             (* an event of another Channel is pending          *)
  lpc,               (* where the loop's thread is                      *)
  batch,             (* events epoll_wait returned, not yet handled     *)
  made,              (* calls each caller has begun                     *)
  cpc,               (* where each caller is in addTaskToQueueInLoop    *)
  spc,               (* where the owner is in stop                      *)
  executed           (* history: the tasks run so far                   *)

queueVars == <<m_taskQueue, m_taskQueueMutex, executed>>
callerVars == <<made, cpc>>
vars == <<m_stop, m_wakeupfd, other, lpc, batch, spc, queueVars, callerVars>>

LoopPCs == {"test", "epoll_wait", "handle", "read", "lock", "front", "pop", "exited"}

TypeOK ==
  /\ m_stop \in BOOLEAN
  /\ m_taskQueue \in Seq(Tasks)
  /\ m_taskQueueMutex \in {Loop, Nobody}
  /\ m_wakeupfd \in Nat
  /\ other \in BOOLEAN
  /\ lpc \in LoopPCs
  /\ batch \subseteq {"wakeup", "other"}
  /\ made \in [Callers -> 0 .. MaxCalls]
  /\ cpc \in [Callers -> {"idle", "wakeup"}]
  /\ spc \in {"idle", "wakeup", "returned"}
  /\ executed \in Seq(Tasks)

Init ==
  /\ m_stop = FALSE
  /\ m_taskQueue = <<>>
  /\ m_taskQueueMutex = Nobody
  /\ m_wakeupfd = 0
  /\ other = FALSE
  /\ lpc = "test"
  /\ batch = {}
  /\ made = [c \in Callers |-> 0]
  /\ cpc = [c \in Callers |-> "idle"]
  /\ spc = "idle"
  /\ executed = <<>>

(***************************************************************************)
(* run                                                                     *)
(***************************************************************************)
Goto(from, to) == lpc = from /\ lpc' = to

(* while (m_stop == false) *)
TestStop ==
  /\ Goto("test", IF m_stop THEN "exited" ELSE "epoll_wait")
  /\ UNCHANGED <<m_stop, m_wakeupfd, other, batch, spc, queueVars, callerVars>>

Ready == {e \in {"wakeup", "other"} : IF e = "wakeup" THEN m_wakeupfd > 0 ELSE other}

EpollWait ==
  /\ Goto("epoll_wait", "handle")
  /\ Ready # {}
  /\ batch' = Ready
  /\ UNCHANGED <<m_stop, m_wakeupfd, other, spc, queueVars, callerVars>>

(* Nothing for 10 seconds: the timeout callback the server sets does nothing. *)
EpollTimeout ==
  /\ Goto("epoll_wait", "test")
  /\ Ready = {}
  /\ UNCHANGED <<m_stop, m_wakeupfd, other, batch, spc, queueVars, callerVars>>

(* The events of a batch come in any order; after the last one, loop. *)
HandleOther ==
  /\ Goto("handle", "handle")
  /\ "other" \in batch
  /\ batch' = batch \ {"other"}
  /\ other' = FALSE
  /\ UNCHANGED <<m_stop, m_wakeupfd, spc, queueVars, callerVars>>

EndOfBatch ==
  /\ Goto("handle", "test")
  /\ batch = {}
  /\ UNCHANGED <<m_stop, m_wakeupfd, other, batch, spc, queueVars, callerVars>>

(***************************************************************************)
(* handleWakeup                                                            *)
(***************************************************************************)
HandleWakeup ==
  /\ Goto("handle", "read")
  /\ "wakeup" \in batch
  /\ batch' = batch \ {"wakeup"}
  /\ UNCHANGED <<m_stop, m_wakeupfd, other, spc, queueVars, callerVars>>

(* read() resets the counter, whatever its value. *)
ReadWakeupfd ==
  /\ Goto("read", "lock")
  /\ m_wakeupfd' = 0
  /\ UNCHANGED <<m_stop, other, batch, spc, queueVars, callerVars>>

LockQueue ==
  /\ Goto("lock", "front")
  /\ m_taskQueueMutex = Nobody
  /\ m_taskQueueMutex' = Loop
  /\ UNCHANGED <<m_stop, m_wakeupfd, other, batch, spc, m_taskQueue, executed, callerVars>>

(* fn = front; fn(), with the mutex held ... *)
RunFront ==
  /\ Goto("front", "pop")
  /\ m_taskQueue # <<>>
  /\ executed' = Append(executed, Head(m_taskQueue))
  /\ UNCHANGED <<m_stop, m_wakeupfd, other, batch, spc, m_taskQueue, m_taskQueueMutex, callerVars>>

(* Variant: one task per wakeup, "if" in place of "while". *)
PopAndReturn ==
  /\ Goto("pop", "handle")
  /\ m_taskQueue' = Tail(m_taskQueue)
  /\ m_taskQueueMutex' = Nobody
  /\ UNCHANGED <<m_stop, m_wakeupfd, other, batch, spc, executed, callerVars>>

(* Variant: the pop is forgotten. *)
PopNothing ==
  /\ Goto("pop", "front")
  /\ UNCHANGED <<m_stop, m_wakeupfd, other, batch, spc, queueVars, callerVars>>

(* ... then pop. *)
Pop ==
  /\ Goto("pop", "front")
  /\ m_taskQueue' = Tail(m_taskQueue)
  /\ UNCHANGED <<m_stop, m_wakeupfd, other, batch, spc, m_taskQueueMutex, executed, callerVars>>

(* The lock_guard ends with the function. *)
UnlockQueue ==
  /\ Goto("front", "handle")
  /\ m_taskQueue = <<>>
  /\ m_taskQueueMutex' = Nobody
  /\ UNCHANGED <<m_stop, m_wakeupfd, other, batch, spc, m_taskQueue, executed, callerVars>>

LoopThread ==
  \/ TestStop \/ EpollWait \/ HandleOther \/ EndOfBatch
  \/ HandleWakeup \/ ReadWakeupfd \/ LockQueue \/ RunFront \/ Pop \/ UnlockQueue

(***************************************************************************)
(* addTaskToQueueInLoop: push under the mutex, then write the eventfd.     *)
(***************************************************************************)

(* Variants: the lock is not released; the loop is not woken. *)
PushKeepingLock(c) ==
  /\ cpc[c] = "idle" /\ made[c] < MaxCalls
  /\ m_taskQueueMutex = Nobody
  /\ m_taskQueueMutex' = c
  /\ made' = [made EXCEPT ![c] = @ + 1]
  /\ m_taskQueue' = Append(m_taskQueue, <<c, made[c] + 1>>)
  /\ cpc' = [cpc EXCEPT ![c] = "wakeup"]
  /\ UNCHANGED <<m_stop, m_wakeupfd, other, lpc, batch, spc, executed>>
PushInSilence(c) ==
  /\ cpc[c] = "idle" /\ made[c] < MaxCalls
  /\ m_taskQueueMutex = Nobody
  /\ made' = [made EXCEPT ![c] = @ + 1]
  /\ m_taskQueue' = Append(m_taskQueue, <<c, made[c] + 1>>)
  /\ UNCHANGED <<m_stop, m_wakeupfd, other, lpc, batch, spc, m_taskQueueMutex, cpc, executed>>

PushTask(c) ==
  /\ cpc[c] = "idle" /\ made[c] < MaxCalls
  /\ m_taskQueueMutex = Nobody
  /\ made' = [made EXCEPT ![c] = @ + 1]
  /\ m_taskQueue' = Append(m_taskQueue, <<c, made[c] + 1>>)
  /\ cpc' = [cpc EXCEPT ![c] = "wakeup"]
  /\ UNCHANGED <<m_stop, m_wakeupfd, other, lpc, batch, spc, m_taskQueueMutex, executed>>

WakeupEventLoop(c) ==
  /\ cpc[c] = "wakeup"
  /\ cpc' = [cpc EXCEPT ![c] = "idle"]
  /\ m_wakeupfd' = m_wakeupfd + 1
  /\ UNCHANGED <<m_stop, other, lpc, batch, spc, queueVars, made>>

(***************************************************************************)
(* stop: set the flag, then write the eventfd.                             *)
(***************************************************************************)
SetStop ==
  /\ spc = "idle" /\ spc' = "wakeup"
  /\ m_stop' = TRUE
  /\ UNCHANGED <<m_wakeupfd, other, lpc, batch, queueVars, callerVars>>

(* Variant: the flag is set and nobody is told. *)
StopInSilence ==
  /\ spc = "wakeup" /\ spc' = "returned"
  /\ UNCHANGED <<m_stop, m_wakeupfd, other, lpc, batch, queueVars, callerVars>>

WakeupToStop ==
  /\ spc = "wakeup" /\ spc' = "returned"
  /\ m_wakeupfd' = m_wakeupfd + 1
  /\ UNCHANGED <<m_stop, other, lpc, batch, queueVars, callerVars>>

(* A client's data or the timer. *)
OtherEvent ==
  /\ ~other
  /\ other' = TRUE
  /\ UNCHANGED <<m_stop, m_wakeupfd, lpc, batch, spc, queueVars, callerVars>>

Next ==
  \/ LoopThread \/ EpollTimeout
  \/ \E c \in Callers : PushTask(c) \/ WakeupEventLoop(c)
  \/ SetStop \/ WakeupToStop
  \/ OtherEvent

Spec == Init /\ [][Next]_vars

(* Threads are scheduled and finish the call they are in.  The 10 second   *)
(* timeout of epoll_wait is deliberately not among the fair actions: what  *)
(* holds under this fairness does not wait for it.                         *)
Fairness ==
  /\ WF_vars(LoopThread)
  /\ \A c \in Callers : WF_vars(WakeupEventLoop(c))
  /\ WF_vars(WakeupToStop)

FairSpec == Spec /\ Fairness

-----------------------------------------------------------------------------
(* The loop as a mailbox: a task is run when fn() is called, although it   *)
(* stays at the front of the queue until the pop.                          *)
Unrun == IF lpc = "pop" THEN Tail(m_taskQueue) ELSE m_taskQueue
Box == INSTANCE Mailbox WITH box <- Unrun, log <- executed

(* Every task is run once and in the order of the pushes, whoever pushed. *)
ImplementsMailbox == Box!BoxSpec

(* The loop is about to drain the queue, or sure to do so before it next   *)
(* blocks in epoll_wait.                                                   *)
WakeupPending ==
  \/ m_wakeupfd > 0
  \/ "wakeup" \in batch
  \/ lpc \in {"read", "lock", "front", "pop"}
  \/ \E c \in Callers : cpc[c] = "wakeup"

(* No wakeup is lost: as long as a task is queued, the loop will get to    *)
(* handleWakeup, or a caller is still about to write the eventfd.          *)
NoStrandedTask == m_taskQueue # <<>> => WakeupPending

(* A queued task is run, unless the loop is stopped first. *)
QueuedIsRun ==
  \A c \in Callers : \A n \in 1 .. MaxCalls :
    <<c, n>> \in ToSet(m_taskQueue) ~> (<<c, n>> \in ToSet(executed) \/ m_stop)

(* EventLoop.cpp:62: stop wakes the loop at once: run returns without      *)
(* waiting for epoll_wait to time out.                                     *)
StopIsPrompt == m_stop ~> lpc = "exited"
=============================================================================
