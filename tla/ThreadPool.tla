------------------------------ MODULE ThreadPool ------------------------------
(***************************************************************************)
(* The fixed pool of threads behind both the "IO" pool (whose tasks are    *)
(* EventLoop::run) and the "WORKS" pool (whose tasks are client messages): *)
(* a queue, a mutex, a condition variable and an atomic flag that          *)
(* stopThread sets without holding the mutex.                              *)
(*                                                                         *)
(* A worker's wait(lock, predicate) is split where the library splits it:  *)
(* test the predicate under the mutex, then atomically release the mutex   *)
(* and block.  A waiting thread may also wake spuriously.                  *)
(***************************************************************************)
EXTENDS Naturals, Sequences, FiniteSets, SequencesExt

CONSTANTS
  Workers,  (* the pool's threads                                    *)
  Tasks,    (* the addTask calls that may be made, each with a task  *)
  Nobody,   (* the mutex is free                                     *)
  NoTask    (* a worker that runs nothing                            *)

ASSUME PoolAssumption ==
  /\ Workers # {} /\ IsFiniteSet(Workers)
  /\ Nobody \notin Workers
  /\ NoTask \notin Tasks

VARIABLES
  m_taskQueue,
  m_mutex,     (* the worker holding it, or Nobody                     *)
  m_stop,
  wpc,         (* where each worker is in the thread function          *)
  running,     (* the task each worker has taken out                   *)
  call,        (* where each addTask call is                           *)
  spc,         (* where the owner is in stopThread                     *)
  done,        (* history: tasks that have been executed               *)
  owed         (* history: tasks in the queue when m_stop was set      *)

vars == <<m_taskQueue, m_mutex, m_stop, wpc, running, call, spc, done, owed>>

WorkerPCs == {"test", "lock", "check", "block", "waiting", "relock", "take", "run", "exited"}

TypeOK ==
  /\ m_taskQueue \in Seq(Tasks)
  /\ m_mutex \in Workers \union {Nobody}
  /\ m_stop \in BOOLEAN
  /\ wpc \in [Workers -> WorkerPCs]
  /\ running \in [Workers -> Tasks \union {NoTask}]
  /\ call \in [Tasks -> {"new", "notify", "returned"}]
  /\ spc \in {"idle", "set", "notify", "join", "returned", "destroyed"}
  /\ done \subseteq Tasks
  /\ owed \subseteq Tasks

Init ==
  /\ m_taskQueue = <<>>
  /\ m_mutex = Nobody
  /\ m_stop = FALSE
  /\ wpc = [w \in Workers |-> "test"]
  /\ running = [w \in Workers |-> NoTask]
  /\ call = [t \in Tasks |-> "new"]
  /\ spc = "idle"
  /\ done = {}
  /\ owed = {}

(***************************************************************************)
(* A worker thread.                                                        *)
(***************************************************************************)
Goto(w, from, to) == wpc[w] = from /\ wpc' = [wpc EXCEPT ![w] = to]

(* while (m_stop == false) *)
TestStop(w) ==
  /\ Goto(w, "test", IF m_stop THEN "exited" ELSE "lock")
  /\ UNCHANGED <<m_taskQueue, m_mutex, m_stop, running, call, spc, done, owed>>

Lock(w) ==
  /\ \E from \in {"lock", "relock"} : Goto(w, from, "check")
  /\ m_mutex = Nobody
  /\ m_mutex' = w
  /\ UNCHANGED <<m_taskQueue, m_stop, running, call, spc, done, owed>>

(* Variant: the lock is released between the predicate and the wait. *)
CheckAndUnlock(w) ==
  /\ Goto(w, "check", IF m_stop \/ m_taskQueue # <<>> THEN "take" ELSE "block")
  /\ m_mutex' = IF wpc'[w] = "block" THEN Nobody ELSE w
  /\ UNCHANGED <<m_taskQueue, m_stop, running, call, spc, done, owed>>

(* The predicate of the wait. *)
Check(w) ==
  /\ Goto(w, "check", IF m_stop \/ m_taskQueue # <<>> THEN "take" ELSE "block")
  /\ UNCHANGED <<m_taskQueue, m_mutex, m_stop, running, call, spc, done, owed>>

Block(w) ==
  /\ Goto(w, "block", "waiting")
  /\ m_mutex' = Nobody
  /\ UNCHANGED <<m_taskQueue, m_stop, running, call, spc, done, owed>>

WakeSpuriously(w) ==
  /\ Goto(w, "waiting", "relock")
  /\ UNCHANGED <<m_taskQueue, m_mutex, m_stop, running, call, spc, done, owed>>

(* Variants: the pop is forgotten, after a copy or after a move of the front. *)
TakeLeaving(w, front) ==
  /\ m_mutex' = Nobody
  /\ m_taskQueue # <<>>
  /\ Goto(w, "take", "run")
  /\ running' = [running EXCEPT ![w] = Head(m_taskQueue)]
  /\ m_taskQueue' = <<front>> \o Tail(m_taskQueue)
  /\ UNCHANGED <<m_stop, call, spc, done, owed>>
TakeCopied(w) == m_taskQueue # <<>> /\ TakeLeaving(w, Head(m_taskQueue))
TakeMoved(w) == TakeLeaving(w, NoTask)

(* Leave if stopped with nothing queued, else take out the front task. *)
Take(w) ==
  /\ m_mutex' = Nobody
  /\ \/ /\ m_stop /\ m_taskQueue = <<>>
        /\ Goto(w, "take", "exited")
        /\ UNCHANGED <<m_taskQueue, running>>
     \/ /\ m_taskQueue # <<>>
        /\ Goto(w, "take", "run")
        /\ running' = [running EXCEPT ![w] = Head(m_taskQueue)]
        /\ m_taskQueue' = Tail(m_taskQueue)
  /\ UNCHANGED <<m_stop, call, spc, done, owed>>

(* task(), and back to the loop's test. *)
Run(w) ==
  /\ Goto(w, "run", "test")
  /\ done' = done \union {running[w]}
  /\ running' = [running EXCEPT ![w] = NoTask]
  /\ UNCHANGED <<m_taskQueue, m_mutex, m_stop, call, spc, owed>>

Worker(w) ==
  TestStop(w) \/ Lock(w) \/ Check(w) \/ Block(w) \/ Take(w) \/ Run(w)

(***************************************************************************)
(* addTask: push under the mutex, then notify_one outside it.              *)
(***************************************************************************)

(* Variant: notify only when the queue was empty. *)
PushNotifyIfEmpty(t) ==
  /\ call[t] = "new"
  /\ m_mutex = Nobody
  /\ m_taskQueue' = Append(m_taskQueue, t)
  /\ call' = [call EXCEPT ![t] = IF m_taskQueue = <<>> THEN "notify" ELSE "returned"]
  /\ UNCHANGED <<m_mutex, m_stop, wpc, running, spc, done, owed>>

Push(t) ==
  /\ call[t] = "new"
  /\ m_mutex = Nobody
  /\ m_taskQueue' = Append(m_taskQueue, t)
  /\ call' = [call EXCEPT ![t] = "notify"]
  /\ UNCHANGED <<m_mutex, m_stop, wpc, running, spc, done, owed>>

Waiting == {w \in Workers : wpc[w] = "waiting"}

NotifyOne(t) ==
  /\ call[t] = "notify"
  /\ call' = [call EXCEPT ![t] = "returned"]
  /\ \/ Waiting = {} /\ UNCHANGED wpc
     \/ \E w \in Waiting : wpc' = [wpc EXCEPT ![w] = "relock"]
  /\ UNCHANGED <<m_taskQueue, m_mutex, m_stop, running, spc, done, owed>>

(***************************************************************************)
(* stopThread, called by the owner and once more by ~ThreadPool.           *)
(***************************************************************************)
StopStep(from, to) == spc = from /\ spc' = to

CallStop ==
  /\ ~m_stop
  /\ StopStep("idle", "set")
  /\ UNCHANGED <<m_taskQueue, m_mutex, m_stop, wpc, running, call, done, owed>>

(* The flag is set without m_mutex. *)
SetStop ==
  /\ StopStep("set", "notify")
  /\ m_stop' = TRUE
  /\ owed' = ToSet(m_taskQueue)
  /\ UNCHANGED <<m_taskQueue, m_mutex, wpc, running, call, done>>

NotifyAll ==
  /\ StopStep("notify", "join")
  /\ wpc' = [w \in Workers |-> IF w \in Waiting THEN "relock" ELSE wpc[w]]
  /\ UNCHANGED <<m_taskQueue, m_mutex, m_stop, running, call, done, owed>>

Join ==
  /\ StopStep("join", "returned")
  /\ \A w \in Workers : wpc[w] = "exited"
  /\ UNCHANGED <<m_taskQueue, m_mutex, m_stop, wpc, running, call, done, owed>>

(* The destructor's call returns at once. *)
CallStopAgain ==
  /\ m_stop
  /\ StopStep("returned", "destroyed")
  /\ UNCHANGED <<m_taskQueue, m_mutex, m_stop, wpc, running, call, done, owed>>

Stopper == CallStop \/ SetStop \/ NotifyAll \/ Join \/ CallStopAgain

Next ==
  \/ \E w \in Workers : Worker(w) \/ WakeSpuriously(w)
  \/ \E t \in Tasks : Push(t) \/ NotifyOne(t)
  \/ Stopper

Spec == Init /\ [][Next]_vars

(* Threads are scheduled, tasks return, and an addTask or a stopThread     *)
(* that has begun goes on; nobody is bound to call either, and no spurious *)
(* wakeup is promised.                                                     *)
Fairness ==
  /\ \A w \in Workers : WF_vars(Worker(w))
  /\ \A t \in Tasks : WF_vars(NotifyOne(t))
  /\ WF_vars(SetStop \/ NotifyAll \/ Join)

FairSpec == Spec /\ Fairness

-----------------------------------------------------------------------------
Added == {t \in Tasks : call[t] # "new"}
Taken == {running[w] : w \in Workers} \ {NoTask}

(* No task is lost or executed twice: every added task is in exactly one   *)
(* of the queue, a worker's hands and the executed tasks, at one place.    *)
TasksConserved ==
  /\ Added = ToSet(m_taskQueue) \union Taken \union done
  /\ ToSet(m_taskQueue) \intersect (Taken \union done) = {}
  /\ Taken \intersect done = {}
  /\ \A i, j \in DOMAIN m_taskQueue : m_taskQueue[i] = m_taskQueue[j] => i = j
  /\ \A v, w \in Workers : running[v] = running[w] /\ running[v] # NoTask => v = w

Work == INSTANCE WorkQueue WITH
  Hands <- Workers, queue <- m_taskQueue, inHand <- running, ended <- done

(* Behind the mutex, the condition variable and the flag the pool is no    *)
(* more than a queue that idle workers take the oldest task from: each     *)
(* added task is begun in its turn, by one worker, and executed once.      *)
ImplementsWorkQueue == Work!QueueSpec

Awake == {w \in Workers : wpc[w] \in {"test", "lock", "relock", "check", "take"}}
Notifying == {t \in Tasks : call[t] = "notify"}

(* No notification is lost, nor is a worker left asleep that a queued task *)
(* could use: while one sleeps, each queued task has a worker of its own   *)
(* on its way to the queue or a notification still to come                 *)
(* (ThreadPool.cpp:21-24, 47).                                             *)
EnoughAwake ==
  ~m_stop /\ Waiting # {}
    => Len(m_taskQueue) <= Cardinality(Awake) + Cardinality(Notifying)

(* A queued task is executed, unless the pool is stopped first. *)
QueuedIsExecuted ==
  \A t \in Tasks : (t \in ToSet(m_taskQueue)) ~> (t \in done \/ m_stop)

-----------------------------------------------------------------------------
(* ThreadPool.cpp:26: tasks still queued when the pool is stopped are      *)
(* executed before the threads leave.                                      *)
DrainedOnExit == (\A w \in Workers : wpc[w] = "exited") => owed \subseteq done

(* ThreadPool.h:23: once m_stop is set all the threads exit, and           *)
(* stopThread, which joins them, returns.                                  *)
StopTerminates == m_stop ~> spc \in {"returned", "destroyed"}
=============================================================================
