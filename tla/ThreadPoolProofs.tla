--------------------------- MODULE ThreadPoolProofs ---------------------------
(***************************************************************************)
(* Safety of the thread pool for any number of workers and tasks.          *)
(***************************************************************************)
EXTENDS ThreadPool, FiniteSetTheorems, TLAPS

(* Whoever is between lock() and unlock() is the holder of m_mutex.        *)
MutexInv ==
  \A w \in Workers : wpc[w] \in {"check", "block", "take"} <=> m_mutex = w

(* A worker that is about to sleep has just seen the queue empty, and the  *)
(* mutex it still holds keeps it so.                                       *)
BlockInv == \A w \in Workers : wpc[w] = "block" => m_taskQueue = <<>>

(* A worker holds a task exactly while it runs one. *)
RunInv == \A w \in Workers : wpc[w] = "run" <=> running[w] # NoTask

IInv ==
  /\ TypeOK
  /\ MutexInv
  /\ BlockInv
  /\ RunInv
  /\ IsFiniteSet(Notifying)
  /\ EnoughAwake
  /\ TasksConserved

-----------------------------------------------------------------------------
(* What addTask's push and a worker's front/pop do to the queue's contents. *)

(* An element of a sequence is what stands at some index. *)
LEMMA InSeq ==
  ASSUME NEW S, NEW q \in Seq(S)
  PROVE  /\ \A x : x \in ToSet(q) <=> \E i \in 1 .. Len(q) : x = q[i]
         /\ DOMAIN q = 1 .. Len(q)
         /\ Len(q) \in Nat
         /\ ToSet(q) \subseteq S
<1>1. DOMAIN q = 1 .. Len(q) /\ Len(q) \in Nat /\ \A i \in 1 .. Len(q) : q[i] \in S
  OBVIOUS
<1>2. ToSet(q) = {q[i] : i \in 1 .. Len(q)}
  BY <1>1 DEF ToSet
<1>3. QED BY <1>1, <1>2

(* A push adds its task to the queue's tasks, and nothing else changes. *)
LEMMA PushedSeq ==
  ASSUME NEW S, NEW q \in Seq(S), NEW t \in S
  PROVE  /\ Append(q, t) \in Seq(S)
         /\ ToSet(Append(q, t)) = ToSet(q) \union {t}
<1> DEFINE r == Append(q, t)
<1>1. /\ r \in Seq(S)
      /\ Len(r) = Len(q) + 1 /\ Len(q) \in Nat
      /\ \A i \in 1 .. Len(q) : r[i] = q[i]
      /\ r[Len(q) + 1] = t
  OBVIOUS
<1>2. \A x : x \in ToSet(r) <=> \E i \in 1 .. Len(r) : x = r[i]
  BY <1>1, InSeq
<1>3. \A x : x \in ToSet(q) <=> \E i \in 1 .. Len(q) : x = q[i]
  BY InSeq
<1> HIDE DEF r
<1>4. ASSUME NEW x \in ToSet(r) PROVE x \in ToSet(q) \union {t}
  BY <1>1, <1>2, <1>3
<1>5. ASSUME NEW x \in ToSet(q) \union {t} PROVE x \in ToSet(r)
  <2>1. CASE x = t
    BY <1>1, <1>2, <2>1
  <2>2. CASE x # t
    BY <1>1, <1>2, <1>3, <1>5, <2>2
  <2>3. QED BY <2>1, <2>2
<1>6. QED BY <1>1, <1>4, <1>5 DEF r

(* A push of a task that is not queued keeps the queue free of duplicates. *)
LEMMA PushedDistinct ==
  ASSUME NEW S, NEW q \in Seq(S), NEW t \in S, t \notin ToSet(q),
         \A i, j \in DOMAIN q : q[i] = q[j] => i = j
  PROVE  \A i, j \in DOMAIN Append(q, t) :
           Append(q, t)[i] = Append(q, t)[j] => i = j
<1>1. /\ DOMAIN Append(q, t) = 1 .. (Len(q) + 1) /\ Len(q) \in Nat
      /\ DOMAIN q = 1 .. Len(q)
      /\ \A i \in 1 .. Len(q) : Append(q, t)[i] = q[i]
      /\ Append(q, t)[Len(q) + 1] = t
  OBVIOUS
<1>2. \A i \in 1 .. Len(q) : q[i] # t
  BY InSeq
<1>3. QED BY <1>1, <1>2

(* Taking the front out removes just that task, if there are no duplicates. *)
LEMMA TakenSeq ==
  ASSUME NEW S, NEW q \in Seq(S), q # <<>>,
         \A i, j \in DOMAIN q : q[i] = q[j] => i = j
  PROVE  /\ Head(q) \in S
         /\ Tail(q) \in Seq(S)
         /\ ToSet(q) = ToSet(Tail(q)) \union {Head(q)}
         /\ Head(q) \notin ToSet(Tail(q))
         /\ \A i, j \in DOMAIN Tail(q) : Tail(q)[i] = Tail(q)[j] => i = j
<1> DEFINE r == Tail(q)
<1>1. /\ Head(q) = q[1] /\ Head(q) \in S
      /\ r \in Seq(S)
      /\ Len(r) = Len(q) - 1 /\ Len(q) >= 1
      /\ \A i \in 1 .. Len(r) : r[i] = q[i + 1]
      /\ DOMAIN q = 1 .. Len(q) /\ DOMAIN r = 1 .. Len(r)
      /\ Len(q) \in Nat /\ Len(r) \in Nat
  OBVIOUS
<1>2. /\ \A x : x \in ToSet(q) <=> \E i \in 1 .. Len(q) : x = q[i]
      /\ \A x : x \in ToSet(r) <=> \E i \in 1 .. Len(r) : x = r[i]
  BY <1>1, InSeq
<1> HIDE DEF r
<1>3. /\ ToSet(q) = ToSet(r) \union {q[1]}
      /\ q[1] \notin ToSet(r)
  <2>1. ASSUME NEW x \in ToSet(q) PROVE x \in ToSet(r) \union {q[1]}
    <3>1. PICK i \in 1 .. Len(q) : x = q[i]
      BY <1>2
    <3>2. CASE i = 1
      BY <3>1, <3>2
    <3>3. CASE i # 1
      <4>1. i - 1 \in 1 .. Len(r) /\ r[i - 1] = q[(i - 1) + 1] /\ (i - 1) + 1 = i
        BY <1>1, <3>1, <3>3
      <4>2. QED BY <3>1, <4>1, <1>2
    <3>4. QED BY <3>2, <3>3
  <2>2. ASSUME NEW x \in ToSet(r) PROVE x \in ToSet(q) /\ x # q[1]
    <3>1. PICK i \in 1 .. Len(r) : x = r[i]
      BY <1>2
    <3>2. i + 1 \in 1 .. Len(q) /\ x = q[i + 1] /\ 1 \in 1 .. Len(q) /\ i + 1 # 1
      BY <3>1, <1>1
    <3>3. QED BY <3>2, <1>1, <1>2
  <2>3. q[1] \in ToSet(q)
    BY <1>1, <1>2
  <2>4. QED BY <2>1, <2>2, <2>3
<1>4. \A i, j \in DOMAIN r : r[i] = r[j] => i = j
  <2>1. SUFFICES ASSUME NEW i \in 1 .. Len(r), NEW j \in 1 .. Len(r), r[i] = r[j]
                 PROVE  i = j
    BY <1>1
  <2>2. i + 1 \in DOMAIN q /\ j + 1 \in DOMAIN q /\ q[i + 1] = q[j + 1]
    BY <2>1, <1>1
  <2>3. i + 1 = j + 1
    BY <2>2
  <2>4. QED BY <2>3
<1>5. QED BY <1>1, <1>3, <1>4 DEF r

-----------------------------------------------------------------------------
(* The pool starts in the invariant: nothing queued, nobody at work. *)
THEOREM InitIInv == Init => IInv
<1> SUFFICES ASSUME Init PROVE IInv
  OBVIOUS
<1> USE PoolAssumption DEF Init
<1>1. TypeOK
  <2>1. <<>> \in Seq(Tasks)
    OBVIOUS
  <2>2. QED BY <2>1, Zenon DEF TypeOK, WorkerPCs
<1>2. MutexInv /\ BlockInv /\ RunInv
  BY DEF MutexInv, BlockInv, RunInv
<1>3. IsFiniteSet(Notifying) /\ EnoughAwake
  BY FS_EmptySet DEF Notifying, EnoughAwake, Waiting
<1>4. TasksConserved
  BY DEF TasksConserved, Added, Taken, ToSet
<1>5. QED BY <1>1, <1>2, <1>3, <1>4 DEF IInv

(* Every step keeps the queue, the mutex, the flags and the program        *)
(* counters within their types.                                            *)
LEMMA NextTypeOK == IInv /\ [Next]_vars => TypeOK'
<1> SUFFICES ASSUME IInv, [Next]_vars PROVE TypeOK'
  OBVIOUS
<1> USE DEF IInv, TypeOK, WorkerPCs
<1>1. ASSUME NEW w \in Workers, Worker(w) \/ WakeSpuriously(w) PROVE TypeOK'
  <2>1. CASE TestStop(w) BY <2>1 DEF TestStop, Goto
  <2>2. CASE Lock(w) BY <2>2 DEF Lock, Goto
  <2>3. CASE Check(w) BY <2>3 DEF Check, Goto
  <2>4. CASE Block(w) BY <2>4 DEF Block, Goto
  <2>5. CASE WakeSpuriously(w) BY <2>5 DEF WakeSpuriously, Goto
  <2>6. CASE Take(w)
    <3>1. CASE m_stop /\ m_taskQueue = <<>> /\ Goto(w, "take", "exited")
               /\ UNCHANGED <<m_taskQueue, running>>
      BY <3>1, <2>6 DEF Take, Goto
    <3>2. CASE /\ m_taskQueue # <<>> /\ Goto(w, "take", "run")
               /\ running' = [running EXCEPT ![w] = Head(m_taskQueue)]
               /\ m_taskQueue' = Tail(m_taskQueue)
      <4>1. Head(m_taskQueue) \in Tasks /\ Tail(m_taskQueue) \in Seq(Tasks)
        BY <3>2
      <4>2. QED BY <3>2, <2>6, <4>1 DEF Take, Goto
    <3>3. QED BY <2>6, <3>1, <3>2 DEF Take
  <2>7. CASE Run(w)
    <3>1. running[w] \in Tasks
      BY <2>7 DEF Run, Goto, RunInv
    <3>2. QED BY <2>7, <3>1 DEF Run, Goto
  <2>8. QED BY <1>1, <2>1, <2>2, <2>3, <2>4, <2>5, <2>6, <2>7 DEF Worker
<1>2. ASSUME NEW t \in Tasks, Push(t) \/ NotifyOne(t) PROVE TypeOK'
  <2>1. CASE Push(t)
    <3>1. Append(m_taskQueue, t) \in Seq(Tasks)
      BY PushedSeq
    <3>2. QED BY <2>1, <3>1 DEF Push
  <2>2. CASE NotifyOne(t) BY <2>2 DEF NotifyOne, Waiting
  <2>3. QED BY <1>2, <2>1, <2>2
<1>3. ASSUME Stopper PROVE TypeOK'
  <2>1. CASE CallStop BY <2>1 DEF CallStop, StopStep
  <2>2. CASE SetStop
    <3>1. ToSet(m_taskQueue) \subseteq Tasks
      BY InSeq
    <3>2. QED BY <2>2, <3>1 DEF SetStop, StopStep
  <2>3. CASE NotifyAll BY <2>3 DEF NotifyAll, StopStep, Waiting
  <2>4. CASE Join BY <2>4 DEF Join, StopStep
  <2>5. CASE CallStopAgain BY <2>5 DEF CallStopAgain, StopStep
  <2>6. QED BY <1>3, <2>1, <2>2, <2>3, <2>4, <2>5 DEF Stopper
<1>4. CASE UNCHANGED vars
  BY <1>4 DEF vars
<1>5. QED BY <1>1, <1>2, <1>3, <1>4 DEF Next

-----------------------------------------------------------------------------
(* Only the holder of m_mutex is inside the critical section, a worker     *)
(* about to sleep has an empty queue, and holds no task unless it runs it. *)
LEMMA NextLockInv == IInv /\ [Next]_vars => MutexInv' /\ BlockInv' /\ RunInv'
<1> SUFFICES ASSUME IInv, [Next]_vars PROVE MutexInv' /\ BlockInv' /\ RunInv'
  OBVIOUS
<1> USE PoolAssumption DEF IInv, TypeOK, WorkerPCs, MutexInv, BlockInv, RunInv
<1>1. ASSUME NEW w \in Workers, Worker(w) \/ WakeSpuriously(w)
      PROVE  MutexInv' /\ BlockInv' /\ RunInv'
  <2>1. CASE TestStop(w) BY <2>1 DEF TestStop, Goto
  <2>2. CASE Lock(w) BY <2>2 DEF Lock, Goto
  <2>3. CASE Check(w) BY <2>3 DEF Check, Goto
  <2>4. CASE Block(w) BY <2>4 DEF Block, Goto
  <2>5. CASE WakeSpuriously(w) BY <2>5 DEF WakeSpuriously, Goto
  <2>6. CASE Take(w)
    <3>1. CASE m_stop /\ m_taskQueue = <<>> /\ Goto(w, "take", "exited")
               /\ UNCHANGED <<m_taskQueue, running>>
      BY <3>1, <2>6 DEF Take, Goto
    <3>2. CASE /\ m_taskQueue # <<>> /\ Goto(w, "take", "run")
               /\ running' = [running EXCEPT ![w] = Head(m_taskQueue)]
               /\ m_taskQueue' = Tail(m_taskQueue)
      <4>1. Head(m_taskQueue) \in Tasks
        BY <3>2
      <4>2. \A v \in Workers : v # w => wpc[v] # "block"
        BY <3>2 DEF Goto
      <4>3. QED BY <3>2, <2>6, <4>1, <4>2 DEF Take, Goto
    <3>3. QED BY <2>6, <3>1, <3>2 DEF Take
  <2>7. CASE Run(w) BY <2>7 DEF Run, Goto
  <2>8. QED BY <1>1, <2>1, <2>2, <2>3, <2>4, <2>5, <2>6, <2>7 DEF Worker
<1>2. ASSUME NEW t \in Tasks, Push(t) \/ NotifyOne(t)
      PROVE  MutexInv' /\ BlockInv' /\ RunInv'
  <2>1. CASE Push(t)
    <3>1. \A w \in Workers : wpc[w] # "block"
      BY <2>1 DEF Push
    <3>2. QED BY <2>1, <3>1 DEF Push
  <2>2. CASE NotifyOne(t) BY <2>2 DEF NotifyOne, Waiting
  <2>3. QED BY <1>2, <2>1, <2>2
<1>3. ASSUME Stopper PROVE MutexInv' /\ BlockInv' /\ RunInv'
  BY <1>3 DEF Stopper, CallStop, SetStop, NotifyAll, Join, CallStopAgain, StopStep, Waiting
<1>4. CASE UNCHANGED vars
  BY <1>4 DEF vars
<1>5. QED BY <1>1, <1>2, <1>3, <1>4 DEF Next

(* The numbers of awake workers and of notifications still to come.        *)
LEMMA Counts ==
  ASSUME IInv
  PROVE  /\ IsFiniteSet(Awake) /\ Cardinality(Awake) \in Nat
         /\ IsFiniteSet(Notifying) /\ Cardinality(Notifying) \in Nat
         /\ Len(m_taskQueue) \in Nat
<1>1. Awake \subseteq Workers
  BY DEF Awake
<1>2. Len(m_taskQueue) \in Nat
  BY DEF IInv, TypeOK
<1>3. QED BY <1>1, <1>2, FS_Subset, FS_CardinalityType, PoolAssumption DEF IInv

(* A worker step keeps enough workers awake: one goes to sleep over an     *)
(* empty queue only, and one that takes a task takes it off the queue.     *)
LEMMA WorkerKeepsAwake ==
  ASSUME IInv, TypeOK', NEW w \in Workers, Worker(w) \/ WakeSpuriously(w)
  PROVE  IsFiniteSet(Notifying)' /\ EnoughAwake'
<1> USE DEF IInv, TypeOK, WorkerPCs
<1>1. UNCHANGED <<m_stop, call>>
  BY DEF Worker, TestStop, Lock, Check, Block, Take, Run, WakeSpuriously
<1>2. Notifying' = Notifying
  BY <1>1 DEF Notifying
<1>3. ASSUME wpc[w] # "waiting", wpc'[w] # "waiting" PROVE Waiting' = Waiting
  BY <1>3 DEF Waiting, Worker, TestStop, Lock, Check, Block, Take, Run, WakeSpuriously, Goto
<1>4. CASE UNCHANGED m_taskQueue /\ Awake \subseteq Awake' /\ (Waiting' # {} => Waiting # {})
  <2>1. IsFiniteSet(Awake') /\ Awake' \subseteq Workers
    BY FS_Subset, PoolAssumption DEF Awake
  <2>2. Cardinality(Awake) <= Cardinality(Awake') /\ Cardinality(Awake') \in Nat
    BY <1>4, <2>1, FS_Subset, FS_CardinalityType
  <2>3. QED BY <1>1, <1>2, <1>4, <2>2, Counts DEF EnoughAwake
<1>5. CASE m_taskQueue' = <<>>
  <2>1. IsFiniteSet(Awake') /\ Cardinality(Awake') \in Nat
    BY FS_Subset, FS_CardinalityType, PoolAssumption DEF Awake
  <2>2. Len(m_taskQueue') = 0
    BY <1>5
  <2>3. QED BY <1>2, <2>1, <2>2, Counts DEF EnoughAwake
<1>6. CASE m_stop'
  BY <1>2, <1>6 DEF EnoughAwake
<1>7. CASE TestStop(w)
  <2>1. ~m_stop => Awake' = Awake /\ Waiting' = Waiting
    BY <1>7 DEF TestStop, Goto, Awake, Waiting
  <2>2. QED BY <1>1, <1>4, <1>6, <1>7, <2>1 DEF TestStop
<1>8. CASE Lock(w) \/ Run(w) \/ WakeSpuriously(w)
  <2>1. Awake \subseteq Awake' /\ Waiting' \subseteq Waiting /\ UNCHANGED m_taskQueue
    BY <1>8 DEF Lock, Run, WakeSpuriously, Goto, Awake, Waiting
  <2>2. QED BY <2>1, <1>4
<1>9. CASE Check(w)
  <2>1. CASE m_stop \/ m_taskQueue # <<>>
    <3>1. Awake \subseteq Awake' /\ Waiting' = Waiting /\ UNCHANGED m_taskQueue
      BY <1>9, <2>1 DEF Check, Goto, Awake, Waiting
    <3>2. QED BY <3>1, <1>4
  <2>2. CASE m_taskQueue = <<>>
    BY <1>5, <1>9, <2>2 DEF Check
  <2>3. QED BY <2>1, <2>2
<1>10. CASE Block(w)
  BY <1>5, <1>10 DEF Block, Goto, BlockInv
<1>11. CASE Take(w)
  <2>1. CASE m_stop /\ m_taskQueue = <<>>
    BY <1>1, <1>6, <2>1
  <2>2. CASE m_taskQueue # <<>>
    <3>1. /\ wpc[w] = "take" /\ wpc' = [wpc EXCEPT ![w] = "run"]
          /\ m_taskQueue' = Tail(m_taskQueue)
      BY <1>11, <2>2 DEF Take, Goto
    <3>2. w \in Awake /\ Awake' = Awake \ {w} /\ Waiting' = Waiting
      BY <3>1 DEF Awake, Waiting
    <3>3. Cardinality(Awake') = Cardinality(Awake) - 1
      BY <3>2, Counts, FS_RemoveElement
    <3>4. Len(m_taskQueue') = Len(m_taskQueue) - 1
      BY <3>1, <2>2
    <3>5. QED BY <1>1, <1>2, <3>2, <3>3, <3>4, Counts DEF EnoughAwake
  <2>3. QED BY <1>11, <2>1, <2>2 DEF Take
<1>12. QED
  BY <1>7, <1>8, <1>9, <1>10, <1>11 DEF Worker

(* No step loses a notification: a push leaves a notify_one still to come, *)
(* and a notify_one wakes a worker if any sleeps.                          *)
LEMMA NextEnoughAwake ==
  IInv /\ [Next]_vars => IsFiniteSet(Notifying)' /\ EnoughAwake'
<1> SUFFICES ASSUME IInv, [Next]_vars PROVE IsFiniteSet(Notifying)' /\ EnoughAwake'
  OBVIOUS
<1> USE DEF IInv, TypeOK, WorkerPCs
<1>1. ASSUME NEW w \in Workers, Worker(w) \/ WakeSpuriously(w)
      PROVE  IsFiniteSet(Notifying)' /\ EnoughAwake'
  BY <1>1, NextTypeOK, WorkerKeepsAwake
<1>2. ASSUME NEW t \in Tasks, Push(t) PROVE IsFiniteSet(Notifying)' /\ EnoughAwake'
  <2>1. t \notin Notifying /\ Notifying' = Notifying \union {t}
    BY <1>2 DEF Push, Notifying
  <2>2. /\ IsFiniteSet(Notifying')
        /\ Cardinality(Notifying') = Cardinality(Notifying) + 1
    BY <2>1, Counts, FS_AddElement
  <2>3. Len(m_taskQueue') = Len(m_taskQueue) + 1
    BY <1>2 DEF Push
  <2>4. UNCHANGED <<m_stop, Awake, Waiting>>
    BY <1>2 DEF Push, Awake, Waiting
  <2>5. QED BY <2>2, <2>3, <2>4, Counts DEF EnoughAwake
<1>3. ASSUME NEW t \in Tasks, NotifyOne(t) PROVE IsFiniteSet(Notifying)' /\ EnoughAwake'
  <2>1. t \in Notifying /\ Notifying' = Notifying \ {t}
    BY <1>3 DEF NotifyOne, Notifying
  <2>2. /\ IsFiniteSet(Notifying')
        /\ Cardinality(Notifying') = Cardinality(Notifying) - 1
    BY <2>1, Counts, FS_RemoveElement
  <2>3. CASE Waiting = {}
    <3>1. Waiting' = {}
      BY <1>3, <2>3 DEF NotifyOne, Waiting
    <3>2. QED BY <2>2, <3>1 DEF EnoughAwake
  <2>4. ASSUME NEW w \in Waiting, wpc' = [wpc EXCEPT ![w] = "relock"]
        PROVE  IsFiniteSet(Notifying)' /\ EnoughAwake'
    <3>1. w \notin Awake /\ Awake' = Awake \union {w}
      BY <2>4 DEF Awake, Waiting
    <3>2. Cardinality(Awake') = Cardinality(Awake) + 1
      BY <3>1, Counts, FS_AddElement
    <3>3. UNCHANGED <<m_stop, m_taskQueue>> /\ Waiting # {}
      BY <1>3, <2>4 DEF NotifyOne
    <3>4. QED BY <2>2, <3>2, <3>3, Counts DEF EnoughAwake
  <2>5. QED BY <1>3, <2>3, <2>4 DEF NotifyOne
<1>4. ASSUME Stopper PROVE IsFiniteSet(Notifying)' /\ EnoughAwake'
  <2>1. Notifying' = Notifying
    BY <1>4 DEF Notifying, Stopper, CallStop, SetStop, NotifyAll, Join, CallStopAgain
  <2>2. CASE NotifyAll
    <3>1. Waiting' = {}
      BY <2>2 DEF NotifyAll, Waiting
    <3>2. QED BY <2>1, <3>1 DEF EnoughAwake
  <2>3. CASE SetStop
    BY <2>1, <2>3 DEF SetStop, EnoughAwake
  <2>4. CASE UNCHANGED <<m_taskQueue, m_stop, wpc>>
    BY <2>1, <2>4 DEF EnoughAwake, Awake, Waiting
  <2>5. QED BY <1>4, <2>2, <2>3, <2>4 DEF Stopper, CallStop, Join, CallStopAgain
<1>5. CASE UNCHANGED vars
  BY <1>5 DEF vars, EnoughAwake, Awake, Waiting, Notifying
<1>6. QED BY <1>1, <1>2, <1>3, <1>4, <1>5 DEF Next

(* Tasks move from queue to worker to done and are nowhere else meanwhile. *)
LEMMA NextTasksConserved == IInv /\ [Next]_vars => TasksConserved'
<1> SUFFICES ASSUME IInv, [Next]_vars PROVE TasksConserved'
  OBVIOUS
<1> USE PoolAssumption DEF IInv, TypeOK
<1>1. CASE UNCHANGED <<m_taskQueue, running, call, done>>
  BY <1>1 DEF TasksConserved, Added, Taken
<1>2. ASSUME NEW w \in Workers, Take(w), ~UNCHANGED <<m_taskQueue, running>>
      PROVE  TasksConserved'
  <2> DEFINE t == Head(m_taskQueue)
  <2>1. /\ m_taskQueue # <<>> /\ wpc[w] = "take"
        /\ running' = [running EXCEPT ![w] = t]
        /\ m_taskQueue' = Tail(m_taskQueue)
        /\ UNCHANGED <<call, done>>
    BY <1>2 DEF Take, Goto
  <2>2. /\ t \in Tasks
        /\ ToSet(m_taskQueue) = ToSet(m_taskQueue') \union {t}
        /\ t \notin ToSet(m_taskQueue')
        /\ \A i, j \in DOMAIN m_taskQueue' : m_taskQueue'[i] = m_taskQueue'[j] => i = j
    BY <2>1, TakenSeq DEF TasksConserved
  <2>3. running[w] = NoTask
    BY <2>1 DEF RunInv
  <2>4. Taken' = Taken \union {t}
    BY <2>1, <2>2, <2>3 DEF Taken
  <2>5. t \notin Taken /\ t \notin done
    BY <2>2 DEF TasksConserved
  <2> HIDE DEF t
  <2>6. Added' = Added
    BY <2>1 DEF Added
  <2>7. \A u, v \in Workers : running'[u] = running'[v] /\ running'[u] # NoTask => u = v
    BY <2>1, <2>2, <2>5 DEF TasksConserved, Taken
  <2>8. QED BY <2>1, <2>2, <2>4, <2>5, <2>6, <2>7 DEF TasksConserved
<1>3. ASSUME NEW w \in Workers, Run(w) PROVE TasksConserved'
  <2>1. /\ wpc[w] = "run"
        /\ done' = done \union {running[w]}
        /\ running' = [running EXCEPT ![w] = NoTask]
        /\ UNCHANGED <<m_taskQueue, call>>
    BY <1>3 DEF Run, Goto
  <2>2. running[w] # NoTask
    BY <2>1 DEF RunInv
  <2>3. Taken' = Taken \ {running[w]}
    BY <2>1, <2>2 DEF Taken, TasksConserved
  <2>4. running[w] \in Taken
    BY <2>2 DEF Taken
  <2>5. Added' = Added
    BY <2>1 DEF Added
  <2>6. QED BY <2>1, <2>3, <2>4, <2>5 DEF TasksConserved
<1>4. ASSUME NEW t \in Tasks, Push(t) PROVE TasksConserved'
  <2>1. /\ call[t] = "new" /\ call' = [call EXCEPT ![t] = "notify"]
        /\ m_taskQueue' = Append(m_taskQueue, t)
        /\ UNCHANGED <<running, done>>
    BY <1>4 DEF Push
  <2>2. t \notin ToSet(m_taskQueue) \union Taken \union done
    BY <2>1 DEF TasksConserved, Added
  <2>3. /\ ToSet(m_taskQueue') = ToSet(m_taskQueue) \union {t}
        /\ \A i, j \in DOMAIN m_taskQueue' : m_taskQueue'[i] = m_taskQueue'[j] => i = j
    BY <2>1, <2>2, PushedSeq, PushedDistinct DEF TasksConserved
  <2>4. Added' = Added \union {t}
    BY <2>1 DEF Added
  <2>5. Taken' = Taken
    BY <2>1 DEF Taken
  <2>6. QED BY <2>1, <2>2, <2>3, <2>4, <2>5 DEF TasksConserved
<1>5. ASSUME NEW t \in Tasks, NotifyOne(t) PROVE TasksConserved'
  <2>1. Added' = Added /\ UNCHANGED <<m_taskQueue, running, done>>
    BY <1>5 DEF NotifyOne, Added
  <2>2. QED BY <2>1 DEF TasksConserved, Taken
<1>6. QED
  BY <1>1, <1>2, <1>3, <1>4, <1>5 DEF Next, Worker, TestStop, Lock, Check, Block, Take,
     WakeSpuriously, Stopper, CallStop, SetStop, NotifyAll, Join, CallStopAgain, vars

(* IInv is inductive. *)
THEOREM NextIInv == IInv /\ [Next]_vars => IInv'
BY NextTypeOK, NextLockInv, NextEnoughAwake, NextTasksConserved DEF IInv

(* The pool's state stays within its types. *)
THEOREM TypeCorrect == Spec => []TypeOK
<1>1. IInv => TypeOK
  BY DEF IInv
<1>2. QED BY InitIInv, NextIInv, <1>1, PTL DEF Spec

(* Each added task is queued, in one worker's hands or executed, once. *)
THEOREM TasksAreConserved == Spec => []TasksConserved
<1>1. IInv => TasksConserved
  BY DEF IInv
<1>2. QED BY InitIInv, NextIInv, <1>1, PTL DEF Spec

(* While a worker sleeps, no queued task is without a worker on its way to *)
(* the queue or a notification still to come.                              *)
THEOREM NoLostNotification == Spec => []EnoughAwake
<1>1. IInv => EnoughAwake
  BY DEF IInv
<1>2. QED BY InitIInv, NextIInv, <1>1, PTL DEF Spec

-----------------------------------------------------------------------------
(* The pool begins with nothing to do. *)
LEMMA InitRefines == Init => Work!QueueInit
BY DEF Init, Work!QueueInit

(* A pushed task is one nobody has had yet. *)
LEMMA PushSubmits == ASSUME IInv, NEW t \in Tasks, Push(t) PROVE Work!Submit(t)
<1>1. /\ call[t] = "new" /\ m_taskQueue' = Append(m_taskQueue, t)
      /\ UNCHANGED <<running, done>>
  BY DEF Push
<1>2. t \notin ToSet(m_taskQueue) \union Taken \union done
  BY <1>1 DEF IInv, TasksConserved, Added
<1>3. t # NoTask
  BY PoolAssumption
<1>4. t \notin {running[w] : w \in Workers}
  BY <1>2, <1>3 DEF Taken
<1>5. QED BY <1>1, <1>2, <1>4 DEF Work!Submit, Work!ToSet, ToSet

(* Every step adds a task, takes the oldest, executes one or is invisible. *)
LEMMA NextRefines == IInv /\ [Next]_vars => [Work!QueueNext]_Work!queueVars
<1> SUFFICES ASSUME IInv, [Next]_vars PROVE [Work!QueueNext]_Work!queueVars
  OBVIOUS
<1>1. ASSUME NEW t \in Tasks, Push(t) PROVE Work!QueueNext
  BY <1>1, PushSubmits DEF Work!QueueNext
<1>2. ASSUME NEW w \in Workers, Take(w) PROVE [Work!QueueNext]_Work!queueVars
  <2>1. CASE UNCHANGED <<m_taskQueue, running>>
    BY <1>2, <2>1 DEF Take, Work!queueVars
  <2>2. CASE /\ m_taskQueue # <<>> /\ wpc[w] = "take"
             /\ running' = [running EXCEPT ![w] = Head(m_taskQueue)]
             /\ m_taskQueue' = Tail(m_taskQueue)
    <3>1. running[w] = NoTask
      BY <2>2 DEF IInv, RunInv
    <3>2. done' = done
      BY <1>2 DEF Take
    <3>3. Work!TakeOldest(w)
      BY <2>2, <3>1, <3>2 DEF Work!TakeOldest
    <3>4. QED BY <3>3 DEF Work!QueueNext
  <2>3. QED BY <1>2, <2>1, <2>2 DEF Take, Goto
<1>3. ASSUME NEW w \in Workers, Run(w) PROVE Work!QueueNext
  <2>1. /\ wpc[w] = "run" /\ done' = done \union {running[w]} /\ m_taskQueue' = m_taskQueue
        /\ running' = [running EXCEPT ![w] = NoTask]
    BY <1>3 DEF Run, Goto
  <2>2. running[w] # NoTask
    BY <2>1 DEF IInv, RunInv
  <2>3. QED BY <2>1, <2>2 DEF Work!Complete, Work!QueueNext
<1>4. ASSUME NEW w \in Workers,
             TestStop(w) \/ Lock(w) \/ Check(w) \/ Block(w) \/ WakeSpuriously(w)
      PROVE  UNCHANGED Work!queueVars
  BY <1>4 DEF TestStop, Lock, Check, Block, WakeSpuriously, Work!queueVars
<1>5. ASSUME NEW t \in Tasks, NotifyOne(t) PROVE UNCHANGED Work!queueVars
  BY <1>5 DEF NotifyOne, Work!queueVars
<1>6. ASSUME Stopper PROVE UNCHANGED Work!queueVars
  BY <1>6 DEF Stopper, CallStop, SetStop, NotifyAll, Join, CallStopAgain, Work!queueVars
<1>7. CASE UNCHANGED vars
  BY <1>7 DEF vars, Work!queueVars
<1>8. QED
  BY <1>1, <1>2, <1>3, <1>4, <1>5, <1>6, <1>7 DEF Next, Worker

(* The pool implements the work queue, stopped at any moment or not.       *)
THEOREM PoolImplementsWorkQueue == Spec => ImplementsWorkQueue
BY InitIInv, NextIInv, InitRefines, NextRefines, PTL
   DEF Spec, ImplementsWorkQueue, Work!QueueSpec
=============================================================================
