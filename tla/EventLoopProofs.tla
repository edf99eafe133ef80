--------------------------- MODULE EventLoopProofs ---------------------------
(***************************************************************************)
(* The event loop loses no wakeup and implements the mailbox, for any      *)
(* number of callers and calls.                                            *)
(***************************************************************************)
EXTENDS EventLoop, TLAPS

(* The loop holds the mutex exactly while it drains the queue, and between *)
(* fn() and pop the task it ran is still at the front.                     *)
DrainInv ==
  /\ lpc \in {"front", "pop"} <=> m_taskQueueMutex = Loop
  /\ lpc = "pop" => m_taskQueue # <<>>

(* The loop comes back to epoll_wait with every event handled. *)
BatchInv == lpc \in {"test", "epoll_wait", "exited"} => batch = {}

(* Tasks are numbered per caller, so a call's task is nowhere before it. *)
FreshInv ==
  \A c \in Callers, n \in 1 .. MaxCalls :
    <<c, n>> \in ToSet(m_taskQueue) \union ToSet(executed) => n <= made[c]

IInv ==
  /\ TypeOK
  /\ NoStrandedTask
  /\ BatchInv
  /\ DrainInv
  /\ FreshInv

-----------------------------------------------------------------------------
(* An element of a sequence is what stands at some index. *)
LEMMA InSeq ==
  ASSUME NEW S, NEW q \in Seq(S)
  PROVE  /\ \A x : x \in ToSet(q) <=> \E i \in 1 .. Len(q) : x = q[i]
         /\ Len(q) \in Nat
         /\ ToSet(q) \subseteq S
<1>1. DOMAIN q = 1 .. Len(q) /\ Len(q) \in Nat /\ \A i \in 1 .. Len(q) : q[i] \in S
  OBVIOUS
<1>2. ToSet(q) = {q[i] : i \in 1 .. Len(q)}
  BY <1>1 DEF ToSet
<1>3. QED BY <1>1, <1>2

(* Appending adds at most the appended element. *)
LEMMA AppendSeq ==
  ASSUME NEW S, NEW q \in Seq(S), NEW t \in S
  PROVE  /\ Append(q, t) \in Seq(S)
         /\ ToSet(Append(q, t)) \subseteq ToSet(q) \union {t}
<1> DEFINE r == Append(q, t)
<1>1. /\ r \in Seq(S)
      /\ Len(r) = Len(q) + 1 /\ Len(q) \in Nat
      /\ \A i \in 1 .. Len(q) : r[i] = q[i]
      /\ r[Len(q) + 1] = t
  OBVIOUS
<1>2. \A x : x \in ToSet(r) <=> \E i \in 1 .. Len(r) : x = r[i]
  BY <1>1, InSeq
<1>3. \A x : x \in ToSet(q) <=> \E i \in 1 .. Len(q) : x = q[i]
  BY InSeq
<1> HIDE DEF r
<1>4. QED BY <1>1, <1>2, <1>3 DEF r

(* The front and the rest of a queue are elements of the queue. *)
LEMMA FrontSeq ==
  ASSUME NEW S, NEW q \in Seq(S), q # <<>>
  PROVE  /\ Head(q) \in S /\ Head(q) \in ToSet(q)
         /\ Tail(q) \in Seq(S)
         /\ ToSet(Tail(q)) \subseteq ToSet(q)
<1> DEFINE r == Tail(q)
<1>1. /\ Head(q) = q[1] /\ Head(q) \in S
      /\ r \in Seq(S)
      /\ Len(r) = Len(q) - 1 /\ Len(q) >= 1 /\ Len(q) \in Nat
      /\ \A i \in 1 .. Len(r) : r[i] = q[i + 1]
  OBVIOUS
<1>2. /\ \A x : x \in ToSet(q) <=> \E i \in 1 .. Len(q) : x = q[i]
      /\ \A x : x \in ToSet(r) <=> \E i \in 1 .. Len(r) : x = r[i]
  BY <1>1, InSeq
<1> HIDE DEF r
<1>3. ASSUME NEW x \in ToSet(r) PROVE x \in ToSet(q)
  <2>1. PICK i \in 1 .. Len(r) : x = r[i]
    BY <1>2
  <2>2. i + 1 \in 1 .. Len(q) /\ x = q[i + 1]
    BY <2>1, <1>1
  <2>3. QED BY <2>2, <1>2
<1>4. QED BY <1>1, <1>2, <1>3 DEF r

-----------------------------------------------------------------------------
(* The loop starts in the invariant. *)
THEOREM InitIInv == Init => IInv
<1> SUFFICES ASSUME Init PROVE IInv
  OBVIOUS
<1> USE LoopAssumption DEF Init
<1>1. TypeOK
  <2>1. <<>> \in Seq(Tasks)
    OBVIOUS
  <2>2. 0 \in 0 .. MaxCalls /\ 0 \in Nat
    OBVIOUS
  <2>3. QED BY <2>1, <2>2, Zenon DEF TypeOK, LoopPCs
<1>2. NoStrandedTask /\ BatchInv /\ DrainInv
  BY DEF NoStrandedTask, BatchInv, DrainInv
<1>3. FreshInv
  BY DEF FreshInv, ToSet
<1>4. QED BY <1>1, <1>2, <1>3 DEF IInv

(* Steps that leave queue, mutex and history alone. *)
QuietStep ==
  \/ TestStop \/ EpollWait \/ EpollTimeout \/ HandleOther \/ EndOfBatch
  \/ HandleWakeup \/ ReadWakeupfd
  \/ (\E c \in Callers : WakeupEventLoop(c))
  \/ SetStop \/ WakeupToStop \/ OtherEvent

(* No step loses a wakeup, takes the queue's lock without its holder       *)
(* releasing it, or reuses a task's number.                                *)
THEOREM NextIInv == IInv /\ [Next]_vars => IInv'
<1> SUFFICES ASSUME IInv, [Next]_vars PROVE IInv'
  OBVIOUS
<1> USE LoopAssumption DEF IInv, TypeOK, LoopPCs
<1>1. ASSUME QuietStep PROVE IInv'
  <2>1. UNCHANGED queueVars /\ made' = made
    BY <1>1 DEF QuietStep, TestStop, EpollWait, EpollTimeout, HandleOther, EndOfBatch,
       HandleWakeup, ReadWakeupfd, WakeupEventLoop, SetStop, WakeupToStop, OtherEvent,
       queueVars, callerVars
  <2>2. TypeOK' /\ NoStrandedTask' /\ BatchInv'
    <3>1. CASE TestStop
      BY <3>1 DEF TestStop, Goto, Ready, queueVars, callerVars, NoStrandedTask, BatchInv, WakeupPending
    <3>2. CASE EpollWait
      <4>1. Ready \subseteq {"wakeup", "other"}
        BY DEF Ready
      <4>2. QED
        BY <3>2, <4>1 DEF EpollWait, Goto, queueVars, callerVars, NoStrandedTask, BatchInv, WakeupPending
    <3>3. CASE EpollTimeout
      BY <3>3 DEF EpollTimeout, Goto, Ready, queueVars, callerVars, NoStrandedTask, BatchInv, WakeupPending
    <3>4. CASE HandleOther
      BY <3>4 DEF HandleOther, Goto, Ready, queueVars, callerVars, NoStrandedTask, BatchInv, WakeupPending
    <3>5. CASE EndOfBatch
      BY <3>5 DEF EndOfBatch, Goto, Ready, queueVars, callerVars, NoStrandedTask, BatchInv, WakeupPending
    <3>6. CASE HandleWakeup
      BY <3>6 DEF HandleWakeup, Goto, Ready, queueVars, callerVars, NoStrandedTask, BatchInv, WakeupPending
    <3>7. CASE ReadWakeupfd
      BY <3>7 DEF ReadWakeupfd, Goto, Ready, queueVars, callerVars, NoStrandedTask, BatchInv, WakeupPending
    <3>8. CASE SetStop
      BY <3>8 DEF SetStop, Goto, Ready, queueVars, callerVars, NoStrandedTask, BatchInv, WakeupPending
    <3>9. CASE WakeupToStop
      BY <3>9 DEF WakeupToStop, Goto, Ready, queueVars, callerVars, NoStrandedTask, BatchInv, WakeupPending
    <3>10. CASE OtherEvent
      BY <3>10 DEF OtherEvent, Goto, Ready, queueVars, callerVars, NoStrandedTask, BatchInv, WakeupPending
    <3>11. ASSUME NEW c \in Callers, WakeupEventLoop(c) PROVE TypeOK' /\ NoStrandedTask' /\ BatchInv'
      BY <3>11 DEF WakeupEventLoop, queueVars, NoStrandedTask, BatchInv, WakeupPending
    <3>12. QED BY <1>1, <3>1, <3>2, <3>3, <3>4, <3>5, <3>6, <3>7, <3>8, <3>9, <3>10, <3>11 DEF QuietStep
  <2>3. DrainInv'
    BY <1>1, <2>1 DEF QuietStep, TestStop, EpollWait, EpollTimeout, HandleOther, EndOfBatch,
       HandleWakeup, ReadWakeupfd, WakeupEventLoop, SetStop, WakeupToStop, OtherEvent,
       queueVars, callerVars, Goto, DrainInv
  <2>4. FreshInv'
    BY <2>1 DEF FreshInv, queueVars
  <2>5. QED BY <2>2, <2>3, <2>4
<1>2. ASSUME LockQueue PROVE IInv'
  <2>1. TypeOK' /\ DrainInv' /\ NoStrandedTask' /\ BatchInv'
    BY <1>2 DEF LockQueue, Goto, DrainInv, NoStrandedTask, BatchInv, WakeupPending, callerVars
  <2>2. FreshInv'
    BY <1>2 DEF LockQueue, FreshInv, callerVars
  <2>3. QED BY <2>1, <2>2
<1>3. ASSUME RunFront PROVE IInv'
  <2>1. /\ lpc = "front" /\ lpc' = "pop" /\ m_taskQueue # <<>>
        /\ executed' = Append(executed, Head(m_taskQueue))
        /\ UNCHANGED <<m_stop, m_wakeupfd, other, batch, spc, m_taskQueue, m_taskQueueMutex, made, cpc>>
    BY <1>3 DEF RunFront, Goto, callerVars
  <2>2. /\ Head(m_taskQueue) \in Tasks /\ Head(m_taskQueue) \in ToSet(m_taskQueue)
        /\ executed' \in Seq(Tasks)
        /\ ToSet(executed') \subseteq ToSet(executed) \union {Head(m_taskQueue)}
    BY <2>1, FrontSeq, AppendSeq
  <2>3. TypeOK'
    BY <2>1, <2>2
  <2>4. DrainInv' /\ NoStrandedTask' /\ BatchInv'
    BY <2>1 DEF DrainInv, NoStrandedTask, BatchInv, WakeupPending
  <2>5. FreshInv'
    BY <2>1, <2>2 DEF FreshInv
  <2>6. QED BY <2>3, <2>4, <2>5
<1>4. ASSUME Pop PROVE IInv'
  <2>1. /\ lpc = "pop" /\ lpc' = "front" /\ m_taskQueue # <<>>
        /\ m_taskQueue' = Tail(m_taskQueue)
        /\ UNCHANGED <<m_stop, m_wakeupfd, other, batch, spc, m_taskQueueMutex, executed, made, cpc>>
    BY <1>4 DEF Pop, Goto, callerVars, DrainInv
  <2>2. m_taskQueue' \in Seq(Tasks) /\ ToSet(m_taskQueue') \subseteq ToSet(m_taskQueue)
    BY <2>1, FrontSeq
  <2>3. TypeOK'
    BY <2>1, <2>2
  <2>4. DrainInv' /\ NoStrandedTask' /\ BatchInv'
    BY <2>1 DEF DrainInv, NoStrandedTask, BatchInv, WakeupPending
  <2>5. FreshInv'
    BY <2>1, <2>2 DEF FreshInv
  <2>6. QED BY <2>3, <2>4, <2>5
<1>5. ASSUME UnlockQueue PROVE IInv'
  <2>1. TypeOK' /\ DrainInv' /\ NoStrandedTask' /\ BatchInv'
    BY <1>5 DEF UnlockQueue, Goto, DrainInv, NoStrandedTask, BatchInv, callerVars
  <2>2. FreshInv'
    BY <1>5 DEF UnlockQueue, FreshInv, callerVars
  <2>3. QED BY <2>1, <2>2
<1>6. ASSUME NEW c \in Callers, PushTask(c) PROVE IInv'
  <2> DEFINE t == <<c, made[c] + 1>>
  <2>1. /\ made[c] < MaxCalls /\ m_taskQueueMutex = Nobody
        /\ made' = [made EXCEPT ![c] = @ + 1]
        /\ m_taskQueue' = Append(m_taskQueue, t)
        /\ cpc' = [cpc EXCEPT ![c] = "wakeup"]
        /\ UNCHANGED <<m_stop, m_wakeupfd, other, lpc, batch, spc, m_taskQueueMutex, executed>>
    BY <1>6 DEF PushTask
  <2>2. t \in Tasks
    BY <2>1 DEF Tasks
  <2> HIDE DEF t
  <2>3. m_taskQueue' \in Seq(Tasks) /\ ToSet(m_taskQueue') \subseteq ToSet(m_taskQueue) \union {t}
    BY <2>1, <2>2, AppendSeq
  <2>4. made' \in [Callers -> 0 .. MaxCalls]
    BY <2>1
  <2>5. TypeOK'
    BY <2>1, <2>3, <2>4
  <2>6. DrainInv' /\ NoStrandedTask' /\ BatchInv'
    BY <2>1 DEF DrainInv, NoStrandedTask, BatchInv, WakeupPending
  <2>7. ASSUME NEW d \in Callers, NEW n \in 1 .. MaxCalls,
               <<d, n>> \in ToSet(m_taskQueue') \union ToSet(executed')
        PROVE  n <= made'[d]
    <3>1. made[d] <= made'[d]
      BY <2>1
    <3>2. CASE <<d, n>> = t
      BY <2>1, <3>2 DEF t
    <3>3. CASE <<d, n>> # t
      <4>1. n <= made[d]
        BY <2>1, <2>3, <2>7, <3>3 DEF FreshInv
      <4>2. made[d] \in Nat /\ made'[d] \in Nat /\ n \in Nat
        BY <2>4
      <4>3. QED BY <3>1, <4>1, <4>2
    <3>4. QED BY <3>2, <3>3
  <2>8. QED BY <2>5, <2>6, <2>7 DEF FreshInv
<1>7. CASE UNCHANGED vars
  BY <1>7 DEF vars, queueVars, callerVars, NoStrandedTask, BatchInv, WakeupPending, DrainInv, FreshInv
<1>8. QED
  BY <1>1, <1>2, <1>3, <1>4, <1>5, <1>6, <1>7 DEF Next, LoopThread, QuietStep

(* The loop's state stays within its types. *)
THEOREM TypeCorrect == Spec => []TypeOK
<1>1. IInv => TypeOK
  BY DEF IInv
<1>2. QED BY InitIInv, NextIInv, <1>1, PTL DEF Spec

(* A queued task always has a wakeup on its way to the loop. *)
THEOREM NoLostWakeup == Spec => []NoStrandedTask
<1>1. IInv => NoStrandedTask
  BY DEF IInv
<1>2. QED BY InitIInv, NextIInv, <1>1, PTL DEF Spec

-----------------------------------------------------------------------------
(* The loop begins as an empty mailbox. *)
LEMMA InitRefines == Init => Box!BoxInit
BY DEF Init, Box!BoxInit, Unrun

(* Every step of the loop posts, runs the oldest task, or is invisible. *)
LEMMA NextRefines == IInv /\ [Next]_vars => [Box!BoxNext]_Box!boxVars
<1> SUFFICES ASSUME IInv, [Next]_vars PROVE [Box!BoxNext]_Box!boxVars
  OBVIOUS
<1> USE DEF IInv, TypeOK
<1>1. ASSUME NEW c \in Callers, PushTask(c) PROVE Box!BoxNext
  <2> DEFINE t == <<c, made[c] + 1>>
  <2>1. /\ made[c] < MaxCalls /\ m_taskQueueMutex = Nobody
        /\ m_taskQueue' = Append(m_taskQueue, t)
        /\ lpc' = lpc /\ executed' = executed
    BY <1>1 DEF PushTask
  <2>2. lpc # "pop"
    BY <2>1, LoopAssumption DEF DrainInv
  <2>3. made[c] + 1 \in 1 .. MaxCalls /\ ~(made[c] + 1 <= made[c])
    BY <2>1, LoopAssumption
  <2>4. t \in Tasks /\ t \notin ToSet(m_taskQueue) \union ToSet(executed)
    BY <2>3 DEF Tasks, FreshInv
  <2>5. Unrun = m_taskQueue /\ Unrun' = Append(Unrun, t)
    BY <2>1, <2>2 DEF Unrun
  <2> HIDE DEF t
  <2>6. Box!Post(t)
    BY <2>1, <2>2, <2>4, <2>5 DEF Box!Post, Box!ToSet, ToSet, Unrun
  <2>7. QED BY <2>4, <2>6 DEF Box!BoxNext
<1>2. ASSUME RunFront PROVE Box!BoxNext
  BY <1>2 DEF RunFront, Goto, Box!BoxNext, Box!RunOldest, Unrun
<1>3. ASSUME Pop PROVE UNCHANGED Box!boxVars
  BY <1>3 DEF Pop, Goto, Unrun, Box!boxVars
<1>4. ASSUME QuietStep \/ LockQueue \/ UnlockQueue PROVE UNCHANGED Box!boxVars
  BY <1>4 DEF QuietStep, TestStop, EpollWait, EpollTimeout, HandleOther, EndOfBatch,
     HandleWakeup, ReadWakeupfd, WakeupEventLoop, SetStop, WakeupToStop, OtherEvent,
     LockQueue, UnlockQueue, queueVars, Goto, Unrun, Box!boxVars
<1>5. CASE UNCHANGED vars
  BY <1>5 DEF vars, queueVars, Unrun, Box!boxVars
<1>6. QED
  BY <1>1, <1>2, <1>3, <1>4, <1>5 DEF Next, LoopThread, QuietStep

(* The loop implements the mailbox: tasks run once each, in push order. *)
THEOREM LoopImplementsMailbox == Spec => ImplementsMailbox
BY InitIInv, NextIInv, InitRefines, NextRefines, PTL
   DEF Spec, ImplementsMailbox, Box!BoxSpec
=============================================================================
