---------------------------- MODULE ShutdownProofs ----------------------------
(***************************************************************************)
(* How far signals may disturb one another, for any number of I/O threads, *)
(* tables, kinds of signals, signals and critical sections.                *)
(***************************************************************************)
EXTENDS Shutdown, SequenceTheorems, TLAPS

AllExited == \A t \in IOThreads : pc[t] = "exited"

(* The threads that are joined have exited, and are in nobody's Stop; who  *)
(* is past setting the pool's flag finds it set.                           *)
PoolInv ==
  /\ \A t \in joined : pc[t] = "exited"
  /\ \A t \in IOThreads : pc[t] = "exited" => ~Interrupted(t)
  /\ \A t \in Threads : At(t, "notify") \/ At(t, "join") \/ At(t, "delete_tables")
                          \/ At(t, "delete_pool") \/ At(t, "exit") => poolStop
  /\ \A t \in Threads : At(t, "exit") => joined = IOThreads

(* The maps are gone before the threads are, and an orderly exit is out of *)
(* reach: an I/O thread is in Stop and will never be joined, or the main   *)
(* thread has passed the joining by.                                       *)
Hopeless ==
  /\ tables = "destroyed"
  /\ \/ \E t \in IOThreads : Interrupted(t)
     \/ /\ poolStop
        /\ joined # IOThreads
        /\ \E where \in {"enter", "stop_loops", "test_stop", "delete_tables", "delete_pool"} :
             At(Main, where)

EarlyInv ==
  /\ lost \/ (tables = "destroyed" /\ ~AllExited) => Hopeless
  /\ CleanExit

(* With no signal yet Stop has done nothing ... *)
NoSignalInv ==
  sent = 0 =>
    /\ \A t \in Threads : ~Interrupted(t)
    /\ navServer # "deleted" /\ tables = "live" /\ ~poolStop /\ joined = {}
    /\ fault = "none"

(* ... and with one the main thread is alone in Stop and leaves behind     *)
(* what the place it is at tells.                                          *)
OneSignalInv ==
  sent = 1 =>
    /\ Interrupted(Main) /\ \A t \in IOThreads : ~Interrupted(t)
    /\ navServer = "deleted" => At(Main, "exit")
    /\ tables = "destroyed" => At(Main, "delete_pool") \/ At(Main, "exit")
    /\ poolStop => ~(At(Main, "enter") \/ At(Main, "stop_loops") \/ At(Main, "test_stop")
                       \/ At(Main, "set_stop"))
    /\ At(Main, "notify") => joined = {}
    /\ At(Main, "join") => joined = 0 .. Top(Main).i - 1
    /\ At(Main, "delete_tables") \/ At(Main, "delete_pool") => joined = IOThreads
    /\ ~poolStop => joined = {}
    /\ fault \in {"none", "null_server", "torn_table"}

IInv == TypeOK /\ PoolInv /\ EarlyInv /\ NoSignalInv /\ OneSignalInv
-----------------------------------------------------------------------------
(* The stack of activations.                                               *)

(* A thread is at one place of Stop. *)
LEMMA AtOnePlace ==
  \A t, a, b : At(t, a) => Interrupted(t) /\ (At(t, b) => a = b)
BY DEF At, Interrupted

LEMMA PushFacts ==
  ASSUME NEW S, NEW x \in S, NEW q \in Seq(S)
  PROVE  /\ <<x>> \o q \in Seq(S)
         /\ <<x>> \o q # <<>>
         /\ Head(<<x>> \o q) = x
<1>1. /\ <<x>> \in Seq(S) /\ Len(<<x>>) = 1 /\ <<x>>[1] = x
      /\ Len(q) \in Nat
  OBVIOUS
<1>2. /\ <<x>> \o q \in Seq(S)
      /\ Len(<<x>> \o q) = 1 + Len(q)
      /\ (<<x>> \o q)[1] = x
  BY <1>1, ConcatProperties
<1>3. <<x>> \o q # <<>>
  BY <1>1, <1>2, EmptySeq
<1>4. QED BY <1>2, <1>3, HeadTailProperties

(* The innermost activation of a thread goes on. *)
LEMMA ContinueFacts ==
  ASSUME TypeOK, NEW t \in Threads, Interrupted(t),
         NEW where \in StopPCs, NEW i \in 0 .. ThreadNum, Continue(t, where, i)
  PROVE  /\ act' \in [Threads -> Seq(Frames)]
         /\ Interrupted(t)' /\ At(t, where)' /\ Top(t).i' = i
         /\ \A w : At(t, w)' => w = where
         /\ \A u \in Threads : u # t =>
              /\ act'[u] = act[u]
              /\ Interrupted(u)' <=> Interrupted(u)
              /\ \A w : At(u, w)' <=> At(u, w)
<1> DEFINE x == [sig |-> Top(t).sig, at |-> where, i |-> i]
<1>1. act \in [Threads -> Seq(Frames)] /\ act[t] \in Seq(Frames) /\ act[t] # <<>>
  BY DEF TypeOK, Interrupted
<1>2. Top(t) \in Frames /\ Tail(act[t]) \in Seq(Frames)
  BY <1>1, HeadTailProperties DEF Top
<1>3. x \in Frames
  BY <1>2 DEF Frames
<1>4. x.at = where /\ x.i = i
  OBVIOUS
<1>5. act' = [act EXCEPT ![t] = <<x>> \o Tail(act[t])]
  BY DEF Continue
<1> HIDE DEF x
<1>6. /\ <<x>> \o Tail(act[t]) \in Seq(Frames)
      /\ <<x>> \o Tail(act[t]) # <<>>
      /\ Head(<<x>> \o Tail(act[t])) = x
  BY <1>2, <1>3, PushFacts
<1>7. act'[t] = <<x>> \o Tail(act[t]) /\ \A u \in Threads : u # t => act'[u] = act[u]
  BY <1>1, <1>5
<1>8. act' \in [Threads -> Seq(Frames)]
  BY <1>1, <1>5, <1>6
<1>9. QED BY <1>4, <1>6, <1>7, <1>8 DEF At, Interrupted, Top

(* A signal is delivered. *)
LEMMA DeliverFacts ==
  ASSUME TypeOK, NEW t \in Threads, NEW sig \in Signals, Deliver(t, sig)
  PROVE  /\ act' \in [Threads -> Seq(Frames)]
         /\ At(t, "enter")'
         /\ \A w : At(t, w)' => w = "enter"
         /\ \A u \in Threads : u # t =>
              /\ Interrupted(u)' <=> Interrupted(u)
              /\ \A w : At(u, w)' <=> At(u, w)
<1> DEFINE x == [sig |-> sig, at |-> "enter", i |-> 0]
<1>1. x \in Frames /\ x.at = "enter"
  BY ShutdownAssumption DEF Frames, StopPCs
<1>2. act' = [act EXCEPT ![t] = <<x>> \o act[t]]
  BY DEF Deliver
<1> HIDE DEF x
<1>3. act \in [Threads -> Seq(Frames)] /\ act[t] \in Seq(Frames)
  BY DEF TypeOK
<1>4. /\ <<x>> \o act[t] \in Seq(Frames)
      /\ <<x>> \o act[t] # <<>>
      /\ Head(<<x>> \o act[t]) = x
  BY <1>1, <1>3, PushFacts
<1>5. act'[t] = <<x>> \o act[t] /\ \A u \in Threads : u # t => act'[u] = act[u]
  BY <1>2, <1>3
<1>6. act' \in [Threads -> Seq(Frames)]
  BY <1>2, <1>3, <1>4
<1>7. QED BY <1>1, <1>4, <1>5, <1>6 DEF At, Interrupted, Top

-----------------------------------------------------------------------------
(* Types.                                                                  *)
LEMMA InitType ==
  ASSUME Init
  PROVE  TypeOK
<1>1. <<>> \in Seq(IOThreads) /\ <<>> \in Seq(Frames)
  BY EmptySeq
<1>2. sent \in 0 .. MaxSignals
  BY ShutdownAssumption DEF Init
<1>3. /\ pc \in [IOThreads -> ThreadPCs] /\ fault \in Faults
      /\ todo \in [IOThreads -> SUBSET Locks] /\ act \in [Threads -> Seq(Frames)]
  BY <1>1 DEF Init, ThreadPCs, Faults
<1>4. QED BY <1>1, <1>2, <1>3 DEF Init, TypeOK

(* The main thread's own steps. *)
LEMMA MainKeepsType ==
  ASSUME TypeOK, Construct \/ \E k \in Locks : MainTakes(k) \/ MainReleases(k)
  PROVE  TypeOK'
<1>1. CASE Construct
  <2>1. ThreadNum \in Nat /\ \A i \in 1 .. ThreadNum : i - 1 \in IOThreads
    BY ShutdownAssumption DEF IOThreads
  <2>2. m_taskQueue' \in Seq(IOThreads)
    BY <1>1, <2>1 DEF Construct
  <2>3. pc' \in [IOThreads -> ThreadPCs]
    BY <1>1 DEF Construct, WokenAll, TypeOK, ThreadPCs
  <2>4. QED BY <1>1, <2>2, <2>3 DEF Construct, TypeOK
<1>2. ASSUME NEW k \in Locks, MainTakes(k) \/ MainReleases(k) PROVE TypeOK'
  <2>1. owner' \in [Locks -> Threads \union {NoOne}]
    BY <1>2 DEF MainTakes, MainReleases, TypeOK, Threads
  <2>2. QED BY <1>2, <2>1 DEF MainTakes, MainReleases, TypeOK, serverVars
<1>3. QED BY <1>1, <1>2

(* An I/O thread's. *)
LEMMA IOKeepsType ==
  ASSUME TypeOK, NEW t \in IOThreads, IOThread(t) \/ WakeSpuriously(t) \/ PollEvents(t)
  PROVE  TypeOK'
<1> USE DEF ThreadPCs, Goto, serverVars
<1>1. CASE TestPool(t)
  BY <1>1 DEF TestPool, TypeOK
<1>2. CASE TakeLoop(t)
  <2>1. Head(m_taskQueue) \in IOThreads /\ Tail(m_taskQueue) \in Seq(IOThreads)
    BY <1>2, HeadTailProperties DEF TakeLoop, TypeOK
  <2>2. QED BY <1>2, <2>1 DEF TakeLoop, BackToLoop, TypeOK
<1>3. CASE FindNoLoop(t)
  BY <1>3 DEF FindNoLoop, TypeOK
<1>4. CASE Block(t) \/ WakeSpuriously(t)
  BY <1>4 DEF Block, WakeSpuriously, TypeOK
<1>5. CASE PollStopped(t)
  BY <1>5 DEF PollStopped, BackToLoop, TypeOK
<1>6. ASSUME NEW k \in Locks, Acquire(t, k) \/ Release(t, k) PROVE TypeOK'
  <2>1. owner' \in [Locks -> Threads \union {NoOne}]
    BY <1>6 DEF Acquire, Release, TypeOK, Threads
  <2>2. todo' \in [IOThreads -> SUBSET Locks]
    BY <1>6, SMTT(30) DEF Acquire, Release, TypeOK
  <2>3. QED BY <1>6, <2>1, <2>2 DEF Acquire, Release, TypeOK
<1>7. CASE PollEvents(t)
  <2>1. todo' \in [IOThreads -> SUBSET Locks]
    BY <1>7 DEF PollEvents, TypeOK
  <2>2. QED BY <1>7, <2>1 DEF PollEvents, TypeOK
<1>8. CASE FinishBatch(t)
  <2>1. lost' \in BOOLEAN
    BY <1>8, Zenon DEF FinishBatch, TypeOK
  <2>2. pc' \in [IOThreads -> ThreadPCs] /\ loop' \in [IOThreads -> IOThreads \union {NoOne}]
    BY <1>8 DEF FinishBatch, BackToLoop, TypeOK
  <2>3. QED BY <1>8, <2>1, <2>2 DEF FinishBatch, TypeOK
<1>9. CASE TouchDestroyed(t)
  BY <1>9 DEF TouchDestroyed, Die, threadVars, Faults, TypeOK
<1>10. QED
  BY <1>1, <1>2, <1>3, <1>4, <1>5, <1>6, <1>7, <1>8, <1>9 DEF IOThread

LEMMA DeliverKeepsType ==
  ASSUME TypeOK, NEW t \in Threads, NEW sig \in Signals, Deliver(t, sig)
  PROVE  TypeOK'
<1>1. act' \in [Threads -> Seq(Frames)]
  BY DeliverFacts
<1>2. sent' \in 0 .. MaxSignals
  BY ShutdownAssumption DEF Deliver, TypeOK
<1>3. QED BY <1>1, <1>2 DEF Deliver, TypeOK, serverVars, threadVars

(* An activation counts up to the number of threads. *)
LEMMA TopInRange ==
  ASSUME TypeOK, NEW t \in Threads, Interrupted(t)
  PROVE  Top(t).i \in 0 .. ThreadNum
<1>1. act[t] \in Seq(Frames) /\ act[t] # <<>>
  BY DEF TypeOK, Interrupted
<1>2. Top(t) \in Frames
  BY <1>1, HeadTailProperties DEF Top
<1>3. QED BY <1>2 DEF Frames

(* A step of Stop goes on to the next place, or is the last. *)
LEMMA StopContinues ==
  ASSUME TypeOK, NEW t \in Threads, Stop(t)
  PROVE  /\ Interrupted(t) /\ sent' = sent /\ lost' = lost
         /\ \/ UNCHANGED act
            \/ \E where \in StopPCs, i \in 0 .. ThreadNum : Continue(t, where, i)
<1>1. Interrupted(t) /\ sent' = sent /\ lost' = lost
  BY DEF Stop, Enter, StopLoops, TestStop, SetStop, NotifyAll, Join, DeleteTables, DeletePool,
         Exit, At, Interrupted, Die, threadVars
<1>2. ThreadNum \in Nat /\ Top(t).i \in 0 .. ThreadNum
  BY <1>1, TopInRange, ShutdownAssumption
<1>3. Top(t).i < ThreadNum => Top(t).i + 1 \in 0 .. ThreadNum
  BY <1>2
<1>4. 0 \in 0 .. ThreadNum
  BY <1>2
<1> DEFINE Goes(where, i) == where \in StopPCs /\ i \in 0 .. ThreadNum /\ Continue(t, where, i)
<1>5. SUFFICES UNCHANGED act \/ \E where, i : Goes(where, i)
  BY <1>1
<1>6. CASE Enter(t)
  <2>1. UNCHANGED act \/ Goes("stop_loops", 0)
    BY <1>4, <1>6 DEF Enter, Die, StopPCs
  <2>2. QED BY <2>1
<1>7. CASE StopLoops(t)
  <2>1. Goes("stop_loops", Top(t).i + 1) \/ Goes("test_stop", 0)
    BY <1>3, <1>4, <1>7 DEF StopLoops, StopPCs
  <2>2. QED BY <2>1
<1>8. CASE TestStop(t)
  <2>1. Goes("delete_tables", 0) \/ Goes("set_stop", 0)
    BY <1>4, <1>8 DEF TestStop, StopPCs
  <2>2. QED BY <2>1
<1>9. CASE SetStop(t)
  <2>1. Goes("notify", 0)
    BY <1>4, <1>9 DEF SetStop, StopPCs
  <2>2. QED BY <2>1
<1>10. CASE NotifyAll(t)
  <2>1. Goes("join", 0)
    BY <1>4, <1>10 DEF NotifyAll, StopPCs
  <2>2. QED BY <2>1
<1>11. CASE Join(t)
  <2>1. UNCHANGED act \/ Goes("join", Top(t).i + 1) \/ Goes("delete_tables", 0)
    BY <1>3, <1>4, <1>11 DEF Join, Die, StopPCs
  <2>2. QED BY <2>1
<1>12. CASE DeleteTables(t) \/ DeletePool(t)
  <2>1. UNCHANGED act \/ Goes("delete_pool", 0) \/ Goes("exit", 0)
    BY <1>4, <1>12 DEF DeleteTables, DeletePool, Die, StopPCs
  <2>2. QED BY <2>1
<1>13. CASE Exit(t)
  BY <1>13 DEF Exit
<1>14. QED BY <1>6, <1>7, <1>8, <1>9, <1>10, <1>11, <1>12, <1>13 DEF Stop

LEMMA StopKeepsType ==
  ASSUME TypeOK, NEW t \in Threads, Stop(t)
  PROVE  TypeOK'
<1>1. act' \in [Threads -> Seq(Frames)]
  <2>1. CASE UNCHANGED act
    BY <2>1 DEF TypeOK
  <2>2. ASSUME NEW where \in StopPCs, NEW i \in 0 .. ThreadNum, Continue(t, where, i)
        PROVE  act' \in [Threads -> Seq(Frames)]
    BY <2>2, StopContinues, ContinueFacts
  <2>3. QED BY <2>1, <2>2, StopContinues
<1> USE DEF serverVars, threadVars, Die, Faults
<1>2. CASE Enter(t) \/ TestStop(t) \/ SetStop(t) \/ Exit(t)
  BY <1>1, <1>2 DEF Enter, TestStop, SetStop, Exit, TypeOK
<1>3. CASE StopLoops(t)
  <2>1. loopStop' \in [IOThreads -> BOOLEAN]
    BY <1>3 DEF StopLoops, TypeOK
  <2>2. QED BY <1>1, <1>3, <2>1 DEF StopLoops, TypeOK
<1>4. CASE NotifyAll(t)
  <2>1. pc' \in [IOThreads -> ThreadPCs]
    BY <1>4 DEF NotifyAll, WokenAll, TypeOK, ThreadPCs
  <2>2. QED BY <1>1, <1>4, <2>1 DEF NotifyAll, TypeOK
<1>5. CASE Join(t)
  <2>1. joined' \subseteq IOThreads
    <3>1. Top(t).i \in 0 .. ThreadNum
      BY <1>5, TopInRange DEF Join, At, Interrupted
    <3>2. Top(t).i < ThreadNum => Top(t).i \in IOThreads
      BY <3>1, ShutdownAssumption DEF IOThreads
    <3>3. QED BY <1>5, <3>2 DEF Join, TypeOK
  <2>2. QED BY <1>1, <1>5, <2>1 DEF Join, TypeOK
<1>6. CASE DeleteTables(t) \/ DeletePool(t)
  BY <1>1, <1>6 DEF DeleteTables, DeletePool, TypeOK
<1>7. QED BY <1>2, <1>3, <1>4, <1>5, <1>6 DEF Stop

-----------------------------------------------------------------------------
(* What signals do to one another.                                         *)
Parts == PoolInv /\ EarlyInv /\ NoSignalInv /\ OneSignalInv

LEMMA InitParts ==
  ASSUME Init
  PROVE  Parts
<1>1. \A t \in Threads : act[t] = <<>> /\ ~Interrupted(t) /\ \A w : ~At(t, w)
  BY DEF Init, Interrupted, At
<1>2. IOThreads \subseteq Threads /\ Main \in Threads
  BY DEF Threads
<1>3. PoolInv
  BY <1>1 DEF Init, PoolInv
<1>4. EarlyInv
  BY DEF Init, EarlyInv, CleanExit
<1>5. NoSignalInv /\ OneSignalInv
  BY <1>1 DEF Init, NoSignalInv, OneSignalInv
<1>6. QED BY <1>3, <1>4, <1>5 DEF Parts

(* Steps outside Stop. *)
LEMMA QuietKeeps ==
  ASSUME TypeOK, Parts, ended = NoOne,
         UNCHANGED <<tables, poolStop, joined, act, sent, ended, fault>>,
         navServer' = "deleted" => navServer = "deleted",
         lost' => lost \/ (tables = "destroyed" /\ ~AllExited),
         \A t \in IOThreads : /\ pc[t] = "exited" => pc'[t] = "exited"
                              /\ pc'[t] = "exited" => pc[t] = "exited" \/ ~Interrupted(t)
  PROVE  Parts'
<1>1. /\ \A t : Interrupted(t)' <=> Interrupted(t)
      /\ \A t, w : At(t, w)' <=> At(t, w)
      /\ \A t : Top(t)' = Top(t)
  BY DEF Interrupted, At, Top
<1>2. TypeOK => joined \subseteq IOThreads
  BY DEF TypeOK
<1>3. Hopeless => Hopeless'
  BY <1>1 DEF Hopeless
<1>4. AllExited => AllExited'
  BY DEF AllExited
<1>5. EarlyInv'
  BY <1>3, <1>4 DEF Parts, EarlyInv, CleanExit
<1>6. NoSignalInv' /\ OneSignalInv'
  BY <1>1 DEF Parts, NoSignalInv, OneSignalInv, Top
<1>7. QED BY <1>1, <1>2, <1>5, <1>6 DEF Parts, PoolInv

(* The end of the process. *)
LEMMA DieKeeps ==
  ASSUME Parts, ended = NoOne, NEW how, Die(how), sent # 0,
         sent = 1 => how \in {"null_server", "torn_table"}
  PROVE  Parts'
<1>1. /\ UNCHANGED <<navServer, tables, poolStop, joined, pc, lost, act, sent, ended>>
      /\ fault' = how
  BY DEF Die, serverVars, threadVars
<1>2. /\ \A t : Interrupted(t)' <=> Interrupted(t)
      /\ \A t, w : At(t, w)' <=> At(t, w)
  BY <1>1 DEF Interrupted, At, Top
<1>3. PoolInv'
  BY <1>1, <1>2 DEF Parts, PoolInv
<1>4. EarlyInv'
  BY <1>1, <1>2 DEF Parts, EarlyInv, CleanExit, Hopeless, AllExited
<1>5. NoSignalInv' /\ OneSignalInv'
  BY <1>1, <1>2 DEF Parts, NoSignalInv, OneSignalInv, Top
<1>6. QED BY <1>3, <1>4, <1>5 DEF Parts

(* A step of Stop that goes on. *)
LEMMA GoOnKeeps ==
  ASSUME TypeOK, Parts, ended = NoOne, NEW t \in Threads, Interrupted(t),
         NEW to \in StopPCs, NEW i \in 0 .. ThreadNum, Continue(t, to, i),
         UNCHANGED <<lost, sent, ended, fault>>,
         \A u \in IOThreads : pc'[u] = "exited" <=> pc[u] = "exited",
         \A u \in joined' : pc[u] = "exited" /\ u \in IOThreads,
         joined = IOThreads => joined' = IOThreads,
         poolStop => poolStop',
         to \in {"notify", "join", "delete_tables", "delete_pool", "exit"} => poolStop',
         to = "exit" => joined' = IOThreads,
         lost \/ (tables' = "destroyed" /\ ~AllExited) => Hopeless',
         OneSignalInv'
  PROVE  Parts'
<1>1. /\ Interrupted(t)'
      /\ \A w : At(t, w)' => w = to
      /\ \A u \in Threads : u # t =>
           /\ Interrupted(u)' <=> Interrupted(u)
           /\ \A w : At(u, w)' <=> At(u, w)
  BY ContinueFacts
<1>2. IOThreads \subseteq Threads
  BY DEF Threads
<1>3. sent # 0
  BY DEF Parts, NoSignalInv
<1>4. PoolInv'
  <2>1. \A u \in joined' : pc'[u] = "exited"
    OBVIOUS
  <2>2. \A u \in IOThreads : pc'[u] = "exited" => ~Interrupted(u)'
    BY <1>1, <1>2 DEF Parts, PoolInv
  <2>3. ASSUME NEW u \in Threads,
               At(u, "notify")' \/ At(u, "join")' \/ At(u, "delete_tables")'
                 \/ At(u, "delete_pool")' \/ At(u, "exit")'
        PROVE  poolStop'
    BY <1>1, <2>3 DEF Parts, PoolInv
  <2>4. ASSUME NEW u \in Threads, At(u, "exit")' PROVE joined' = IOThreads
    BY <1>1, <2>4 DEF Parts, PoolInv
  <2>5. QED BY <2>1, <2>2, <2>3, <2>4 DEF PoolInv
<1>5. EarlyInv'
  BY DEF EarlyInv, CleanExit, AllExited
<1>6. NoSignalInv'
  BY <1>3 DEF NoSignalInv
<1>7. QED BY <1>4, <1>5, <1>6 DEF Parts

-----------------------------------------------------------------------------
(* The main thread alone is in Stop when there was one signal. *)
LEMMA WhoStops ==
  ASSUME Parts, NEW t \in Threads, Interrupted(t)
  PROVE  sent # 0 /\ (sent = 1 => t = Main)
BY DEF Parts, NoSignalInv, OneSignalInv, Threads

LEMMA EnterKeeps ==
  ASSUME TypeOK, Parts, ended = NoOne, NEW t \in Threads, Enter(t)
  PROVE  Parts'
<1>1. /\ At(t, "enter") /\ Interrupted(t) /\ sent # 0 /\ (sent = 1 => t = Main)
      /\ \A w : At(t, w) => w = "enter"
  BY WhoStops, AtOnePlace DEF Enter
<1>2. CASE Die("null_server") \/ (navServer = "deleted" /\ Die("use_after_free"))
  <2>1. sent = 1 => navServer # "deleted"
    BY <1>1 DEF Parts, OneSignalInv
  <2>2. QED BY <1>1, <1>2, <2>1, DieKeeps
<1>3. CASE /\ navServer = "set" /\ Continue(t, "stop_loops", 0)
           /\ UNCHANGED <<serverVars, threadVars, sent, ended, fault>>
  <2>1. /\ navServer = "set" /\ Continue(t, "stop_loops", 0)
        /\ UNCHANGED <<navServer, tables, poolStop, joined, pc, lost, sent, ended, fault>>
    BY <1>3 DEF serverVars, threadVars
  <2>2. "stop_loops" \in StopPCs /\ 0 \in 0 .. ThreadNum
    BY ShutdownAssumption DEF StopPCs
  <2>3. /\ Interrupted(t)' /\ At(t, "stop_loops")'
        /\ \A w : At(t, w)' => w = "stop_loops"
        /\ \A u \in Threads : u # t =>
             /\ Interrupted(u)' <=> Interrupted(u)
             /\ \A w : At(u, w)' <=> At(u, w)
    BY <1>1, <2>1, <2>2, ContinueFacts
  <2>4. lost \/ (tables' = "destroyed" /\ ~AllExited) => Hopeless'
    BY <1>1, <2>1, <2>3 DEF Parts, EarlyInv, Hopeless, Threads
  <2>5. OneSignalInv'
    BY <1>1, <2>1, <2>3 DEF Parts, OneSignalInv, Threads
  <2>6. \A u \in joined' : pc[u] = "exited" /\ u \in IOThreads
    BY <2>1 DEF Parts, PoolInv, TypeOK
  <2>7. QED BY <1>1, <2>1, <2>2, <2>4, <2>5, <2>6, GoOnKeeps
<1>4. QED BY <1>2, <1>3 DEF Enter

LEMMA StopLoopsKeeps ==
  ASSUME TypeOK, Parts, ended = NoOne, NEW t \in Threads, StopLoops(t)
  PROVE  Parts'
<1>1. /\ At(t, "stop_loops") /\ Interrupted(t) /\ sent # 0 /\ (sent = 1 => t = Main)
      /\ \A w : At(t, w) => w = "stop_loops"
  BY WhoStops, AtOnePlace DEF StopLoops
<1>2. UNCHANGED <<navServer, tables, poolStop, joined, pc, lost, sent, ended, fault>>
  BY DEF StopLoops, threadVars
<1>3. ASSUME NEW to \in {"stop_loops", "test_stop"}, NEW i \in 0 .. ThreadNum, Continue(t, to, i)
      PROVE  Parts'
  <2>1. to \in StopPCs
    BY DEF StopPCs
  <2>2. /\ Interrupted(t)' /\ At(t, to)'
        /\ \A w : At(t, w)' => w = to
        /\ \A u \in Threads : u # t =>
             /\ Interrupted(u)' <=> Interrupted(u)
             /\ \A w : At(u, w)' <=> At(u, w)
    BY <1>1, <1>3, <2>1, ContinueFacts
  <2>3. lost \/ (tables' = "destroyed" /\ ~AllExited) => Hopeless'
    BY <1>1, <1>2, <2>2 DEF Parts, EarlyInv, Hopeless, Threads
  <2>4. OneSignalInv'
    BY <1>1, <1>2, <2>2 DEF Parts, OneSignalInv, Threads
  <2>5. \A u \in joined' : pc[u] = "exited" /\ u \in IOThreads
    BY <1>2 DEF Parts, PoolInv, TypeOK
  <2>6. QED BY <1>1, <1>2, <1>3, <2>1, <2>3, <2>4, <2>5, GoOnKeeps
<1>4. Top(t).i \in 0 .. ThreadNum /\ ThreadNum \in Nat
  BY <1>1, TopInRange, ShutdownAssumption
<1>5. CASE Top(t).i < ThreadNum
  <2>1. Top(t).i + 1 \in 0 .. ThreadNum /\ Continue(t, "stop_loops", Top(t).i + 1)
    BY <1>4, <1>5 DEF StopLoops
  <2>2. QED BY <1>3, <2>1
<1>6. CASE ~(Top(t).i < ThreadNum)
  <2>1. 0 \in 0 .. ThreadNum /\ Continue(t, "test_stop", 0)
    BY <1>4, <1>6 DEF StopLoops
  <2>2. QED BY <1>3, <2>1
<1>7. QED BY <1>5, <1>6

LEMMA TestStopKeeps ==
  ASSUME TypeOK, Parts, ended = NoOne, NEW t \in Threads, TestStop(t)
  PROVE  Parts'
<1>1. /\ At(t, "test_stop") /\ Interrupted(t) /\ sent # 0 /\ (sent = 1 => t = Main)
      /\ \A w : At(t, w) => w = "test_stop"
  BY WhoStops, AtOnePlace DEF TestStop
<1>2. UNCHANGED <<navServer, tables, poolStop, joined, pc, lost, sent, ended, fault>>
  BY DEF TestStop, serverVars, threadVars
<1>3. PICK to \in {"delete_tables", "set_stop"} :
        /\ to = (IF poolStop THEN "delete_tables" ELSE "set_stop")
        /\ Continue(t, to, 0)
  BY DEF TestStop
<1>4. to \in StopPCs /\ 0 \in 0 .. ThreadNum
  BY ShutdownAssumption DEF StopPCs
<1>5. /\ Interrupted(t)' /\ At(t, to)'
      /\ \A w : At(t, w)' => w = to
      /\ \A u \in Threads : u # t =>
           /\ Interrupted(u)' <=> Interrupted(u)
           /\ \A w : At(u, w)' <=> At(u, w)
  BY <1>1, <1>3, <1>4, ContinueFacts
<1>6. lost \/ (tables' = "destroyed" /\ ~AllExited) => Hopeless'
  BY <1>1, <1>2, <1>3, <1>5 DEF Parts, EarlyInv, Hopeless, Threads
<1>7. OneSignalInv'
  BY <1>1, <1>2, <1>3, <1>5 DEF Parts, OneSignalInv, Threads
<1>8. \A u \in joined' : pc[u] = "exited" /\ u \in IOThreads
  BY <1>2 DEF Parts, PoolInv, TypeOK
<1>9. QED BY <1>1, <1>2, <1>3, <1>4, <1>6, <1>7, <1>8, GoOnKeeps

LEMMA SetStopKeeps ==
  ASSUME TypeOK, Parts, ended = NoOne, NEW t \in Threads, SetStop(t)
  PROVE  Parts'
<1>1. /\ At(t, "set_stop") /\ Interrupted(t) /\ sent # 0 /\ (sent = 1 => t = Main)
      /\ \A w : At(t, w) => w = "set_stop"
  BY WhoStops, AtOnePlace DEF SetStop
<1>2. /\ UNCHANGED <<navServer, tables, joined, pc, lost, sent, ended, fault>>
      /\ Continue(t, "notify", 0)
      /\ poolStop'
  BY DEF SetStop, threadVars
<1>3. "notify" \in StopPCs /\ 0 \in 0 .. ThreadNum
  BY ShutdownAssumption DEF StopPCs
<1>4. /\ Interrupted(t)' /\ At(t, "notify")'
      /\ \A w : At(t, w)' => w = "notify"
      /\ \A u \in Threads : u # t =>
           /\ Interrupted(u)' <=> Interrupted(u)
           /\ \A w : At(u, w)' <=> At(u, w)
  BY <1>1, <1>2, <1>3, ContinueFacts
<1>5. lost \/ (tables' = "destroyed" /\ ~AllExited) => Hopeless'
  BY <1>1, <1>2, <1>4 DEF Parts, EarlyInv, Hopeless, Threads
<1>6. OneSignalInv'
  BY <1>1, <1>2, <1>4 DEF Parts, OneSignalInv, Threads
<1>7. \A u \in joined' : pc[u] = "exited" /\ u \in IOThreads
  BY <1>2 DEF Parts, PoolInv, TypeOK
<1>8. QED BY <1>1, <1>2, <1>3, <1>5, <1>6, <1>7, GoOnKeeps

LEMMA NotifyAllKeeps ==
  ASSUME TypeOK, Parts, ended = NoOne, NEW t \in Threads, NotifyAll(t)
  PROVE  Parts'
<1>1. /\ At(t, "notify") /\ Interrupted(t) /\ sent # 0 /\ (sent = 1 => t = Main)
      /\ \A w : At(t, w) => w = "notify"
  BY WhoStops, AtOnePlace DEF NotifyAll
<1>2. /\ UNCHANGED <<navServer, tables, joined, poolStop, lost, sent, ended, fault>>
      /\ Continue(t, "join", 0)
      /\ \A u \in IOThreads : pc'[u] = "exited" <=> pc[u] = "exited"
  BY DEF NotifyAll, serverVars, WokenAll
<1>3. "join" \in StopPCs /\ 0 \in 0 .. ThreadNum
  BY ShutdownAssumption DEF StopPCs
<1>4. /\ Interrupted(t)' /\ At(t, "join")'
      /\ \A w : At(t, w)' => w = "join"
      /\ \A u \in Threads : u # t =>
           /\ Interrupted(u)' <=> Interrupted(u)
           /\ \A w : At(u, w)' <=> At(u, w)
  BY <1>1, <1>2, <1>3, ContinueFacts
<1>5. lost \/ (tables' = "destroyed" /\ ~AllExited) => Hopeless'
  BY <1>1, <1>2, <1>4 DEF Parts, EarlyInv, Hopeless, Threads
<1>6. OneSignalInv'
  <2>1. Top(t).i' = 0
    BY <1>1, <1>2, <1>3, ContinueFacts
  <2>2. 0 .. 0 - 1 = {}
    OBVIOUS
  <2>3. sent = 1 => joined = {}
    BY <1>1 DEF Parts, OneSignalInv
  <2>4. QED BY <1>1, <1>2, <1>4, <2>1, <2>2, <2>3 DEF Parts, OneSignalInv, Threads
<1>7. \A u \in joined' : pc[u] = "exited" /\ u \in IOThreads
  BY <1>2 DEF Parts, PoolInv, TypeOK
<1>8. poolStop
  BY <1>1 DEF Parts, PoolInv
<1>9. QED BY <1>1, <1>2, <1>3, <1>5, <1>6, <1>7, <1>8, GoOnKeeps

LEMMA JoinKeeps ==
  ASSUME TypeOK, Parts, ended = NoOne, NEW t \in Threads, Join(t)
  PROVE  Parts'
<1>1. /\ At(t, "join") /\ Interrupted(t) /\ sent # 0 /\ (sent = 1 => t = Main)
      /\ \A w : At(t, w) => w = "join"
  BY WhoStops, AtOnePlace DEF Join
<1>2. PICK i \in 0 .. ThreadNum : i = Top(t).i
  BY <1>1, TopInRange
<1>3. /\ ThreadNum \in Nat /\ i \in Nat /\ (i < ThreadNum => i \in IOThreads)
      /\ Main \notin IOThreads /\ IOThreads = 0 .. ThreadNum - 1
  BY ShutdownAssumption DEF IOThreads
<1>4. poolStop
  BY <1>1 DEF Parts, PoolInv
<1>5. sent = 1 => joined = 0 .. i - 1 /\ \A u \in Threads \ {Main} : ~At(u, "join")
  BY <1>1, <1>2, AtOnePlace DEF Parts, OneSignalInv, Threads
<1>6. ASSUME NEW to \in {"join", "delete_tables"}, NEW j \in 0 .. ThreadNum, Continue(t, to, j),
             UNCHANGED <<navServer, tables, poolStop, pc, lost, sent, ended, fault>>,
             \/ joined' = joined
             \/ i \in IOThreads /\ pc[i] = "exited" /\ joined' = joined \union {i},
             sent = 1 => IF to = "join" THEN joined' = 0 .. j - 1 ELSE joined' = IOThreads
      PROVE  Parts'
  <2>1. to \in StopPCs
    BY DEF StopPCs
  <2>2. /\ Interrupted(t)' /\ At(t, to)' /\ Top(t).i' = j
        /\ \A w : At(t, w)' => w = to
        /\ \A u \in Threads : u # t =>
             /\ Interrupted(u)' <=> Interrupted(u)
             /\ \A w : At(u, w)' <=> At(u, w)
    BY <1>1, <1>6, <2>1, ContinueFacts
  <2>3. lost \/ (tables' = "destroyed" /\ ~AllExited) => Hopeless'
    <3>1. ASSUME Hopeless PROVE \E u \in IOThreads : Interrupted(u)
      BY <1>1, <3>1 DEF Hopeless, Threads
    <3>2. ASSUME NEW u \in IOThreads, Interrupted(u) PROVE Interrupted(u)'
      BY <2>2, <3>2 DEF Threads
    <3>3. QED BY <1>6, <3>1, <3>2 DEF Parts, EarlyInv, Hopeless
  <2>4. OneSignalInv'
    BY <1>1, <1>4, <1>6, <2>2 DEF Parts, OneSignalInv, Threads
  <2>5. \A u \in joined' : pc[u] = "exited" /\ u \in IOThreads
    BY <1>6 DEF Parts, PoolInv, TypeOK
  <2>6. joined = IOThreads => joined' = IOThreads
    BY <1>6
  <2>7. QED BY <1>1, <1>4, <1>6, <2>1, <2>3, <2>4, <2>5, <2>6, GoOnKeeps
<1>7. CASE /\ i < ThreadNum /\ i # t /\ i \notin joined
           /\ pc[i] = "exited"
           /\ joined' = joined \union {i}
           /\ Continue(t, "join", i + 1)
           /\ UNCHANGED <<navServer, tables, loopStop, poolStop, m_taskQueue, threadVars, sent, ended, fault>>
  <2>1. i + 1 \in 0 .. ThreadNum /\ i \in IOThreads
    BY <1>3, <1>7
  <2>2. sent = 1 => joined' = 0 .. (i + 1) - 1
    BY <1>3, <1>5, <1>7
  <2>3. UNCHANGED <<navServer, tables, poolStop, pc, lost, sent, ended, fault>>
    BY <1>7 DEF threadVars
  <2>4. QED BY <1>6, <1>7, <2>1, <2>2, <2>3
<1>8. CASE /\ \/ i = t
              \/ i \in joined
              \/ \E u \in Threads \ {t} : At(u, "join") /\ Top(u).i = i
           /\ i < ThreadNum
           /\ Die("terminate")
  <2>1. sent # 1
    BY <1>1, <1>3, <1>5, <1>8
  <2>2. QED BY <1>1, <1>8, <2>1, DieKeeps
<1>9. CASE /\ i = ThreadNum
           /\ Continue(t, "delete_tables", 0)
           /\ UNCHANGED <<serverVars, threadVars, sent, ended, fault>>
  <2>1. 0 \in 0 .. ThreadNum
    BY <1>3
  <2>2. sent = 1 => joined = IOThreads
    BY <1>3, <1>5, <1>9
  <2>3. UNCHANGED <<navServer, tables, poolStop, joined, pc, lost, sent, ended, fault>>
    BY <1>9 DEF serverVars, threadVars
  <2>4. QED BY <1>6, <1>9, <2>1, <2>2, <2>3
<1>10. QED BY <1>2, <1>7, <1>8, <1>9 DEF Join

LEMMA DeleteTablesKeeps ==
  ASSUME TypeOK, Parts, ended = NoOne, NEW t \in Threads, DeleteTables(t)
  PROVE  Parts'
<1>1. /\ At(t, "delete_tables") /\ Interrupted(t) /\ sent # 0 /\ (sent = 1 => t = Main)
      /\ \A w : At(t, w) => w = "delete_tables"
  BY WhoStops, AtOnePlace DEF DeleteTables
<1>2. poolStop
  BY <1>1 DEF Parts, PoolInv
<1>3. sent = 1 => tables = "live" /\ joined = IOThreads
  BY <1>1 DEF Parts, OneSignalInv, TypeOK
<1>4. CASE /\ tables = "live" /\ tables' = "destroyed"
           /\ Continue(t, "delete_pool", 0)
           /\ UNCHANGED <<navServer, loopStop, poolStop, m_taskQueue, joined,
                          threadVars, sent, ended, fault>>
  <2>1. UNCHANGED <<navServer, poolStop, joined, pc, lost, sent, ended, fault>>
    BY <1>4 DEF threadVars
  <2>2. "delete_pool" \in StopPCs /\ 0 \in 0 .. ThreadNum
    BY ShutdownAssumption DEF StopPCs
  <2>3. /\ Interrupted(t)' /\ At(t, "delete_pool")'
        /\ \A w : At(t, w)' => w = "delete_pool"
        /\ \A u \in Threads : u # t =>
             /\ Interrupted(u)' <=> Interrupted(u)
             /\ \A w : At(u, w)' <=> At(u, w)
    BY <1>1, <1>4, <2>2, ContinueFacts
  <2>4. lost \/ (tables' = "destroyed" /\ ~AllExited) => Hopeless'
    <3>1. ~lost
      BY <1>4 DEF Parts, EarlyInv, Hopeless
    <3>2. ~AllExited => joined # IOThreads
      BY DEF Parts, PoolInv, AllExited
    <3>3. QED BY <1>2, <1>4, <2>1, <2>3, <3>1, <3>2 DEF Hopeless, Threads
  <2>5. OneSignalInv'
    BY <1>1, <1>2, <1>3, <1>4, <2>1, <2>3 DEF Parts, OneSignalInv, Threads
  <2>6. \A u \in joined' : pc[u] = "exited" /\ u \in IOThreads
    BY <2>1 DEF Parts, PoolInv, TypeOK
  <2>7. QED BY <1>1, <1>2, <1>4, <2>1, <2>2, <2>4, <2>5, <2>6, GoOnKeeps
<1>5. CASE /\ tables = "destroyed" \/ \E u \in IOThreads : pc[u] = "handle"
           /\ Die("use_after_free")
  <2>1. sent # 1
    BY <1>3, <1>5 DEF Parts, PoolInv
  <2>2. QED BY <1>1, <1>5, <2>1, DieKeeps
<1>6. CASE Die("torn_table")
  BY <1>1, <1>6, DieKeeps
<1>7. QED BY <1>4, <1>5, <1>6 DEF DeleteTables

LEMMA DeletePoolKeeps ==
  ASSUME TypeOK, Parts, ended = NoOne, NEW t \in Threads, DeletePool(t)
  PROVE  Parts'
<1>1. /\ At(t, "delete_pool") /\ Interrupted(t) /\ sent # 0 /\ (sent = 1 => t = Main)
      /\ \A w : At(t, w) => w = "delete_pool"
  BY WhoStops, AtOnePlace DEF DeletePool
<1>2. poolStop
  BY <1>1 DEF Parts, PoolInv
<1>3. sent = 1 => joined = IOThreads
  BY <1>1 DEF Parts, OneSignalInv
<1>4. CASE /\ joined = IOThreads
           /\ navServer' = "deleted"
           /\ Continue(t, "exit", 0)
           /\ UNCHANGED <<tables, loopStop, poolStop, m_taskQueue, joined, threadVars, sent, ended, fault>>
  <2>1. UNCHANGED <<tables, poolStop, joined, pc, lost, sent, ended, fault>>
    BY <1>4 DEF threadVars
  <2>2. "exit" \in StopPCs /\ 0 \in 0 .. ThreadNum
    BY ShutdownAssumption DEF StopPCs
  <2>3. /\ Interrupted(t)' /\ At(t, "exit")'
        /\ \A w : At(t, w)' => w = "exit"
        /\ \A u \in Threads : u # t =>
             /\ Interrupted(u)' <=> Interrupted(u)
             /\ \A w : At(u, w)' <=> At(u, w)
    BY <1>1, <1>4, <2>2, ContinueFacts
  <2>4. ~Hopeless
    BY <1>4 DEF Parts, PoolInv, Hopeless
  <2>5. OneSignalInv'
    BY <1>1, <1>2, <1>3, <1>4, <2>1, <2>3 DEF Parts, OneSignalInv, Threads
  <2>6. \A u \in joined' : pc[u] = "exited" /\ u \in IOThreads
    BY <2>1 DEF Parts, PoolInv, TypeOK
  <2>7. ~(lost \/ (tables' = "destroyed" /\ ~AllExited))
    BY <2>1, <2>4 DEF Parts, EarlyInv
  <2>8. QED BY <1>1, <1>2, <1>4, <2>1, <2>2, <2>5, <2>6, <2>7, GoOnKeeps
<1>5. CASE \/ joined # IOThreads /\ Die("terminate")
           \/ (\E u \in IOThreads : pc[u] = "waiting") /\ Die("destroyed_condition")
  <2>1. sent # 1
    BY <1>3, <1>5 DEF Parts, PoolInv
  <2>2. QED BY <1>1, <1>5, <2>1, DieKeeps
<1>6. QED BY <1>4, <1>5 DEF DeletePool

LEMMA ExitKeeps ==
  ASSUME TypeOK, Parts, ended = NoOne, NEW t \in Threads, Exit(t)
  PROVE  Parts'
<1>1. At(t, "exit") /\ Interrupted(t)
  BY AtOnePlace DEF Exit
<1>2. /\ UNCHANGED <<navServer, tables, poolStop, joined, pc, lost, act, sent, fault>>
      /\ ended' = t
  BY DEF Exit, serverVars, threadVars
<1>3. /\ \A u : Interrupted(u)' <=> Interrupted(u)
      /\ \A u, w : At(u, w)' <=> At(u, w)
  BY <1>2 DEF Interrupted, At, Top
<1>4. joined = IOThreads /\ AllExited
  BY <1>1 DEF Parts, PoolInv, AllExited
<1>5. t = Main /\ ~Hopeless
  BY <1>1, <1>4 DEF Parts, PoolInv, Threads, AllExited, Hopeless
<1>6. EarlyInv'
  BY <1>2, <1>4, <1>5 DEF Parts, EarlyInv, CleanExit, AllExited
<1>7. PoolInv'
  BY <1>2, <1>3 DEF Parts, PoolInv
<1>8. NoSignalInv' /\ OneSignalInv'
  BY <1>2, <1>3 DEF Parts, NoSignalInv, OneSignalInv, Top
<1>9. QED BY <1>6, <1>7, <1>8 DEF Parts

(* A signal, on whichever thread. *)
LEMMA DeliverKeeps ==
  ASSUME TypeOK, Parts, ended = NoOne, fault = "none",
         NEW t \in Threads, NEW sig \in Signals, Deliver(t, sig)
  PROVE  Parts'
<1>1. /\ At(t, "enter")' /\ Interrupted(t)'
      /\ \A w : At(t, w)' => w = "enter"
      /\ \A u \in Threads : u # t =>
           /\ Interrupted(u)' <=> Interrupted(u)
           /\ \A w : At(u, w)' <=> At(u, w)
  BY DeliverFacts DEF At, Interrupted
<1>2. /\ UNCHANGED <<navServer, tables, poolStop, joined, pc, lost, ended, fault>>
      /\ sent' = sent + 1 /\ sent \in Nat
      /\ t # Main => Blocked(Main, sig) /\ pc[t] # "exited"
  BY ShutdownAssumption DEF Deliver, serverVars, threadVars, TypeOK
<1>3. IOThreads \subseteq Threads /\ Main \in Threads /\ Main \notin IOThreads
  BY ShutdownAssumption DEF Threads
<1>4. PoolInv'
  <2>1. \A u \in IOThreads : pc'[u] = "exited" => ~Interrupted(u)'
    BY <1>1, <1>2, <1>3 DEF Parts, PoolInv
  <2>2. QED BY <1>1, <1>2, <2>1 DEF Parts, PoolInv
<1>5. Hopeless => Hopeless'
  BY <1>1, <1>2, <1>3 DEF Hopeless
<1>6. EarlyInv'
  BY <1>2, <1>5 DEF Parts, EarlyInv, CleanExit, AllExited
<1>7. NoSignalInv'
  BY <1>2 DEF NoSignalInv
<1>8. ASSUME sent = 0 PROVE t = Main
  <2>1. act[Main] = <<>>
    BY <1>3, <1>8 DEF Parts, NoSignalInv, Interrupted
  <2>2. ~Blocked(Main, sig)
    BY <2>1, EmptySeq DEF Blocked
  <2>3. QED BY <1>2, <2>2
<1>9. OneSignalInv'
  BY <1>1, <1>2, <1>3, <1>8 DEF Parts, NoSignalInv, OneSignalInv
<1>10. QED BY <1>4, <1>6, <1>7, <1>9 DEF Parts

(* The maps that an I/O thread still uses have not been destroyed after    *)
(* one signal.                                                             *)
LEMMA TouchKeeps ==
  ASSUME TypeOK, Parts, ended = NoOne, NEW t \in IOThreads, TouchDestroyed(t)
  PROVE  Parts'
<1>1. pc[t] = "handle" /\ tables = "destroyed" /\ Die("use_after_free")
  BY DEF TouchDestroyed
<1>2. joined # IOThreads
  BY <1>1 DEF Parts, PoolInv
<1>3. sent # 0
  BY <1>1 DEF Parts, NoSignalInv
<1>4. sent # 1
  BY <1>1, <1>2 DEF Parts, PoolInv, OneSignalInv, Threads
<1>5. QED BY <1>1, <1>3, <1>4, DieKeeps

LEMMA QuietStepsKeep ==
  ASSUME TypeOK, Parts, ended = NoOne,
         \/ Construct
         \/ \E k \in Locks : MainTakes(k) \/ MainReleases(k)
         \/ \E t \in IOThreads : \/ IOThread(t) /\ ~TouchDestroyed(t)
                                 \/ WakeSpuriously(t) \/ PollEvents(t)
  PROVE  Parts'
<1>1. CASE Construct
  <2>1. \A t \in IOThreads : pc'[t] = "exited" <=> pc[t] = "exited"
    BY <1>1 DEF Construct, WokenAll, TypeOK
  <2>2. /\ UNCHANGED <<tables, poolStop, joined, lost, act, sent, ended, fault>>
        /\ navServer' # "deleted"
    BY <1>1 DEF Construct
  <2>3. QED BY <2>1, <2>2, QuietKeeps
<1>2. ASSUME NEW k \in Locks, MainTakes(k) \/ MainReleases(k) PROVE Parts'
  BY <1>2, QuietKeeps DEF MainTakes, MainReleases, serverVars
<1>3. ASSUME NEW t \in IOThreads,
             \/ IOThread(t) /\ ~TouchDestroyed(t)
             \/ WakeSpuriously(t) \/ PollEvents(t)
      PROVE  Parts'
  <2>1. UNCHANGED <<navServer, tables, poolStop, joined, act, sent, ended, fault>>
    BY <1>3 DEF IOThread, TestPool, TakeLoop, FindNoLoop, Block, PollStopped, Acquire, Release,
                FinishBatch, WakeSpuriously, PollEvents, serverVars
  <2>2. ASSUME NEW u \in IOThreads
        PROVE  /\ pc[u] = "exited" => pc'[u] = "exited"
               /\ pc'[u] = "exited" => pc[u] = "exited" \/ ~Interrupted(u)
    <3>1. \/ pc' = pc
          \/ /\ ~Interrupted(t) /\ pc[t] # "exited"
             /\ \E to : pc' = [pc EXCEPT ![t] = to]
      BY <1>3 DEF IOThread, TestPool, TakeLoop, FindNoLoop, Block, PollStopped, Acquire, Release,
                  FinishBatch, WakeSpuriously, PollEvents, BackToLoop, Goto
    <3>2. QED BY <3>1 DEF TypeOK
  <2>3. lost' => lost \/ (tables = "destroyed" /\ ~AllExited)
    <3>1. CASE FinishBatch(t)
      <4>1. pc[t] = "handle" /\ (lost' = lost \/ lost' = (lost \/ tables = "destroyed"))
        BY <3>1 DEF FinishBatch, BackToLoop, Goto
      <4>2. ~AllExited
        BY <4>1 DEF AllExited
      <4>3. QED BY <4>1, <4>2
    <3>2. CASE ~FinishBatch(t)
      BY <1>3, <3>2 DEF IOThread, TestPool, TakeLoop, FindNoLoop, Block, PollStopped, Acquire,
                        Release, WakeSpuriously, PollEvents
    <3>3. QED BY <3>1, <3>2
  <2>4. QED BY <2>1, <2>2, <2>3, QuietKeeps
<1>4. QED BY <1>1, <1>2, <1>3

-----------------------------------------------------------------------------
(* The invariant holds at the start, and every step keeps it. *)
LEMMA InitIInv == Init => IInv
BY InitType, InitParts DEF IInv, Parts

LEMMA NextIInv ==
  ASSUME IInv, [Next]_vars
  PROVE  IInv'
<1> SUFFICES TypeOK' /\ Parts'
  BY DEF IInv, Parts
<1>1. TypeOK /\ Parts
  BY DEF IInv, Parts
<1>2. CASE UNCHANGED vars
  <2>1. UNCHANGED <<serverVars, threadVars, act, sent, ended, fault>>
    BY <1>2 DEF vars
  <2>2. TypeOK'
    BY <1>1, <2>1 DEF TypeOK, serverVars, threadVars
  <2>3. UNCHANGED <<navServer, tables, poolStop, joined, pc, lost, act, sent, ended, fault>>
    BY <2>1 DEF serverVars, threadVars
  <2>4. Parts'
    BY <1>1, <2>3 DEF Parts, PoolInv, EarlyInv, NoSignalInv, OneSignalInv, CleanExit, Hopeless,
       AllExited, At, Interrupted, Top
  <2>5. QED BY <2>2, <2>4
<1>3. CASE Next
  <2>1. ended = NoOne /\ fault = "none"
    BY <1>3 DEF Next, Running
  <2>2. CASE Construct \/ \E k \in Locks : MainTakes(k) \/ MainReleases(k)
    BY <1>1, <2>1, <2>2, MainKeepsType, QuietStepsKeep
  <2>3. ASSUME NEW t \in IOThreads, IOThread(t) \/ WakeSpuriously(t) \/ PollEvents(t)
        PROVE  TypeOK' /\ Parts'
    BY <1>1, <2>1, <2>3, IOKeepsType, QuietStepsKeep, TouchKeeps
  <2>4. ASSUME NEW t \in Threads, NEW sig \in Signals, Deliver(t, sig)
        PROVE  TypeOK' /\ Parts'
    BY <1>1, <2>1, <2>4, DeliverKeepsType, DeliverKeeps
  <2>5. ASSUME NEW t \in Threads, Stop(t) PROVE TypeOK' /\ Parts'
    <3>1. TypeOK'
      BY <1>1, <2>5, StopKeepsType
    <3>2. Parts'
      BY <1>1, <2>1, <2>5, EnterKeeps, StopLoopsKeeps, TestStopKeeps, SetStopKeeps, NotifyAllKeeps,
         JoinKeeps, DeleteTablesKeeps, DeletePoolKeeps, ExitKeeps DEF Stop
    <3>3. QED BY <3>1, <3>2
  <2>6. QED BY <1>3, <2>2, <2>3, <2>4, <2>5 DEF Next
<1>4. QED BY <1>2, <1>3

LEMMA Invariant == Spec => []IInv
BY InitIInv, NextIInv, PTL DEF Spec

(* Types are kept, wherever and however often signals interrupt. *)
THEOREM TypeCorrect == Spec => []TypeOK
<1>1. IInv => TypeOK
  BY DEF IInv
<1>2. QED BY <1>1, Invariant, PTL

(* With one signal the maps outlive the I/O threads, and Stop dies of      *)
(* nothing but a server that is not there yet or an insertion it           *)
(* interrupted (navServer.cpp:7-15, TcpServer.cpp:28-41).                  *)
THEOREM OneSignalIsAlwaysSafe == Spec => []OneSignalIsSafe
<1>1. ASSUME IInv PROVE OneSignalIsSafe
  <2>1. sent \in Nat
    BY <1>1, ShutdownAssumption DEF IInv, TypeOK
  <2>2. CASE sent = 0
    BY <1>1, <2>2 DEF IInv, NoSignalInv, OneSignalIsSafe
  <2>3. CASE sent = 1
    BY <1>1, <2>3 DEF IInv, OneSignalInv, PoolInv, OneSignalIsSafe, Threads
  <2>4. QED BY <2>1, <2>2, <2>3 DEF OneSignalIsSafe
<1>2. QED BY <1>1, Invariant, PTL

(* An exit is the main thread's, with all I/O threads joined and no line   *)
(* accepted after the streams were written, whatever signals came          *)
(* (navServer.cpp:12-14, ThreadPool.cpp:56-75).                            *)
THEOREM ExitIsAlwaysClean == Spec => []CleanExit
<1>1. IInv => CleanExit
  BY DEF IInv, EarlyInv
<1>2. QED BY <1>1, Invariant, PTL
=============================================================================
