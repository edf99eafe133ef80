------------------------------ MODULE WorkQueue ------------------------------
(***************************************************************************)
(* What a pool of threads promises whoever adds a task to it: the task is  *)
(* begun after those added before it, by one thread that has no other, and *)
(* is executed once.  ThreadPool implements this with a mutex, a condition *)
(* variable and a flag; WorkerMode uses its pool as no more than this.     *)
(***************************************************************************)
EXTENDS Sequences, SequencesExt

CONSTANTS
  Tasks,   (* what may be added        *)
  Hands,   (* the threads              *)
  NoTask   (* what an idle thread has  *)

VARIABLES
  queue,   (* added, not yet begun, oldest first *)
  inHand,  (* the task each thread is at         *)
  ended    (* executed                           *)

queueVars == <<queue, inHand, ended>>

QueueInit == queue = <<>> /\ inHand = [h \in Hands |-> NoTask] /\ ended = {}

Submit(t) ==
  /\ t \notin ToSet(queue) \union {inHand[h] : h \in Hands} \union ended
  /\ queue' = Append(queue, t)
  /\ UNCHANGED <<inHand, ended>>

TakeOldest(h) ==
  /\ inHand[h] = NoTask
  /\ queue # <<>>
  /\ inHand' = [inHand EXCEPT ![h] = Head(queue)]
  /\ queue' = Tail(queue)
  /\ UNCHANGED ended

Complete(h) ==
  /\ inHand[h] # NoTask
  /\ ended' = ended \union {inHand[h]}
  /\ inHand' = [inHand EXCEPT ![h] = NoTask]
  /\ UNCHANGED queue

QueueNext ==
  \/ \E t \in Tasks : Submit(t)
  \/ \E h \in Hands : TakeOldest(h) \/ Complete(h)

QueueSpec == QueueInit /\ [][QueueNext]_queueVars
=============================================================================
