------------------------------- MODULE Mailbox -------------------------------
(***************************************************************************)
(* What addTaskToQueueInLoop promises its callers: a posted task is run    *)
(* once, after those posted before it.  EventLoop implements this with a   *)
(* queue, a mutex, an eventfd and an epoll loop.                           *)
(***************************************************************************)
EXTENDS Sequences, SequencesExt

CONSTANT Tasks  (* what may be posted *)

VARIABLES
  box,  (* posted, not yet run, oldest first *)
  log   (* run, oldest first                 *)

boxVars == <<box, log>>

BoxInit == box = <<>> /\ log = <<>>

Post(t) ==
  /\ t \notin ToSet(box) \union ToSet(log)
  /\ box' = Append(box, t)
  /\ UNCHANGED log

RunOldest ==
  /\ box # <<>>
  /\ log' = Append(log, Head(box))
  /\ box' = Tail(box)

BoxNext == (\E t \in Tasks : Post(t)) \/ RunOldest

BoxSpec == BoxInit /\ [][BoxNext]_boxVars
=============================================================================
