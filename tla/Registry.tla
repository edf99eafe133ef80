------------------------------ MODULE Registry -------------------------------
(***************************************************************************)
(* What a client may rely on between its connect and its end: its          *)
(* descriptor names nobody else, it is closed at most once and is not      *)
(* heard after that, and the server lets go of it only if it was closed or *)
(* has been silent for too long.  ConnLifecycle implements this with three *)
(* tables keyed by descriptor, shared ownership and an idle timer.         *)
(***************************************************************************)
CONSTANTS Conns, Fds

VARIABLES
  status,  (* of each connection                             *)
  silent,  (* nothing was heard of it for longer than allowed *)
  at       (* its descriptor, from its connect on            *)

registryVars == <<status, silent, at>>

Live(c) == status[c] \in {"open", "expired", "closed"}

RegistryInit ==
  /\ status = [c \in Conns |-> "unborn"]
  /\ silent = [c \in Conns |-> FALSE]

Become(c, from, to) == status[c] \in from /\ status' = [status EXCEPT ![c] = to]

Connect(c) ==
  /\ Become(c, {"unborn"}, "open")
  /\ \E f \in Fds \ {at[d] : d \in {e \in Conns : Live(e)}} : at' = [at EXCEPT ![c] = f]
  /\ UNCHANGED silent

Speak(c) ==
  /\ status[c] \in {"open", "expired"}
  /\ silent' = [silent EXCEPT ![c] = FALSE]
  /\ UNCHANGED <<status, at>>

FallSilent(c) ==
  /\ Live(c)
  /\ silent' = [silent EXCEPT ![c] = TRUE]
  /\ UNCHANGED <<status, at>>

Disconnect(c) == Become(c, {"open", "expired"}, "closed") /\ UNCHANGED <<silent, at>>

(* The idle timer gives up on c, which somebody may still be at work on. *)
Expire(c) == silent[c] /\ Become(c, {"open"}, "expired") /\ UNCHANGED <<silent, at>>

Reclaim(c) ==
  /\ \/ Become(c, {"closed", "expired"}, "gone")
     \/ silent[c] /\ Become(c, {"open"}, "gone")
  /\ UNCHANGED <<silent, at>>

RegistryNext ==
  \E c \in Conns :
    Connect(c) \/ Speak(c) \/ FallSilent(c) \/ Disconnect(c) \/ Expire(c) \/ Reclaim(c)

RegistrySpec == RegistryInit /\ [][RegistryNext]_registryVars
=============================================================================
