---------------------------- MODULE MCWorkerMode ----------------------------
(* A small instance of WorkerMode for TLC. *)
EXTENDS WorkerMode, TLC

(* One descriptor: the second connection gets it when the first one's      *)
(* object is destroyed.                                                    *)
OneFd == {5}

TwoFds == {5, 6}

(* Connections are interchangeable, and so are workers: the run checks     *)
(* safety only.                                                            *)
Symmetry == Permutations(Conns) \union Permutations(Workers)
=============================================================================
