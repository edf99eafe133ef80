--------------------------- MODULE MCConnLifecycle ---------------------------
(* Small instances of ConnLifecycle for TLC. *)
EXTENDS ConnLifecycle, TLC

(* Two descriptors, 4 and 5: with ThreadNum = 2 they fall to two loops,    *)
(* with ThreadNum = 1 they share one.                                      *)
TwoFds == {4, 5}
OneFd == {4}

(* Connections are interchangeable in the runs of safety properties. *)
ConnSymmetry == Permutations(Conns)
=============================================================================
