------------------------------- MODULE MCBuffer -------------------------------
(* Small instances of Buffer for TLC. *)
EXTENDS Buffer

(* With Base = 4 the lengths are <<0,0,0,0>>, <<1,0,0,0>> and <<1,1,0,0>>; *)
(* the payloads look like headers themselves.                              *)
MCMessages == {<<>>, <<3>>, <<1, 0, 0, 0, 0>>}
=============================================================================
