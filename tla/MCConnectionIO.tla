---------------------------- MODULE MCConnectionIO ----------------------------
(* ConnectionIO's constants are numbers, given in the configurations: a    *)
(* message of 2 pieces can arrive or be sent in part, a send buffer of 3   *)
(* can fill up in the middle of the second reply.                          *)
EXTENDS ConnectionIO
=============================================================================
