----------------------------- MODULE MCEventLoop -----------------------------
(* EventLoop's constants are given in the configuration: two callers with  *)
(* two calls each, as model values; MaxCalls = 2 lets a caller push again  *)
(* while the loop is still draining.                                       *)
EXTENDS EventLoop
=============================================================================
