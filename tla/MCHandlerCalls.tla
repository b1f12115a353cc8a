--------------------------- MODULE MCHandlerCalls ---------------------------
(* Instances of HandlerCalls for TLC.                                       *)
EXTENDS HandlerCalls

CONSTANTS t1, t2, t3, m1, m2, m3
=============================================================================
