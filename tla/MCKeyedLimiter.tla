--------------------------- MODULE MCKeyedLimiter ---------------------------
(* Four tasks over three keys with room for two: a full limiter, a task    *)
(* that waits for its key and one that passes it, each with a call of idle *)
(* before, between and after.                                              *)
EXTENDS KeyedLimiter
=============================================================================
