---------------------------- MODULE MCKeyedMutex ----------------------------
(* Four calls over two keys, shared out in every way: three on one key are *)
(* needed for a late call to overtake, and the fourth for two keys to be   *)
(* in use at once.                                                         *)
EXTENDS KeyedMutex
=============================================================================
