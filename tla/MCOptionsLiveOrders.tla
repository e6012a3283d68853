------------------------ MODULE MCOptionsLiveOrders ------------------------
(***************************************************************************)
(* With an entry of one contract: three batches, which is the entry, its   *)
(* TP and the order that closes in its place, and two calls or passes in   *)
(* progress at once.  With an entry of two contracts, which can be filled  *)
(* in parts: an entry and one batch more, and one at a time.               *)
(***************************************************************************)
EXTENDS OptionsLiveOrders

CONSTANTS s1, s2, w1, w2

Batches32 == <<3, 2>>
Busy21 == <<2, 1>>
Symmetry == Permutations(Workers) \cup Permutations(Senders)
=============================================================================
