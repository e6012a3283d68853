------------------------- MODULE MutualExclusionSpec ------------------------
(***************************************************************************)
(* What a per-key lock promises its callers, whatever way it is built: a   *)
(* call gets in only while no other call of its key is in.                 *)
(***************************************************************************)
CONSTANTS Calls, Keys

VARIABLES holders   \* [Keys -> SUBSET Calls]: the calls inside, per key

Init == holders = [k \in Keys |-> {}]

Acquire(c, k) ==
    /\ holders[k] = {}
    /\ holders' = [holders EXCEPT ![k] = {c}]

Free(c, k) ==
    /\ holders[k] = {c}
    /\ holders' = [holders EXCEPT ![k] = {}]

Next == \E c \in Calls, k \in Keys : Acquire(c, k) \/ Free(c, k)

Spec == Init /\ [][Next]_holders
=============================================================================
