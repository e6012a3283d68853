---------------------------- MODULE MCLpCreation ----------------------------
(* Two processes: the commit of the browser and a worker run in one, the    *)
(* retry and another worker in the other.                                   *)
EXTENDS LpCreation, TLC

CONSTANTS c1, r1, w1, w2, p1, p2

MCProcOf == c1 :> p1 @@ w1 :> p1 @@ r1 :> p2 @@ w2 :> p2
=============================================================================
