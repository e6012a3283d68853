--------------------------- MODULE MCHedgeEngine ---------------------------
(***************************************************************************)
(* Instances of HedgeEngine for TLC; each configuration asks a question of *)
(* its own and names in Executions, Overlaps and the bounds what may       *)
(* happen.  Three order ids are an entry, its stop loss and the entry of   *)
(* the next cycle, or an entry, a stop loss and its replacement: a second  *)
(* entry or a second stop loss beside a live one fits.  Two are enough     *)
(* where only the entry and what replaces it matter.  One job waiting is   *)
(* enough for it to be overtaken by the one that runs.                     *)
(***************************************************************************)
EXTENDS HedgeEngine
=============================================================================
