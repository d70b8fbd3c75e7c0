--------------------------- MODULE MCOrchestrator ---------------------------
(* Orchestrator with two rounds of up to two calls, and texts of up to two     *)
(* deltas, of which one ends with the mark and the other begins with the       *)
(* newline that belongs to it.                                                 *)
EXTENDS Orchestrator

MCPieces == {<<"letter", "letter", "mark">>, <<"newline", "letter", "letter">>}
=============================================================================
