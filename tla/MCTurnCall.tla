----------------------------- MODULE MCTurnCall -----------------------------
(* Two turns of two attempts each, a cap of two and a window of three: two   *)
(* abandoned workers, or three calls, starve the last turn.                  *)
EXTENDS TurnCall
=============================================================================
