---------------------------- MODULE MCDebateApi -----------------------------
(* A debate of two events, three SSE connections and one GET request on a   *)
(* pool of three threads: the readers can take them all.                    *)
EXTENDS DebateApi
=============================================================================
