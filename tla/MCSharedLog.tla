----------------------------- MODULE MCSharedLog -----------------------------
(* Two threads, one logging events of one run, one of two runs in any order: *)
(* they meet on the same file and on different files.  Two lines fill a file. *)
EXTENDS SharedLog, TLC

CONSTANTS t1, t2, a, b

RunsOf == t1 :> {a} @@ t2 :> {a, b}
=============================================================================
