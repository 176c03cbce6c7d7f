---------------------------- MODULE MCDebateLoop ----------------------------
(* Two rounds: each side speaks before and after hearing the other, and a    *)
(* frame of the first round could be left over in the second.                *)
EXTENDS RunDataset
=============================================================================
