----------------------------- MODULE MCSearchCall -----------------------------
(* Two callers of two attempts, each of two requests where gatekept, for one *)
(* slot: a worker that was given up on, or the other search, starves one.    *)
EXTENDS SearchCall

MCPages == {<<>>, <<[title |-> "disguised", snippet |-> "long"],
                    [title |-> "plain", snippet |-> "phrased"]>>}
===============================================================================
