--------------------------- MODULE MCApiGatekeeper ---------------------------
(* An instance of the gatekeeper for TLC: four calls of the model service, *)
(* which falls back on the default limits, beside a search service with     *)
(* limits of its own, whose queue comes to be while drains iterate.         *)
EXTENDS ApiGatekeeper, TLC

CONSTANTS m1, m2, m3, m4, d1, d2, model, search

Asked == {m1, m2, m3, m4}
AskedServices == [c \in Asked |-> model]
Symmetry == Permutations(Asked) \cup Permutations({d1, d2})

(* Two calls can wait behind the first; when the third of them has the      *)
(* minute free, the hour still holds it back.                               *)
Lined ==
  [ requests_per_minute |-> 1, requests_per_hour |-> 2, concurrent_max |-> 1,
    retry_after_seconds |-> 1, max_retries |-> 1, queue_max_depth |-> 2 ]

Tight == [Lined EXCEPT !.queue_max_depth = 1]

LimitsFile == ("default" :> Lined) @@ (search :> Tight)
=============================================================================
