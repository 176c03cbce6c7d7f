----------------------------- MODULE MCOutcome -----------------------------
(* Outcome for TLC: one round and the closing, eleven arguments, two models. *)
EXTENDS Outcome

Argument(text, input, output) == [text |-> text, input |-> input, output |-> output]

\* Two engaging phrases weigh as much as one rebuttal, so level totals are left to
\* the cascade.  Every phrase of the verdict's agreement list is the only one of
\* its list and of the drift lists in some argument.
MCArguments ==
  {Argument({}, 1, 0),
   Argument({"i disagree"}, 1, 1),
   Argument({"your point", "perhaps the opponent"}, 0, 2),
   Argument({"i concede", "mistaken"}, 2, 1)}
  \cup {Argument({phrase}, 1, 2) : phrase \in VERDICT_AGREEMENT_MARKERS \ {"i concede"}}

Price(input, output) == [input |-> input, output |-> output]
MCTables ==
  {None,
   "default" :> Price(1, 2) @@ "opus" :> Price(3, 5),
   "opus" :> Price(3, 5) @@ "haiku" :> Price(0, 1)}
=============================================================================
