------------------------------ MODULE Outcome ------------------------------
(***************************************************************************)
(* What a debate amounts to: the drift detector, the verdict, the totals,  *)
(* the price and the budget alert (skills/_drift_logic.py, skills/         *)
(* _verdict_logic.py, engine/_verdict.py, engine/result.py, pricing/).     *)
(* DebateLoop orders these steps; this module computes them.  The names of *)
(* the specification carry "Outcome": it is proved about beside DebateApi. *)
(*                                                                         *)
(* A text is the set of lexicon phrases in it; the lexicons are the code's, *)
(* every phrase of them.  Scores are in quarters of a point, confidence in *)
(* twentieths, money in the unit the prices are quoted in.                 *)
(***************************************************************************)
EXTENDS Integers, Sequences, SequencesExt, Functions, FiniteSets, FiniteSetsExt

CONSTANTS
  Rounds,     \* config.rounds
  Arguments,  \* what a call comes back with: text and tokens
  Models,     \* model ids
  Budgets,    \* config.budget_usd, 0 for no cap
  Tables,     \* model_prices.json as it may stand: model -> price
  None        \* Python's None, and an unreadable model_prices.json

Pro == "pro"
Con == "con"
Sides == {Pro, Con}
Opponent(s) == IF s = Pro THEN Con ELSE Pro

DEFAULT_MODEL == "default"

\* The lexicons (_verdict_constants.py, _drift_constants.py).
VERDICT_REBUTTAL_MARKERS ==
  {"however", "but ", "this does not hold", "fails", "wrong because", "on the contrary",
   "i disagree", "rebut", "counter", "does not follow", "flawed", "false", "mistaken"}
VERDICT_ENGAGEMENT_MARKERS ==
  {"your point", "your claim", "your argument", "the opponent", "you said", "you claim",
   "you argue", "as you", "that claim"}
VERDICT_AGREEMENT_MARKERS ==
  {"i agree", "you're right", "you are right", "fair point", "i concede", "i accept that",
   "good point", "that is true"}
DRIFT_CONCEDE_PHRASES ==
  {"i concede", "i was wrong", "i accept that", "i accept the", "i withdraw",
   "i can't argue with that", "i cannot argue with that", "the opponent has the stronger",
   "the opponent is correct", "you have convinced me"}

\* Mutant: the drift list lost one of the phrases it shares with the verdict's.
DriftAgreementForgets ==
  {"you're right", "you are right", "i agree", "fair point", "that's true", "that is true",
   "i must agree"}

DRIFT_AGREEMENT_PHRASES ==
  {"you're right", "you are right", "i agree", "fair point", "good point", "that's true",
   "that is true", "i must agree"}
DRIFT_HEDGE_PHRASES ==
  {"perhaps the opponent", "maybe they have a point", "maybe the opponent", "it's true that",
   "it is true that", "i suppose the opponent", "they may have a point",
   "there may be some merit"}

Phrases ==
  UNION {VERDICT_REBUTTAL_MARKERS, VERDICT_ENGAGEMENT_MARKERS, VERDICT_AGREEMENT_MARKERS,
         DRIFT_CONCEDE_PHRASES, DRIFT_AGREEMENT_PHRASES, DRIFT_HEDGE_PHRASES}

Prices == [input : Nat, output : Nat]

Verdicts == [winner     : Sides,
             decided_by : Sides \cup {None, "rebuttal", "stayed-on-side", "engagement"},
             scores     : [Sides -> Nat],
             converged  : BOOLEAN]

ASSUME OutcomeAssumption ==
  /\ Rounds \in Nat \ {0}
  /\ Arguments \subseteq [text : SUBSET Phrases, input : Nat, output : Nat]
  /\ Budgets \subseteq Nat /\ None \notin Sides \cup Verdicts
  /\ \A table \in Tables \ {None} :
       DOMAIN table \subseteq Models \cup {DEFAULT_MODEL}
       /\ \A model \in DOMAIN table : table[model] \in Prices

VARIABLES
  config,      \* the models of the sides and the budget cap
  stage,       \* what the run does next
  slot,        \* the turns taken: numbered ones, then a closing one per side
  transcript,  \* the numbered turns, FAILED markers included
  closing,     \* closing_discussion
  nudges,      \* <<side, round>> of every correction
  verdict,     \* the Verdict told, None before and without one
  result,      \* totals and cost_breakdown of the DebateResult
  alert        \* whether the over-budget alert was logged

outcomeVars == <<config, stage, slot, transcript, closing, nudges, verdict, result, alert>>

-----------------------------------------------------------------------------
(* The drift detector.  The phrases that name the opponent contain the     *)
(* marker "the opponent"; no other phrase contains another.                *)

NAMES_THE_OPPONENT ==
  {"the opponent has the stronger", "the opponent is correct", "perhaps the opponent",
   "maybe the opponent", "i suppose the opponent"}

Contents(text) ==
  text \cup {marker \in {"the opponent"} : text \cap NAMES_THE_OPPONENT # {}}

CountMarkers(text, markers) == Cardinality(Contents(text) \cap markers)

Signal(text, phrases, weight) == IF CountMarkers(text, phrases) > 0 THEN weight ELSE 0

\* detect_drift: the weights of the signals that fired.  Restating needs the
\* opponent's message, which run_drift_check does not pass.
DetectDrift(text) ==
  LET fired == Signal(text, DRIFT_CONCEDE_PHRASES, 16)
               + Signal(text, DRIFT_AGREEMENT_PHRASES, 11)
               + Signal(text, DRIFT_HEDGE_PHRASES, 10)
  IN  IF fired > 20 THEN 20 ELSE fired

DRIFT_CAPTURE_THRESHOLD == 10
Captured(text) == DetectDrift(text) >= DRIFT_CAPTURE_THRESHOLD

-----------------------------------------------------------------------------
(* score_debate and build_verdict. *)

\* The positions of a side's turns, and the markers found in them.
Turns(turns, s) == {i \in DOMAIN turns : ~turns[i].failed /\ turns[i].side = s}

Marked(turns, s, markers) ==
  UNION {{i} \X (Contents(turns[i].text) \cap markers) : i \in Turns(turns, s)}

Counted(turns, s, markers) == Cardinality(Marked(turns, s, markers))

\* Mutant: a turn earns nothing by itself.
SideCriteriaNoBase(turns, s) ==
  [argumentation |-> 0,
   rebuttal      |-> 6 * Counted(turns, s, VERDICT_REBUTTAL_MARKERS),
   engagement    |-> 3 * Counted(turns, s, VERDICT_ENGAGEMENT_MARKERS)]

SideCriteria(turns, s) ==
  [argumentation |-> 4 * Cardinality(Turns(turns, s)),
   rebuttal      |-> 6 * Counted(turns, s, VERDICT_REBUTTAL_MARKERS),
   engagement    |-> 3 * Counted(turns, s, VERDICT_ENGAGEMENT_MARKERS)]

SideAgreement(turns, s) == Counted(turns, s, VERDICT_AGREEMENT_MARKERS)

VERDICT_DECISIVE_FALLBACK_SIDE == Pro

\* Mutant: level totals go to the fallback side at once.
BreakTieAtOnce(criteria, agreement) ==
  [winner |-> VERDICT_DECISIVE_FALLBACK_SIDE, decided_by |-> VERDICT_DECISIVE_FALLBACK_SIDE]

\* The first step that separates the sides decides.
BreakTie(criteria, agreement) ==
  LET cascade ==
        <<[criterion |-> "rebuttal",
           pro |-> criteria[Pro].rebuttal, con |-> criteria[Con].rebuttal],
          [criterion |-> "stayed-on-side", pro |-> agreement[Con], con |-> agreement[Pro]],
          [criterion |-> "engagement",
           pro |-> criteria[Pro].engagement, con |-> criteria[Con].engagement]>>
      Separating == {i \in DOMAIN cascade : cascade[i].pro # cascade[i].con}
      step == cascade[Min(Separating)]
  IN  IF Separating = {}
        THEN [winner |-> VERDICT_DECISIVE_FALLBACK_SIDE,
              decided_by |-> VERDICT_DECISIVE_FALLBACK_SIDE]
        ELSE [winner |-> IF step.pro > step.con THEN Pro ELSE Con,
              decided_by |-> step.criterion]

Total(criteria) == criteria.argumentation + criteria.rebuttal + criteria.engagement

Decide(criteria, agreement) ==
  LET gap == Total(criteria[Pro]) - Total(criteria[Con])
  IN  IF gap = 0 THEN BreakTie(criteria, agreement)
      ELSE [winner |-> IF gap > 0 THEN Pro ELSE Con, decided_by |-> None]

\* No turn is given a score and no winner is supplied by the loop, which
\* leaves FAILED turns out.
BuildVerdict(turns) ==
  LET criteria  == [s \in Sides |-> SideCriteria(turns, s)]
      agreement == [s \in Sides |-> SideAgreement(turns, s)]
      decision  == Decide(criteria, agreement)
  IN  [winner     |-> decision.winner,
       decided_by |-> decision.decided_by,
       scores     |-> [s \in Sides |-> Total(criteria[s])],
       converged  |-> \A s \in Sides : agreement[s] > 0]

-----------------------------------------------------------------------------
(* CostTotals, the breakdown per model and its price. *)

Usage(messages, positions) ==
  [input  |-> SumFunctionOnSet([i \in DOMAIN messages |-> messages[i].input], positions),
   output |-> SumFunctionOnSet([i \in DOMAIN messages |-> messages[i].output], positions)]

\* An entry for each key that some message has.
Grouped(messages, key) ==
  [k \in Range(key) |-> Usage(messages, {i \in DOMAIN messages : key[i] = k})]

CostTotals(messages) ==
  [usage    |-> Usage(messages, DOMAIN messages),
   by_agent |-> Grouped(messages, [i \in DOMAIN messages |-> messages[i].side]),
   by_round |-> Grouped(messages, [i \in DOMAIN messages |-> messages[i].round])]

ModelOf(s) == IF s = Pro THEN config.pro_model ELSE config.con_model
SpokenBy(messages) == [i \in DOMAIN messages |-> ModelOf(messages[i].side)]

\* Mutant: a turn's tokens replace those its model spent before.
PerModelTokensReplaced(messages) ==
  [model \in Range(SpokenBy(messages)) |->
     Usage(messages, {Max({i \in DOMAIN messages : SpokenBy(messages)[i] = model})})]

PerModelTokens(messages) == Grouped(messages, SpokenBy(messages))

\* An unknown model costs what "default" does.
GetModelPrice(table, model) == table[IF model \in DOMAIN table THEN model ELSE DEFAULT_MODEL]

Row(usage, price) ==
  [input        |-> usage.input,
   output       |-> usage.output,
   input_cost   |-> usage.input * price.input,
   output_cost  |-> usage.output * price.output]

Rows(messages, table) ==
  LET tokens == PerModelTokens(messages)
  IN  [model \in DOMAIN tokens |-> Row(tokens[model], GetModelPrice(table, model))]

RowCost(row) == row.input_cost + row.output_cost

FromRows(rows) ==
  [rows   |-> rows,
   input  |-> SumFunction([model \in DOMAIN rows |-> rows[model].input]),
   output |-> SumFunction([model \in DOMAIN rows |-> rows[model].output]),
   cost   |-> SumFunction([model \in DOMAIN rows |-> RowCost(rows[model])])]

CostBreakdownFromResult(messages, table) == FromRows(Rows(messages, table))

AddRows(left, right) ==
  [input       |-> left.input + right.input,
   output      |-> left.output + right.output,
   input_cost  |-> left.input_cost + right.input_cost,
   output_cost |-> left.output_cost + right.output_cost]

\* aggregate_costs of two breakdowns.
AggregateCosts(one, other) ==
  FromRows([model \in DOMAIN one.rows \cup DOMAIN other.rows |->
              IF model \notin DOMAIN other.rows THEN one.rows[model]
              ELSE IF model \notin DOMAIN one.rows THEN other.rows[model]
              ELSE AddRows(one.rows[model], other.rows[model])])

\* Mutant: reaching the cap is already an overrun.
CheckBudgetAtCap(spent, budget) == budget > 0 /\ spent >= budget

CheckBudget(spent, budget) == budget > 0 /\ spent > budget

-----------------------------------------------------------------------------
(* The run: every turn with its drift check, then the outcome. *)

Message(s, r, argument) ==
  [side |-> s, round |-> r, failed |-> FALSE,
   text |-> argument.text, input |-> argument.input, output |-> argument.output]

FailedMarker(s, r) ==
  [side |-> s, round |-> r, failed |-> TRUE, text |-> {}, input |-> 0, output |-> 0]

Side == IF slot % 2 = 0 THEN Pro ELSE Con

Round == slot \div 2 + 1
CLOSING_STAMP == 1

NextSlot ==
  /\ slot' = slot + 1
  /\ stage' = IF slot' < 2 * Rounds THEN "turn"
              ELSE IF slot' < 2 * Rounds + 2 THEN "closing" ELSE "judge"

\* The correction of the turn just taken.
Nudge == <<Side, Round>>

Argue ==
  /\ stage = "turn"
  /\ \E argument \in Arguments :
       /\ transcript' = Append(transcript, Message(Side, Round, argument))
       /\ nudges' = nudges \cup {correction \in {Nudge} : Captured(argument.text)}
  /\ NextSlot
  /\ UNCHANGED <<config, closing, verdict, result, alert>>

FailTurn ==
  /\ stage = "turn"
  /\ transcript' = Append(transcript, FailedMarker(Side, Round))
  /\ NextSlot
  /\ UNCHANGED <<config, closing, nudges, verdict, result, alert>>

\* A closing statement is not drift-checked.
GiveClosing ==
  /\ stage = "closing"
  /\ \E argument \in Arguments :
       closing' = Append(closing, Message(Side, CLOSING_STAMP, argument))
  /\ NextSlot
  /\ UNCHANGED <<config, transcript, nudges, verdict, result, alert>>

SkipClosing ==
  /\ stage = "closing"
  /\ NextSlot
  /\ UNCHANGED <<config, transcript, closing, nudges, verdict, result, alert>>

Spoken == transcript \o closing
Answered == {i \in DOMAIN Spoken : ~Spoken[i].failed}

RenderLoopVerdict ==
  /\ stage = "judge"
  /\ verdict' = IF Answered = {} THEN None ELSE BuildVerdict(Spoken)
  /\ stage' = "price"
  /\ UNCHANGED <<config, slot, transcript, closing, nudges, result, alert>>

\* A missing or malformed file raises, and so does one without "default", even
\* when every model in use has a price of its own.
Usable(table) == IF table = None THEN FALSE ELSE DEFAULT_MODEL \in DOMAIN table

\* model_prices.json is read only now.
PriceResult ==
  /\ stage = "price"
  /\ \E table \in Tables :
       /\ Usable(table)
       /\ result' = [totals |-> CostTotals(Spoken), table |-> table,
                     cost_breakdown |-> CostBreakdownFromResult(Spoken, table)]
  /\ stage' = "budget"
  /\ UNCHANGED <<config, slot, transcript, closing, nudges, verdict, alert>>

FailToPrice ==
  /\ stage = "price"
  /\ \E table \in Tables : ~Usable(table)
  /\ stage' = "lost"
  /\ UNCHANGED <<config, slot, transcript, closing, nudges, verdict, result, alert>>

CheckRunBudget ==
  /\ stage = "budget"
  /\ alert' = CheckBudget(result.cost_breakdown.cost, config.budget_usd)
  /\ stage' = "done"
  /\ UNCHANGED <<config, slot, transcript, closing, nudges, verdict, result>>

OutcomeOver == stage \in {"done", "lost"} /\ UNCHANGED outcomeVars

Configs == [pro_model : Models, con_model : Models, budget_usd : Budgets]

OutcomeInit ==
  /\ config \in Configs
  /\ stage = "turn" /\ slot = 0
  /\ transcript = <<>> /\ closing = <<>> /\ nudges = {}
  /\ verdict = None /\ result = None /\ alert = FALSE

OutcomeNext ==
  \/ Argue \/ FailTurn \/ GiveClosing \/ SkipClosing
  \/ RenderLoopVerdict \/ PriceResult \/ FailToPrice \/ CheckRunBudget \/ OutcomeOver

OutcomeSpec == OutcomeInit /\ [][OutcomeNext]_outcomeVars

-----------------------------------------------------------------------------
Messages == [side : Sides, round : 1 .. Rounds, failed : BOOLEAN, text : SUBSET Phrases,
             input : Nat, output : Nat]

\* Every variable ranges over what the code keeps in it.
OutcomeTypeOK ==
  /\ config \in Configs
  /\ stage \in {"turn", "closing", "judge", "price", "budget", "done", "lost"}
  /\ slot \in 0 .. 2 * Rounds + 2
  /\ transcript \in Seq(Messages) /\ closing \in Seq(Messages)
  /\ nudges \subseteq Sides \X (1 .. Rounds)
  /\ verdict \in Verdicts \cup {None}
  /\ alert \in BOOLEAN

Mirrored == [i \in DOMAIN Spoken |-> [Spoken[i] EXCEPT !.side = Opponent(@)]]

\* The judge favours neither side: had the two sides said each other's words,
\* the other side would have won, on the same criterion.  Only when nothing at
\* all tells them apart does the fixed side win both ways
\* (_verdict_logic.py:105-133).
VerdictIsNeutral ==
  verdict # None =>
    LET mirror == BuildVerdict(Mirrored)
    IN  /\ verdict.decided_by # VERDICT_DECISIVE_FALLBACK_SIDE =>
             mirror.winner = Opponent(verdict.winner) /\ mirror.decided_by = verdict.decided_by
        /\ verdict.decided_by = VERDICT_DECISIVE_FALLBACK_SIDE =>
             /\ mirror.winner = verdict.winner
             /\ \A markers \in {VERDICT_REBUTTAL_MARKERS, VERDICT_ENGAGEMENT_MARKERS,
                                VERDICT_AGREEMENT_MARKERS} :
                  Counted(Spoken, Pro, markers) = Counted(Spoken, Con, markers)

Leader == BuildVerdict(Spoken).winner

\* Speaking never costs a side its lead, not even when it concedes: who would
\* win if the debate ended now still wins after another answer of its own
\* (_verdict_logic.py:83-102).
SpeakingKeepsTheLead ==
  [][LET said == Last(Spoken')
     IN  Answered # {} /\ Answered' # Answered /\ said.side = Leader
           => Leader' = Leader]_outcomeVars

\* The two lexicons agree: a side whose words count as agreement in the verdict
\* was corrected for them in that round, so the agents converge uncorrected
\* only by their closing statements (_drift_constants.py:16-40,
\* _verdict_constants.py:58-67).
AgreementWasCorrected ==
  /\ \A i \in DOMAIN transcript :
       CountMarkers(transcript[i].text, VERDICT_AGREEMENT_MARKERS) > 0
         => <<transcript[i].side, transcript[i].round>> \in nudges
  /\ verdict # None /\ verdict.converged =>
       \A s \in Sides : (\E r \in 1 .. Rounds : <<s, r>> \in nudges) \/ SideAgreement(closing, s) > 0

PriceOf(m) == GetModelPrice(result.table, ModelOf(m.side))
CostOf(m) == m.input * PriceOf(m).input + m.output * PriceOf(m).output
Costs(messages) == SumFunction([i \in DOMAIN messages |-> CostOf(messages[i])])

\* The result charges every turn once, at the price of the model that spoke:
\* totals, breakdowns by agent and by round, and the cost table add up to the
\* messages, whether or not the sides share a model, and pooling the costs of
\* the rounds and of the closing gives those of the run (breakdown.py:69-137).
MoneyAddsUp ==
  result # None =>
    LET b == result.cost_breakdown
        t == result.totals
        All(grouped) == [input  |-> SumFunction([k \in DOMAIN grouped |-> grouped[k].input]),
                         output |-> SumFunction([k \in DOMAIN grouped |-> grouped[k].output])]
    IN  /\ b.cost = Costs(Spoken)
        /\ [input |-> b.input, output |-> b.output] = t.usage
        /\ All(t.by_agent) = t.usage /\ All(t.by_round) = t.usage
        /\ b = AggregateCosts(CostBreakdownFromResult(transcript, result.table),
                              CostBreakdownFromResult(closing, result.table))

\* An overrun is told exactly when the messages cost more than a positive cap,
\* and a run that is told its cost is one whose every turn was charged: a run
\* lost to the price table was judged, and is never alerted
\* (_cost.py:24-52, _budget.py:22-47).
OverrunIsTold ==
  /\ stage = "done" =>
       (alert <=> config.budget_usd > 0 /\ Costs(Spoken) > config.budget_usd)
  /\ stage = "lost" => ~alert /\ result = None /\ (verdict = None <=> Answered = {})

\* The money of a run adds up and is told (the two above).
MoneyIsTold == MoneyAddsUp /\ OverrunIsTold
=============================================================================
