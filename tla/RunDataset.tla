----------------------------- MODULE RunDataset -----------------------------
(***************************************************************************)
(* The rows of the results dataset, read back from the JSONL log of a run  *)
(* (research/_parse.py, _summary.py, _aggregate.py, analysis.py).          *)
(* DebateLoop writes the log; this module is what the dataset makes of it. *)
(* A count of messages stands for every quantity summed over them.         *)
(***************************************************************************)
EXTENDS DebateLoop

\* DebateEngine.run logs its set-up before the first turn, stream does not.
SetupEvents == {<<>>, <<Event("debate_setup", NoMessage)>>}

CLOSING_ROUND == 0

\* Mutant: the event of a closing statement has the round of its message.
RoundOfMessage(line) == line.about.round

\* The round an event is logged with.
RoundOf(line) == IF line.kind = "closing_message" THEN CLOSING_ROUND ELSE line.about.round

\* A nudge event is the controller's, and its payload names its target.
AgentOf(line) == IF line.kind = "nudge" THEN "controller" ELSE line.about.side
Payload(line) == [target |-> line.about.side]

\* _on_nudge asks the payload for "side", and else takes the agent.
NudgedSide(line) ==
  IF "side" \in DOMAIN Payload(line) THEN Payload(line)["side"] ELSE AgentOf(line)

IsMessage(line) == line.kind \in {"message", "closing_message"}

-----------------------------------------------------------------------------
RunSummaryEmpty ==
  [topic |-> FALSE, rounds |-> 0, judged |-> FALSE,
   messages |-> [s \in Sides |-> 0], nudges |-> [s \in Sides |-> 0]]

OnMessage(acc, line) ==
  [acc EXCEPT !.messages[AgentOf(line)] = @ + 1,
              !.rounds = IF RoundOf(line) > @ THEN RoundOf(line) ELSE @]

OnNudge(acc, line) ==
  IF NudgedSide(line) \in Sides THEN [acc EXCEPT !.nudges[NudgedSide(line)] = @ + 1] ELSE acc

\* Events of every other kind have no handler, or one that looks for the set-up.
Consume(acc, line) ==
  CASE IsMessage(line)             -> OnMessage(acc, line)
    [] line.kind = "nudge"         -> OnNudge(acc, line)
    [] line.kind = "verdict"       -> [acc EXCEPT !.judged = TRUE]
    [] line.kind = "debate_setup"  -> [acc EXCEPT !.topic = TRUE]
    [] OTHER                       -> acc

ParseRun(lines) == FoldLeft(Consume, RunSummaryEmpty, lines)

IsDebateRun(lines) == \E i \in DOMAIN lines : lines[i].kind \in {"verdict", "debate_setup"}

\* The rows of one run's file.
AggregateRuns(lines) == IF IsDebateRun(lines) THEN {ParseRun(lines)} ELSE {}

\* One row for each round that has message events, split by side.
MessageLines(lines) == {p \in DOMAIN lines : IsMessage(lines[p])}

RoundMetrics(lines) ==
  LET Of(r, s) == {p \in MessageLines(lines) : RoundOf(lines[p]) = r /\ AgentOf(lines[p]) = s}
  IN  [r \in {RoundOf(lines[p]) : p \in MessageLines(lines)} |->
         [s \in Sides |-> Cardinality(Of(r, s))]]

-----------------------------------------------------------------------------
\* What s said, and in which of the numbered rounds anybody spoke.
By(messages, s) == {i \in DOMAIN messages : ~messages[i].failed /\ messages[i].side = s}
ByIn(messages, s, r) == {i \in By(messages, s) : messages[i].round = r}
Spoke == {transcript[i].round : i \in DOMAIN AnsweredTurns(Len(transcript))}

\* The dataset and the DebateResult are two accounts of one run, and agree on
\* everything but the corrections: the row counts each side's answered turns and
\* closing statement, its rounds are those somebody spoke in, it has a winner
\* exactly when the run has a verdict, and its rounds add up to it, with the
\* closing apart.  A debate that was judged, or set up by run, has its row
\* (_parse.py:38-118, analysis.py:106-157).
DatasetTellsTheRun ==
  \A setup \in SetupEvents :
    LET lines   == setup \o logged
        row     == ParseRun(lines)
        metrics == RoundMetrics(lines)
    IN  /\ row.messages = [s \in Sides |-> Cardinality(By(transcript, s)) + Cardinality(By(closing, s))]
        /\ row.rounds \in Spoke \cup {0} /\ \A r \in Spoke : r <= row.rounds
        /\ row.judged = (verdict # {}) /\ row.topic = (setup # <<>>)
        /\ DOMAIN metrics = Spoke \cup {r \in {CLOSING_ROUND} : closing # <<>>}
        /\ \A r \in DOMAIN metrics, s \in Sides :
             metrics[r][s] = Cardinality(IF r = CLOSING_ROUND THEN By(closing, s)
                                                              ELSE ByIn(transcript, s, r))
        /\ (AggregateRuns(lines) = {row}) = (setup # <<>> \/ verdict # {})

\* What RunSummary says of its columns: the corrections aimed at each side are
\* counted for that side (_summary.py:34-35).
NudgesCounted ==
  \A s \in Sides :
    ParseRun(logged).nudges[s] = Len(SelectSeq(nudges, LAMBDA n : n[1] = s))
=============================================================================
