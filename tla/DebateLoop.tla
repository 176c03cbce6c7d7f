----------------------------- MODULE DebateLoop -----------------------------
(***************************************************************************)
(* One debate run (engine/loop.py): Pro turn, drift check, forward, Con    *)
(* turn, drift check, forward, round after round, then the closing         *)
(* statements and the verdict.  The run is one thread; what varies is what *)
(* each model call comes back with: an argument (on its side, captured by  *)
(* the opponent, or blank; within the word limit or longer), a FAILED turn *)
(* or an error nobody catches.  How a call gets there is TurnCall.         *)
(*                                                                         *)
(* A message is a record: who argued, in which numbered round, in which    *)
(* style, whether it was trimmed, whether it is the FAILED marker.  Two    *)
(* consumers read the run's events: the JSONL log gets every one, the live *)
(* sink those emitted with emit_event.                                     *)
(***************************************************************************)
EXTENDS Integers, Sequences, SequencesExt, FiniteSets

CONSTANTS
  Rounds,     \* config.rounds
  NoMessage   \* Python's None where a message or a frame is expected

ASSUME DebateLoopAssumption == Rounds \in Nat \ {0}

Pro == "pro"
Con == "con"
Sides == {Pro, Con}
Opponent(s) == IF s = Pro THEN Con ELSE Pro

VARIABLES
  stage,       \* what the run does next
  round,       \* round_ of run_debate_loop
  side,        \* whose turn it is
  transcript,  \* the numbered turns, FAILED markers included
  closing,     \* closing_discussion
  nudges,      \* the corrections handed out, as (target, round)
  forwarded,   \* side -> the frame it rebuts next: forwarded_to_pro / _con
  context,     \* side -> its AgentContext: what its next call is given
  logged,      \* events written to the run's JSONL log, in order
  verdict      \* the positions of what the verdict was drawn from, none before it

vars == <<stage, round, side, transcript, closing, nudges, forwarded, context,
          logged, verdict>>

-----------------------------------------------------------------------------
Styles == {"on_side", "captured", "blank"}

Message(s, r, style, long) ==
  [side |-> s, round |-> r, style |-> style, trimmed |-> long, failed |-> FALSE]

\* TURN_FAILED_CONTENT: a text that holds no drift phrase.
FailedMarker(s, r) ==
  [side |-> s, round |-> r, style |-> "marker", trimmed |-> FALSE, failed |-> TRUE]

Entry(kind, about) == [kind |-> kind, about |-> about]
Event(kind, about) == [kind |-> kind, about |-> about]

\* The events of the gatekeeper and of the budget check are written with
\* log_event: the sink never sees them.
LogOnly == {"api_call", "budget_alert"}
Streamed == {p \in DOMAIN logged : logged[p].kind \notin LogOnly}

\* create_debate_contexts; the controller's own context stays empty.
EmptyContexts == [s \in Sides |-> <<>>]

Told(s, entry) == context' = [context EXCEPT ![s] = Append(@, entry)]

\* Mutant: the event carries the model's text, not the enforced one.
SaidRaw(kind, message) ==
  <<Event("api_call", NoMessage), Event(kind, [message EXCEPT !.trimmed = FALSE])>>

\* enforce_word_limit logs before the message itself is recorded.  The event of
\* a closing statement is a message event with a tag.
Said(kind, message) ==
  <<Event("api_call", NoMessage)>>
  \o (IF message.trimmed THEN <<Event("word_limit", NoMessage)>> ELSE <<>>)
  \o <<Event(kind, message)>>

-----------------------------------------------------------------------------
(* run_debate_turn, called by _turn, which appends to the transcript. *)

\* anchor_turn folds the controller's frame into the side anchor.
Anchor(s) == Entry("anchor", forwarded[s])

Argue ==
  /\ stage = "turn"
  /\ \E style \in Styles, long \in BOOLEAN :
       LET message == Message(side, round, style, long)
       IN  /\ ~(style = "blank" /\ long)
           /\ context' = [context EXCEPT ![side] =
                            @ \o <<Anchor(side), Entry("reply", message)>>]
           /\ transcript' = Append(transcript, message)
           /\ logged' = logged \o Said("message", message)
  /\ stage' = "drift"
  /\ UNCHANGED <<round, side, closing, nudges, forwarded, verdict>>

FailArgument ==
  /\ stage = "turn"
  /\ Told(side, Anchor(side))
  /\ transcript' = Append(transcript, FailedMarker(side, round))
  /\ logged' = Append(logged, Event("turn_failed", NoMessage))
  /\ stage' = "drift"
  /\ UNCHANGED <<round, side, closing, nudges, forwarded, verdict>>

\* An error that is not transient, or a queued call.
LoseArgument ==
  /\ stage = "turn"
  /\ Told(side, Anchor(side))
  /\ stage' = "crashed"
  /\ UNCHANGED <<round, side, transcript, closing, nudges, forwarded, logged, verdict>>

-----------------------------------------------------------------------------
(* _drift: every turn is checked, the FAILED marker too. *)

Latest == Last(transcript)

\* Mutant: the correction goes to the agent that captured the other.
NudgedOpponent(s) == Opponent(s)

Nudged(s) == s

\* Mutant: Con's turns are not checked.
CapturedPro == side = Pro /\ Latest.style = "captured"

Captured == Latest.style = "captured"

DriftCheck ==
  /\ stage = "drift" /\ Latest.style # "blank"
  /\ IF Captured
       THEN /\ nudges' = Append(nudges, <<side, round>>)
            /\ Told(Nudged(side), Entry("nudge", Latest))
            /\ logged' = Append(logged, Event("nudge", Latest))
       ELSE UNCHANGED <<nudges, context, logged>>
  /\ stage' = "forward"
  /\ UNCHANGED <<round, side, transcript, closing, forwarded, verdict>>

\* DriftRequest refuses a message that is empty once stripped.
DriftRefused ==
  /\ stage = "drift" /\ Latest.style = "blank"
  /\ stage' = "crashed"
  /\ UNCHANGED <<round, side, transcript, closing, nudges, forwarded, context, logged, verdict>>

-----------------------------------------------------------------------------
(* _forward, and on to the next turn. *)

\* Mutant: a FAILED turn leaves the frame of the round before in place.
FrameKept(s) == IF Latest.failed THEN forwarded[s] ELSE Latest

\* What s rebuts next: the opponent's turn, nothing when that turn failed.
Frame(s) == IF Latest.failed THEN NoMessage ELSE Latest

LastTurn == side = Con /\ round = Rounds

Forward ==
  /\ stage = "forward"
  /\ forwarded' = [forwarded EXCEPT ![Opponent(side)] = Frame(Opponent(side))]
  /\ logged' = IF Latest.failed THEN logged ELSE Append(logged, Event("relay", Latest))
  /\ stage' = IF LastTurn THEN "closing" ELSE "turn"
  /\ side' = Opponent(side)
  /\ round' = IF side = Con /\ ~LastTurn THEN round + 1 ELSE round
  /\ UNCHANGED <<transcript, closing, nudges, context, verdict>>

-----------------------------------------------------------------------------
(* run_closing_discussion: CLOSING_EXCHANGES = 1, a FAILED one is skipped. *)

ClosingPrompt == Entry("closing_prompt", NoMessage)

\* The message is stamped CLOSING_ROUND + 1, its event CLOSING_ROUND.
ClosingStamp == 1

AfterClosing ==
  /\ stage' = IF side = Con THEN "judge" ELSE "closing"
  /\ side' = Opponent(side)

Close ==
  /\ stage = "closing"
  /\ \E style \in Styles, long \in BOOLEAN :
       LET message == Message(side, ClosingStamp, style, long)
       IN  /\ ~(style = "blank" /\ long)
           /\ context' = [context EXCEPT ![side] =
                            @ \o <<ClosingPrompt, Entry("reply", message)>>]
           /\ closing' = Append(closing, message)
           /\ logged' = logged \o Said("closing_message", message)
  /\ AfterClosing
  /\ UNCHANGED <<round, transcript, nudges, forwarded, verdict>>

FailClosing ==
  /\ stage = "closing"
  /\ Told(side, ClosingPrompt)
  /\ logged' = Append(logged, Event("turn_failed", NoMessage))
  /\ AfterClosing
  /\ UNCHANGED <<round, transcript, closing, nudges, forwarded, verdict>>

LoseClosing ==
  /\ stage = "closing"
  /\ Told(side, ClosingPrompt)
  /\ stage' = "crashed"
  /\ UNCHANGED <<round, side, transcript, closing, nudges, forwarded, logged, verdict>>

-----------------------------------------------------------------------------
(* The verdict and the budget check; Outcome has how they are computed.  A run *)
(* in which nobody said anything has no verdict.                               *)

Spoken == transcript \o closing

\* Mutant: the verdict is drawn from the numbered rounds alone.
JudgedRoundsOnly == {i \in DOMAIN transcript : ~transcript[i].failed}

\* The positions in Spoken of what the verdict is drawn from, in that order.
Judged == {i \in DOMAIN Spoken : ~Spoken[i].failed}

VerdictRefused == \E i \in Judged : Spoken[i].style = "blank"

\* render_loop_verdict, price_result and check_run_budget: the run may turn out
\* to be over its budget.
Judge ==
  /\ stage = "judge" /\ ~VerdictRefused
  /\ verdict' = Judged
  /\ \E alert \in {<<>>, <<Event("budget_alert", NoMessage)>>} :
       logged' = logged
                 \o (IF Judged = {} THEN <<>> ELSE <<Event("verdict", NoMessage)>>)
                 \o alert
  /\ stage' = "done"
  /\ UNCHANGED <<round, side, transcript, closing, nudges, forwarded, context>>

\* TranscriptTurn refuses a blank text: only a closing statement gets this far.
JudgeRefused ==
  /\ stage = "judge" /\ VerdictRefused
  /\ stage' = "crashed"
  /\ UNCHANGED <<round, side, transcript, closing, nudges, forwarded, context, logged, verdict>>

Over == stage \in {"done", "crashed"} /\ UNCHANGED vars

Init ==
  /\ stage = "turn" /\ round = 1 /\ side = Pro
  /\ transcript = <<>> /\ closing = <<>> /\ nudges = <<>> /\ logged = <<>>
  /\ forwarded = [s \in Sides |-> NoMessage]
  /\ context = EmptyContexts
  /\ verdict = {}

Next ==
  \/ Argue \/ FailArgument \/ LoseArgument
  \/ DriftCheck \/ DriftRefused \/ Forward
  \/ Close \/ FailClosing \/ LoseClosing
  \/ Judge \/ JudgeRefused \/ Over

Spec == Init /\ [][Next]_vars

-----------------------------------------------------------------------------
Messages == [side : Sides, round : 1 .. Rounds, style : Styles \cup {"marker"},
             trimmed : BOOLEAN, failed : BOOLEAN]
Kinds == {"anchor", "nudge", "closing_prompt", "reply"}
EventKinds == LogOnly \cup {"message", "closing_message", "word_limit", "turn_failed", "nudge", "relay", "verdict"}
Entries == [kind : Kinds, about : Messages \cup {NoMessage}]
Events == [kind : EventKinds, about : Messages \cup {NoMessage}]

\* Every variable ranges over what the code keeps in it.
TypeOK ==
  /\ stage \in {"turn", "drift", "forward", "closing", "judge", "done", "crashed"}
  /\ round \in 1 .. Rounds /\ side \in Sides
  /\ transcript \in Seq(Messages) /\ closing \in Seq(Messages)
  /\ nudges \in Seq(Sides \X (1 .. Rounds))
  /\ forwarded \in [Sides -> Messages \cup {NoMessage}]
  /\ context \in [Sides -> Seq(Entries)] /\ logged \in Seq(Events)

\* The prompts of s for a numbered turn among the first i entries of its context.
Anchors(s, i) == {j \in 1 .. i : context[s][j].kind = "anchor"}

\* The position of the turn a side answers in round r: Con answers the same
\* round's Pro turn, Pro the previous round's Con turn; 0 before the first turn.
AnsweredAt(s, r) == IF s = Con THEN 2 * r - 1 ELSE 2 * r - 2

\* What s rebuts in round r: nothing when the turn it would answer FAILED.
Answers(s, r) ==
  IF AnsweredAt(s, r) = 0 THEN NoMessage ELSE
  IF transcript[AnsweredAt(s, r)].failed THEN NoMessage ELSE transcript[AnsweredAt(s, r)]

\* A debater rebuts its opponent's turn just before its own, as trimmed, and
\* nothing when that one FAILED: never a FAILED marker nor a frame left over
\* from an earlier round.  Its r-th prompt holds what it answers in round r
\* (loop.py:99-134).
RebutsLatest ==
  \A s \in Sides : \A i \in DOMAIN context[s] :
    context[s][i].kind = "anchor" =>
      context[s][i].about = Answers(s, Cardinality(Anchors(s, i)))

\* What a debater's calls are given is its own: its own replies, the frames the
\* controller forwarded to it and corrections of its own drift.  No reply or
\* correction of the opponent reaches it (agents/context.py:73-82).
ContextsIsolated ==
  \A s \in Sides : \A i \in DOMAIN context[s] :
    LET e == context[s][i]
    IN  e.about # NoMessage =>
          e.about.side = (IF e.kind = "anchor" THEN Opponent(s) ELSE s)

\* A captured debater is corrected once per captured turn, before its next
\* prompt: every captured reply of a numbered round is followed at once by its
\* correction, and there is no correction without one (loop.py:217-244).
CorrectedBeforeNextTurn ==
  \A s \in Sides : \A i \in DOMAIN context[s] :
    LET e == context[s][i]
    IN  /\ e.kind = "nudge" => i > 1 /\ context[s][i - 1] = Entry("reply", e.about)
        /\ (e.kind = "anchor" \/ e.kind = "closing_prompt") /\ i > 1 =>
             ~(context[s][i - 1].kind = "reply" /\ context[s][i - 1].about.style = "captured")

\* What a debater is told is its own and in order (the two above).
ContextsSound == ContextsIsolated /\ CorrectedBeforeNextTurn

\* What the streamed events of a kind tell of, by their positions.
StreamedAs(kind) == {p \in Streamed : logged[p].kind = kind}
Tale(kind) == [p \in StreamedAs(kind) |-> logged[p].about]
Corrections == [p \in StreamedAs("nudge") |-> <<logged[p].about.side, logged[p].about.round>>]

\* The answered ones of the first n turns.
AnsweredTurns(n) == [i \in {k \in 1 .. n : ~transcript[k].failed} |-> transcript[i]]

\* A tale is of its subjects and of nothing else, of each once, in their order.
Tells(tale, subjects) ==
  /\ \A p \in DOMAIN tale : \E i \in DOMAIN subjects : tale[p] = subjects[i]
  /\ \A i \in DOMAIN subjects : \E p \in DOMAIN tale : tale[p] = subjects[i]
  /\ \A p, q \in DOMAIN tale, i, j \in DOMAIN subjects :
       p < q /\ tale[p] = subjects[i] /\ tale[q] = subjects[j] => i < j

\* The live consumer can rebuild the run: the messages streamed so far are the
\* answered turns as recorded, the closing events the closing statements, the
\* relays those turns again, all but the one under way, the nudges the run's
\* corrections, each told once, in order, and no relay or nudge before the
\* message it is about; the verdict is the last event and is told when there is
\* one (_stream.py:72-103).
StreamTellsTheRun ==
  /\ Tells(Tale("message"), AnsweredTurns(Len(transcript)))
  /\ Tells(Tale("closing_message"), closing)
  /\ Tells(Corrections, nudges)
  /\ \E n \in {Len(transcript) - 1, Len(transcript)} : Tells(Tale("relay"), AnsweredTurns(n))
  /\ \A p \in StreamedAs("nudge") \cup StreamedAs("relay") :
       \E q \in StreamedAs("message") : q < p /\ logged[q].about = logged[p].about
  /\ verdict # {} => StreamedAs("verdict") # {}
  /\ \A p \in StreamedAs("verdict") : verdict # {} /\ \A q \in Streamed : q <= p

\* A run that completes has 2 * rounds turns, Pro and Con in alternation, and
\* is judged on every argument made, closing statements included and FAILED
\* turns excluded; the verdict is missing only when nobody said anything.
JudgedOnEverything ==
  stage = "done" =>
    /\ Len(transcript) = 2 * Rounds
    /\ \A i \in DOMAIN transcript :
         transcript[i].side = (IF i % 2 = 1 THEN Pro ELSE Con) /\ transcript[i].round = (i + 1) \div 2
    /\ Cardinality({i \in DOMAIN transcript : ~transcript[i].failed}) + Len(closing)
         = Cardinality(verdict)
=============================================================================
