--------------------------- MODULE DebateLoopProofs ---------------------------
(***************************************************************************)
(* For any number of rounds: the types of a debate run, that what its      *)
(* debaters are told is their own and in order, that each rebuts the       *)
(* turn just before its own unless it FAILED, that the verdict is drawn from every argument, and     *)
(* that the live stream, and the dataset read back from the log, tell the  *)
(* run as the result has it, and that a run runs out.                      *)
(*                                                                         *)
(* The argument: a captured reply is the last entry of its debater's       *)
(* context only until the drift check that follows it, or once the debater *)
(* will not be asked again; the frame it rebuts is always its opponent's,  *)
(* of the turn just before; and turns, prompts and rounds are counted      *)
(* together.                                                               *)
(***************************************************************************)
EXTENDS RunDataset, FiniteSetTheorems, TLAPS

CapturedReply(entry) == entry.kind = "reply" /\ entry.about.style = "captured"

\* The turn just taken is the side's own, and its reply, when it was captured,
\* is what the side's context ends with.
LatestIsOwn ==
  /\ stage \in {"drift", "forward"} => Len(transcript) > 0 /\ Latest.side = side
  /\ stage = "drift" /\ Latest.style = "captured" =>
       Len(context[side]) > 0 /\ context[side][Len(context[side])] = Entry("reply", Latest)
  /\ stage = "drift" /\ Len(context[side]) > 0 /\ CapturedReply(context[side][Len(context[side])]) =>
       Latest.style = "captured"

FramesAreOpponents ==
  \A s \in Sides : forwarded[s] # NoMessage => forwarded[s].side = Opponent(s)

\* The side is not asked again before a correction, or not at all.
Corrected(s) ==
  Len(context[s]) > 0 /\ CapturedReply(context[s][Len(context[s])]) =>
    \/ stage = "drift" /\ s = side
    \/ stage \in {"judge", "done", "crashed"}
    \/ stage = "closing" /\ side = Con /\ s = Pro

CorrectedInTime == \A s \in Sides : Corrected(s)

\* A context entry by entry: whose it is, and what it may come after.
OwnEntry(s, e) ==
  e.about # NoMessage => e.about.side = (IF e.kind = "anchor" THEN Opponent(s) ELSE s)

Follows(before, e) ==
  /\ e.kind = "nudge" => before = Entry("reply", e.about)
  /\ e.kind \in {"anchor", "closing_prompt"} => ~CapturedReply(before)

GoodContext(s, c) ==
  /\ \A i \in 1 .. Len(c) : OwnEntry(s, c[i])
  /\ \A i \in 1 .. Len(c) : i > 1 => Follows(c[i - 1], c[i])
  /\ Len(c) > 0 => c[1].kind # "nudge"

GoodContexts == \A s \in Sides : GoodContext(s, context[s])

IInv ==
  TypeOK /\ LatestIsOwn /\ FramesAreOpponents /\ CorrectedInTime /\ GoodContexts

-----------------------------------------------------------------------------
(* Messages, entries and contexts *)

LEMMA SidesTwo ==
  /\ Pro \in Sides /\ Con \in Sides /\ Pro # Con
  /\ \A s \in Sides : Opponent(s) \in Sides /\ Opponent(s) # s /\ Opponent(Opponent(s)) = s
  BY DEF Sides, Pro, Con, Opponent

LEMMA MessageTyped ==
  ASSUME NEW s \in Sides, NEW r \in 1 .. Rounds, NEW style \in Styles, NEW long \in BOOLEAN
  PROVE  /\ Message(s, r, style, long) \in Messages
         /\ Message(s, r, style, long).side = s /\ Message(s, r, style, long).style = style
         /\ FailedMarker(s, r) \in Messages
         /\ FailedMarker(s, r).side = s /\ FailedMarker(s, r).style = "marker"
  BY DEF Message, FailedMarker, Messages

LEMMA EntryTyped ==
  ASSUME NEW kind \in Kinds, NEW about \in Messages \cup {NoMessage}
  PROVE  /\ Entry(kind, about) \in Entries
         /\ Entry(kind, about).kind = kind /\ Entry(kind, about).about = about
  BY DEF Entry, Entries

LEMMA EventTyped ==
  ASSUME NEW kind \in EventKinds, NEW about \in Messages \cup {NoMessage}
  PROVE  Event(kind, about) \in Events
  BY DEF Event, Events

LEMMA LoggedTyped ==
  ASSUME logged \in Seq(Events), NEW kind \in EventKinds, NEW about \in Messages \cup {NoMessage},
         logged' = Append(logged, Event(kind, about))
  PROVE  logged' \in Seq(Events)
<1>1. Event(kind, about) \in Events
  BY EventTyped
<1> QED
  BY <1>1

LEMMA AppendGood ==
  ASSUME NEW s \in Sides, NEW c \in Seq(Entries), NEW e \in Entries,
         GoodContext(s, c), OwnEntry(s, e),
         Len(c) = 0 => e.kind # "nudge",
         Len(c) > 0 => Follows(c[Len(c)], e)
  PROVE  /\ Append(c, e) \in Seq(Entries) /\ GoodContext(s, Append(c, e))
         /\ Len(Append(c, e)) > 0 /\ Append(c, e)[Len(Append(c, e))] = e
<1> DEFINE d == Append(c, e)
<1>1. d \in Seq(Entries) /\ Len(d) = Len(c) + 1 /\ Len(c) \in Nat
      /\ d[Len(d)] = e /\ \A i \in 1 .. Len(c) : d[i] = c[i]
  OBVIOUS
<1> HIDE DEF d
<1>2. \A i \in 1 .. Len(d) : OwnEntry(s, d[i])
  BY <1>1 DEF GoodContext
<1>3. \A i \in 1 .. Len(d) : i > 1 => Follows(d[i - 1], d[i])
  <2>1. SUFFICES ASSUME NEW i \in 1 .. Len(d), i > 1 PROVE Follows(d[i - 1], d[i])
    OBVIOUS
  <2>2. CASE i <= Len(c)
    <3>1. i \in 1 .. Len(c) /\ i - 1 \in 1 .. Len(c)
      BY <1>1, <2>1, <2>2
    <3> QED
      BY <1>1, <2>1, <3>1 DEF GoodContext
  <2>3. CASE i = Len(c) + 1
    <3>1. i - 1 \in 1 .. Len(c) /\ i - 1 = Len(c)
      BY <1>1, <2>1, <2>3
    <3> QED
      BY <1>1, <2>3, <3>1
  <2> QED
    BY <1>1, <2>1, <2>2, <2>3
<1>4. d[1].kind # "nudge"
  BY <1>1 DEF GoodContext
<1>5. GoodContext(s, d)
  BY <1>2, <1>3, <1>4 DEF GoodContext
<1> QED
  BY <1>1, <1>5 DEF d

\* A prompt and its reply, as Argue and Close put them in the side's context.
LEMMA ExchangeGood ==
  ASSUME NEW s \in Sides, NEW c \in Seq(Entries), NEW a \in Entries, NEW r \in Entries,
         GoodContext(s, c), OwnEntry(s, a), OwnEntry(s, r),
         a.kind \in {"anchor", "closing_prompt"}, r.kind = "reply",
         Len(c) > 0 => ~CapturedReply(c[Len(c)])
  PROVE  LET d == c \o <<a, r>>
         IN  d \in Seq(Entries) /\ GoodContext(s, d) /\ Len(d) > 0 /\ d[Len(d)] = r
<1> DEFINE b == Append(c, a)
<1>1. c \o <<a, r>> = Append(b, r)
  OBVIOUS
<1>2. b \in Seq(Entries) /\ GoodContext(s, b) /\ Len(b) > 0 /\ b[Len(b)] = a
  <2>1. Len(c) > 0 => Follows(c[Len(c)], a)
    BY DEF Follows
  <2> QED
    BY <2>1, AppendGood
<1> HIDE DEF b
<1>3. Follows(b[Len(b)], r) /\ r.kind # "nudge"
  BY <1>2 DEF Follows
<1>4. /\ Append(b, r) \in Seq(Entries) /\ GoodContext(s, Append(b, r))
      /\ Len(Append(b, r)) > 0 /\ Append(b, r)[Len(Append(b, r))] = r
  BY <1>2, <1>3, AppendGood
<1> QED
  BY <1>1, <1>4

-----------------------------------------------------------------------------
(* Every action keeps the invariant. *)

\* One side's context changes into a good one.
LEMMA OneContext ==
  ASSUME IInv, NEW s \in Sides, NEW c \in Seq(Entries), GoodContext(s, c),
         context' = [context EXCEPT ![s] = c]
  PROVE  /\ context' \in [Sides -> Seq(Entries)] /\ GoodContexts'
         /\ context'[s] = c /\ \A t \in Sides \ {s} : context'[t] = context[t]
  BY DEF IInv, TypeOK, GoodContexts

LEMMA Typed ==
  ASSUME IInv
  PROVE  /\ side \in Sides /\ round \in 1 .. Rounds /\ forwarded[side] \in Messages \cup {NoMessage}
         /\ context[side] \in Seq(Entries) /\ GoodContext(side, context[side])
         /\ transcript \in Seq(Messages)
  BY DEF IInv, TypeOK, GoodContexts

LEMMA SaidTyped ==
  ASSUME NEW message \in Messages, NEW kind \in {"message", "closing_message"}
  PROVE  Said(kind, message) \in Seq(Events)
<1>1. /\ Event("api_call", NoMessage) \in Events /\ Event("word_limit", NoMessage) \in Events
      /\ Event(kind, message) \in Events
  BY EventTyped DEF EventKinds, LogOnly
<1> QED
  BY <1>1 DEF Said

LEMMA InitEstablishes == Init => IInv
<1> SUFFICES ASSUME Init PROVE IInv
  OBVIOUS
<1>1. TypeOK
  <2>1. 1 \in 1 .. Rounds
    BY DebateLoopAssumption
  <2> QED
    BY <2>1, SidesTwo DEF Init, EmptyContexts, TypeOK
<1>2. LatestIsOwn /\ FramesAreOpponents /\ CorrectedInTime /\ GoodContexts
  BY DEF Init, EmptyContexts, LatestIsOwn, FramesAreOpponents, CorrectedInTime, Corrected, GoodContexts,
         GoodContext
<1> QED
  BY <1>1, <1>2 DEF IInv

\* The prompt of a numbered turn.
LEMMA AnchorGood ==
  ASSUME IInv, stage = "turn"
  PROVE  /\ Anchor(side) \in Entries /\ OwnEntry(side, Anchor(side))
         /\ Anchor(side).kind = "anchor"
         /\ Len(context[side]) > 0 => ~CapturedReply(context[side][Len(context[side])])
<1>1. /\ Anchor(side) \in Entries /\ Anchor(side).kind = "anchor"
      /\ Anchor(side).about = forwarded[side]
  BY Typed, EntryTyped DEF Anchor, Kinds
<1>2. OwnEntry(side, Anchor(side))
  BY <1>1, Typed DEF IInv, FramesAreOpponents, OwnEntry
<1>3. Len(context[side]) > 0 => ~CapturedReply(context[side][Len(context[side])])
  BY Typed DEF IInv, CorrectedInTime, Corrected
<1> QED
  BY <1>1, <1>2, <1>3

LEMMA ArgueKeeps == IInv /\ Argue => IInv'
<1> SUFFICES ASSUME IInv, Argue PROVE IInv'
  OBVIOUS
<1>1. PICK style \in Styles, long \in BOOLEAN :
        LET message == Message(side, round, style, long)
        IN  /\ ~(style = "blank" /\ long)
            /\ context' = [context EXCEPT ![side] = @ \o <<Anchor(side), Entry("reply", message)>>]
            /\ transcript' = Append(transcript, message)
            /\ logged' = logged \o Said("message", message)
  BY DEF Argue
<1> DEFINE message == Message(side, round, style, long)
           c == context[side] \o <<Anchor(side), Entry("reply", message)>>
<1>2. message \in Messages /\ message.side = side
  BY Typed, MessageTyped
<1>3. context' = [context EXCEPT ![side] = c]
  BY <1>1
<1>4. transcript' = Append(transcript, message) /\ logged' = logged \o Said("message", message)
  BY <1>1
<1> HIDE DEF message
<1>5. /\ Entry("reply", message) \in Entries /\ OwnEntry(side, Entry("reply", message))
      /\ Entry("reply", message).kind = "reply"
  BY <1>2, EntryTyped DEF Kinds, OwnEntry
<1>6. c \in Seq(Entries) /\ GoodContext(side, c) /\ Len(c) > 0 /\ c[Len(c)] = Entry("reply", message)
  BY <1>5, Typed, AnchorGood, ExchangeGood DEF Argue
<1> HIDE DEF c
<1>7. /\ context' \in [Sides -> Seq(Entries)] /\ GoodContexts'
      /\ context'[side] = c /\ \A t \in Sides \ {side} : context'[t] = context[t]
  BY <1>3, <1>6, Typed, OneContext
<1>8. /\ transcript' \in Seq(Messages) /\ Len(transcript') > 0
      /\ transcript'[Len(transcript')] = message
  BY <1>2, <1>4, Typed
<1>9. logged' \in Seq(Events)
  BY <1>2, <1>4, SaidTyped DEF IInv, TypeOK
<1>10. TypeOK'
  BY <1>7, <1>8, <1>9 DEF Argue, IInv, TypeOK
<1>11. LatestIsOwn'
  <2>1. stage' = "drift" /\ side' = side /\ Latest' = message /\ context'[side'] = c
    BY <1>7, <1>8 DEF Argue, Latest, Last
  <2>2. CapturedReply(Entry("reply", message)) => message.style = "captured"
    BY <1>2, EntryTyped DEF CapturedReply, Kinds
  <2> QED
    BY <1>2, <1>6, <1>8, <2>1, <2>2 DEF LatestIsOwn
<1>12. FramesAreOpponents'
  BY DEF Argue, IInv, FramesAreOpponents
<1>13. CorrectedInTime'
  BY <1>7 DEF Argue, IInv, CorrectedInTime, Corrected
<1> QED
  BY <1>7, <1>10, <1>11, <1>12, <1>13 DEF IInv

\* One entry is added to the side's context.
LEMMA ToldGood ==
  ASSUME IInv, NEW e \in Entries, OwnEntry(side, e),
         Len(context[side]) = 0 => e.kind # "nudge",
         Len(context[side]) > 0 => Follows(context[side][Len(context[side])], e),
         Told(side, e)
  PROVE  /\ context' \in [Sides -> Seq(Entries)] /\ GoodContexts'
         /\ Len(context'[side]) > 0 /\ context'[side][Len(context'[side])] = e
         /\ \A t \in Sides \ {side} : context'[t] = context[t]
<1> DEFINE c == Append(context[side], e)
<1>1. c \in Seq(Entries) /\ GoodContext(side, c) /\ Len(c) > 0 /\ c[Len(c)] = e
  BY Typed, AppendGood
<1>2. context' = [context EXCEPT ![side] = c]
  BY DEF Told
<1> HIDE DEF c
<1> QED
  BY <1>1, <1>2, Typed, OneContext

LEMMA AnchorTold ==
  ASSUME IInv, stage = "turn", Told(side, Anchor(side))
  PROVE  /\ context' \in [Sides -> Seq(Entries)] /\ GoodContexts'
         /\ Len(context'[side]) > 0 /\ ~CapturedReply(context'[side][Len(context'[side])])
         /\ \A t \in Sides \ {side} : context'[t] = context[t]
<1>1. Len(context[side]) > 0 => Follows(context[side][Len(context[side])], Anchor(side))
  BY AnchorGood DEF Follows
<1> QED
  BY <1>1, AnchorGood, ToldGood DEF CapturedReply

LEMMA FailArgumentKeeps == IInv /\ FailArgument => IInv'
<1> SUFFICES ASSUME IInv, FailArgument PROVE IInv'
  OBVIOUS
<1> DEFINE marker == FailedMarker(side, round)
<1>1. marker \in Messages /\ marker.side = side /\ marker.style = "marker"
  BY Typed, MessageTyped DEF Styles
<1>2. transcript' = Append(transcript, marker)
  BY DEF FailArgument
<1> HIDE DEF marker
<1>3. /\ transcript' \in Seq(Messages) /\ Len(transcript') > 0
      /\ transcript'[Len(transcript')] = marker
  BY <1>1, <1>2, Typed
<1>4. /\ context' \in [Sides -> Seq(Entries)] /\ GoodContexts'
      /\ Len(context'[side]) > 0 /\ ~CapturedReply(context'[side][Len(context'[side])])
      /\ \A t \in Sides \ {side} : context'[t] = context[t]
  BY AnchorTold DEF FailArgument
<1>5. logged' \in Seq(Events)
  <2>1. logged \in Seq(Events) /\ "turn_failed" \in EventKinds
    BY DEF IInv, TypeOK, EventKinds
  <2> QED
    BY <2>1, LoggedTyped DEF FailArgument
<1>6. TypeOK'
  BY <1>3, <1>4, <1>5 DEF FailArgument, IInv, TypeOK
<1>7. LatestIsOwn'
  <2>1. stage' = "drift" /\ side' = side /\ Latest' = marker
    BY <1>3 DEF FailArgument, Latest, Last
  <2> QED
    BY <1>1, <1>3, <1>4, <2>1 DEF LatestIsOwn
<1>8. FramesAreOpponents' /\ CorrectedInTime'
  BY <1>4 DEF FailArgument, IInv, FramesAreOpponents, CorrectedInTime, Corrected
<1> QED
  BY <1>4, <1>6, <1>7, <1>8 DEF IInv

LEMMA LoseArgumentKeeps == IInv /\ LoseArgument => IInv'
<1> SUFFICES ASSUME IInv, LoseArgument PROVE IInv'
  OBVIOUS
<1>1. context' \in [Sides -> Seq(Entries)] /\ GoodContexts'
  BY AnchorTold DEF LoseArgument
<1>2. TypeOK'
  BY <1>1 DEF LoseArgument, IInv, TypeOK
<1>3. LatestIsOwn' /\ FramesAreOpponents' /\ CorrectedInTime'
  BY DEF LoseArgument, IInv, LatestIsOwn, FramesAreOpponents, CorrectedInTime, Corrected
<1> QED
  BY <1>1, <1>2, <1>3 DEF IInv

LEMMA LatestTyped ==
  ASSUME IInv, stage \in {"drift", "forward"}
  PROVE  Latest \in Messages /\ Latest.side = side /\ Len(transcript) > 0
  BY Typed DEF IInv, LatestIsOwn, Latest, Last

\* The correction of a captured turn follows its reply.
LEMMA NudgeTold ==
  ASSUME IInv, stage = "drift", Captured, Told(side, Entry("nudge", Latest))
  PROVE  /\ context' \in [Sides -> Seq(Entries)] /\ GoodContexts'
         /\ Len(context'[side]) > 0 /\ ~CapturedReply(context'[side][Len(context'[side])])
         /\ \A t \in Sides \ {side} : context'[t] = context[t]
<1> DEFINE e == Entry("nudge", Latest)
<1>1. e \in Entries /\ e.kind = "nudge" /\ e.about = Latest
  BY LatestTyped, EntryTyped DEF Kinds
<1>2. OwnEntry(side, e)
  BY <1>1, LatestTyped DEF OwnEntry
<1>3. Len(context[side]) > 0 /\ context[side][Len(context[side])] = Entry("reply", Latest)
  BY DEF IInv, LatestIsOwn, Captured
<1>4. Follows(context[side][Len(context[side])], e)
  BY <1>1, <1>3 DEF Follows
<1>5. Told(side, e)
  OBVIOUS
<1> HIDE DEF e
<1> QED
  BY <1>1, <1>2, <1>3, <1>4, <1>5, ToldGood DEF CapturedReply

LEMMA DriftCheckKeeps == IInv /\ DriftCheck => IInv'
<1> SUFFICES ASSUME IInv, DriftCheck PROVE IInv'
  OBVIOUS
<1>1. Latest \in Messages /\ Latest.side = side /\ Len(transcript) > 0
  BY LatestTyped DEF DriftCheck
<1>2. UNCHANGED <<round, side, transcript, closing, forwarded, verdict>> /\ stage' = "forward"
  BY DEF DriftCheck
<1>3. LatestIsOwn' /\ FramesAreOpponents'
  BY <1>1, <1>2 DEF IInv, LatestIsOwn, Latest, Last, FramesAreOpponents
<1>4. CASE Captured
  <2>1. /\ context' \in [Sides -> Seq(Entries)] /\ GoodContexts'
        /\ Len(context'[side]) > 0 /\ ~CapturedReply(context'[side][Len(context'[side])])
        /\ \A t \in Sides \ {side} : context'[t] = context[t]
    BY <1>4, NudgeTold DEF DriftCheck, Nudged
  <2>2. nudges' = Append(nudges, <<side, round>>) /\ logged' = Append(logged, Event("nudge", Latest))
    BY <1>4 DEF DriftCheck
  <2>3. nudges' \in Seq(Sides \X (1 .. Rounds)) /\ logged' \in Seq(Events)
    <3>1. nudges \in Seq(Sides \X (1 .. Rounds)) /\ logged \in Seq(Events) /\ "nudge" \in EventKinds
      BY DEF IInv, TypeOK, EventKinds
    <3>2. logged' \in Seq(Events)
      BY <1>1, <2>2, <3>1, LoggedTyped
    <3>3. <<side, round>> \in Sides \X (1 .. Rounds)
      BY Typed
    <3> QED
      BY <2>2, <3>1, <3>2, <3>3
  <2>4. TypeOK'
    BY <1>2, <2>1, <2>3 DEF IInv, TypeOK
  <2>5. CorrectedInTime'
    BY <1>2, <2>1 DEF DriftCheck, IInv, CorrectedInTime, Corrected
  <2> QED
    BY <1>3, <2>1, <2>4, <2>5 DEF IInv
<1>5. CASE ~Captured
  <2>1. UNCHANGED <<nudges, context, logged>>
    BY <1>5 DEF DriftCheck
  <2>2. TypeOK' /\ GoodContexts'
    BY <1>2, <2>1 DEF IInv, TypeOK, GoodContexts
  <2>3. CorrectedInTime'
    BY <1>2, <1>5, <2>1 DEF DriftCheck, Captured, IInv, CorrectedInTime, Corrected, LatestIsOwn
  <2> QED
    BY <1>3, <2>2, <2>3 DEF IInv
<1> QED
  BY <1>4, <1>5

LEMMA DriftRefusedKeeps == IInv /\ DriftRefused => IInv'
<1> SUFFICES ASSUME IInv, DriftRefused PROVE IInv'
  OBVIOUS
<1>1. TypeOK' /\ GoodContexts'
  BY DEF DriftRefused, IInv, TypeOK, GoodContexts
<1>2. LatestIsOwn' /\ FramesAreOpponents' /\ CorrectedInTime'
  BY DEF DriftRefused, IInv, LatestIsOwn, FramesAreOpponents, CorrectedInTime, Corrected
<1> QED
  BY <1>1, <1>2 DEF IInv

LEMMA ForwardKeeps == IInv /\ Forward => IInv'
<1> SUFFICES ASSUME IInv, Forward PROVE IInv'
  OBVIOUS
<1>1. Latest \in Messages /\ Latest.side = side /\ Frame(Opponent(side)) \in {Latest, NoMessage}
  BY LatestTyped DEF Forward, Frame
<1>2. /\ forwarded' = [forwarded EXCEPT ![Opponent(side)] = Frame(Opponent(side))]
      /\ side' = Opponent(side) /\ UNCHANGED <<transcript, closing, nudges, context, verdict>>
      /\ stage' \in {"closing", "turn"} /\ (stage' = "closing" => side = Con)
  BY DEF Forward, LastTurn
<1>3. forwarded' \in [Sides -> Messages \cup {NoMessage}] /\ side' \in Sides
  BY <1>1, <1>2, Typed, SidesTwo DEF IInv, TypeOK
<1>4. round' \in 1 .. Rounds
  BY Typed, DebateLoopAssumption DEF Forward, LastTurn
<1>5. logged' \in Seq(Events)
  <2>1. logged \in Seq(Events) /\ "relay" \in EventKinds
    BY DEF IInv, TypeOK, EventKinds
  <2>2. CASE Latest.failed
    BY <2>1, <2>2 DEF Forward
  <2>3. CASE ~Latest.failed
    <3>1. logged' = Append(logged, Event("relay", Latest))
      BY <2>3 DEF Forward
    <3> QED
      BY <1>1, <2>1, <3>1, LoggedTyped
  <2> QED
    BY <2>2, <2>3
<1>6. TypeOK' /\ GoodContexts'
  BY <1>2, <1>3, <1>4, <1>5 DEF IInv, TypeOK, GoodContexts
<1>7. LatestIsOwn'
  BY <1>2 DEF LatestIsOwn
<1>8. FramesAreOpponents'
  BY <1>1, <1>2, Typed, SidesTwo DEF IInv, TypeOK, FramesAreOpponents
<1>9. CorrectedInTime'
  BY <1>2, SidesTwo DEF Forward, IInv, CorrectedInTime, Corrected
<1> QED
  BY <1>6, <1>7, <1>8, <1>9 DEF IInv

\* The prompt of a closing statement.
LEMMA ClosingPromptGood ==
  ASSUME IInv, stage = "closing"
  PROVE  /\ ClosingPrompt \in Entries /\ OwnEntry(side, ClosingPrompt)
         /\ ClosingPrompt.kind = "closing_prompt"
         /\ Len(context[side]) > 0 => ~CapturedReply(context[side][Len(context[side])])
<1>1. ClosingPrompt \in Entries /\ OwnEntry(side, ClosingPrompt) /\ ClosingPrompt.kind = "closing_prompt"
  BY EntryTyped DEF ClosingPrompt, Kinds, OwnEntry
<1>2. Len(context[side]) > 0 => ~CapturedReply(context[side][Len(context[side])])
  BY Typed, SidesTwo DEF IInv, CorrectedInTime, Corrected
<1> QED
  BY <1>1, <1>2

LEMMA ClosingTold ==
  ASSUME IInv, stage = "closing", Told(side, ClosingPrompt)
  PROVE  /\ context' \in [Sides -> Seq(Entries)] /\ GoodContexts'
         /\ Len(context'[side]) > 0 /\ ~CapturedReply(context'[side][Len(context'[side])])
         /\ \A t \in Sides \ {side} : context'[t] = context[t]
<1>1. Len(context[side]) > 0 => Follows(context[side][Len(context[side])], ClosingPrompt)
  BY ClosingPromptGood DEF Follows
<1> QED
  BY <1>1, ClosingPromptGood, ToldGood DEF CapturedReply

LEMMA CloseKeeps == IInv /\ Close => IInv'
<1> SUFFICES ASSUME IInv, Close PROVE IInv'
  OBVIOUS
<1>1. PICK style \in Styles, long \in BOOLEAN :
        LET message == Message(side, ClosingStamp, style, long)
        IN  /\ ~(style = "blank" /\ long)
            /\ context' = [context EXCEPT ![side] = @ \o <<ClosingPrompt, Entry("reply", message)>>]
            /\ closing' = Append(closing, message)
            /\ logged' = logged \o Said("closing_message", message)
  BY DEF Close
<1> DEFINE message == Message(side, ClosingStamp, style, long)
           c == context[side] \o <<ClosingPrompt, Entry("reply", message)>>
<1>2. message \in Messages /\ message.side = side
  <2>1. ClosingStamp \in 1 .. Rounds
    BY DebateLoopAssumption DEF ClosingStamp
  <2> QED
    BY <2>1, Typed, MessageTyped
<1>3. context' = [context EXCEPT ![side] = c]
  BY <1>1
<1>4. closing' = Append(closing, message) /\ logged' = logged \o Said("closing_message", message)
  BY <1>1
<1> HIDE DEF message
<1>5. /\ Entry("reply", message) \in Entries /\ OwnEntry(side, Entry("reply", message))
      /\ Entry("reply", message).kind = "reply"
  BY <1>2, EntryTyped DEF Kinds, OwnEntry
<1>6. c \in Seq(Entries) /\ GoodContext(side, c)
  BY <1>5, Typed, ClosingPromptGood, ExchangeGood DEF Close
<1> HIDE DEF c
<1>7. /\ context' \in [Sides -> Seq(Entries)] /\ GoodContexts'
      /\ \A t \in Sides \ {side} : context'[t] = context[t]
  BY <1>3, <1>6, Typed, OneContext
<1>8. closing' \in Seq(Messages) /\ logged' \in Seq(Events)
  BY <1>2, <1>4, SaidTyped DEF IInv, TypeOK
<1>9. /\ stage' = (IF side = Con THEN "judge" ELSE "closing") /\ side' = Opponent(side)
      /\ UNCHANGED <<round, transcript, nudges, forwarded, verdict>>
  BY DEF Close, AfterClosing
<1>10. TypeOK'
  BY <1>7, <1>8, <1>9, Typed, SidesTwo DEF IInv, TypeOK
<1>11. LatestIsOwn' /\ FramesAreOpponents'
  BY <1>9 DEF IInv, LatestIsOwn, FramesAreOpponents
<1>12. CorrectedInTime'
  BY <1>7, <1>9, SidesTwo DEF Close, IInv, CorrectedInTime, Corrected, Opponent, Sides
<1> QED
  BY <1>7, <1>10, <1>11, <1>12 DEF IInv

LEMMA FailClosingKeeps == IInv /\ FailClosing => IInv'
<1> SUFFICES ASSUME IInv, FailClosing PROVE IInv'
  OBVIOUS
<1>1. /\ context' \in [Sides -> Seq(Entries)] /\ GoodContexts'
      /\ Len(context'[side]) > 0 /\ ~CapturedReply(context'[side][Len(context'[side])])
      /\ \A t \in Sides \ {side} : context'[t] = context[t]
  BY ClosingTold DEF FailClosing
<1>2. logged' \in Seq(Events)
  <2>1. logged \in Seq(Events) /\ "turn_failed" \in EventKinds
    BY DEF IInv, TypeOK, EventKinds
  <2> QED
    BY <2>1, LoggedTyped DEF FailClosing
<1>3. /\ stage' = (IF side = Con THEN "judge" ELSE "closing") /\ side' = Opponent(side)
      /\ UNCHANGED <<round, transcript, closing, nudges, forwarded, verdict>>
  BY DEF FailClosing, AfterClosing
<1>4. TypeOK'
  BY <1>1, <1>2, <1>3, Typed, SidesTwo DEF IInv, TypeOK
<1>5. LatestIsOwn' /\ FramesAreOpponents'
  BY <1>3 DEF IInv, LatestIsOwn, FramesAreOpponents
<1>6. CorrectedInTime'
  BY <1>1, <1>3, SidesTwo DEF FailClosing, IInv, CorrectedInTime, Corrected, Opponent, Sides
<1> QED
  BY <1>1, <1>4, <1>5, <1>6 DEF IInv

LEMMA LoseClosingKeeps == IInv /\ LoseClosing => IInv'
<1> SUFFICES ASSUME IInv, LoseClosing PROVE IInv'
  OBVIOUS
<1>1. context' \in [Sides -> Seq(Entries)] /\ GoodContexts'
  BY ClosingTold DEF LoseClosing
<1>2. TypeOK'
  BY <1>1 DEF LoseClosing, IInv, TypeOK
<1>3. LatestIsOwn' /\ FramesAreOpponents' /\ CorrectedInTime'
  BY DEF LoseClosing, IInv, LatestIsOwn, FramesAreOpponents, CorrectedInTime, Corrected
<1> QED
  BY <1>1, <1>2, <1>3 DEF IInv

LEMMA JudgeKeeps == IInv /\ Judge => IInv'
<1> SUFFICES ASSUME IInv, Judge PROVE IInv'
  OBVIOUS
<1>1. /\ stage = "judge" /\ stage' = "done"
      /\ UNCHANGED <<round, side, transcript, closing, nudges, forwarded, context>>
  BY DEF Judge
<1>2. logged' \in Seq(Events)
  <2>1. PICK alert \in {<<>>, <<Event("budget_alert", NoMessage)>>} :
          logged' = logged \o (IF Judged = {} THEN <<>> ELSE <<Event("verdict", NoMessage)>>) \o alert
    BY DEF Judge
  <2>2. Event("budget_alert", NoMessage) \in Events /\ Event("verdict", NoMessage) \in Events
    BY EventTyped DEF EventKinds, LogOnly
  <2> DEFINE told == IF Judged = {} THEN <<>> ELSE <<Event("verdict", NoMessage)>>
  <2>3. <<>> \in Seq(Events) /\ <<Event("budget_alert", NoMessage)>> \in Seq(Events)
        /\ <<Event("verdict", NoMessage)>> \in Seq(Events)
    BY <2>2
  <2>4. told \in Seq(Events) /\ alert \in Seq(Events)
    BY <2>1, <2>3
  <2>5. logged \in Seq(Events) /\ logged' = logged \o told \o alert
    BY <2>1 DEF IInv, TypeOK
  <2> HIDE DEF told
  <2> QED
    BY <2>4, <2>5
<1>3. TypeOK' /\ GoodContexts'
  BY <1>1, <1>2 DEF IInv, TypeOK, GoodContexts
<1>4. LatestIsOwn' /\ FramesAreOpponents' /\ CorrectedInTime'
  BY <1>1 DEF IInv, LatestIsOwn, FramesAreOpponents, CorrectedInTime, Corrected
<1> QED
  BY <1>3, <1>4 DEF IInv

LEMMA JudgeRefusedKeeps == IInv /\ JudgeRefused => IInv'
<1> SUFFICES ASSUME IInv, JudgeRefused PROVE IInv'
  OBVIOUS
<1>1. TypeOK' /\ GoodContexts'
  BY DEF JudgeRefused, IInv, TypeOK, GoodContexts
<1>2. LatestIsOwn' /\ FramesAreOpponents' /\ CorrectedInTime'
  BY DEF JudgeRefused, IInv, LatestIsOwn, FramesAreOpponents, CorrectedInTime, Corrected
<1> QED
  BY <1>1, <1>2 DEF IInv

\* The invariant is inductive.
LEMMA NextKeeps == IInv /\ [Next]_vars => IInv'
<1> SUFFICES ASSUME IInv, [Next]_vars PROVE IInv'
  OBVIOUS
<1>1. CASE UNCHANGED vars
  <2>1. TypeOK' /\ GoodContexts'
    BY <1>1 DEF vars, IInv, TypeOK, GoodContexts
  <2>2. LatestIsOwn' /\ FramesAreOpponents' /\ CorrectedInTime'
    BY <1>1 DEF vars, IInv, LatestIsOwn, Latest, Last, FramesAreOpponents, CorrectedInTime, Corrected
  <2> QED
    BY <2>1, <2>2 DEF IInv
<1>2. CASE Over
  BY <1>1, <1>2 DEF Over
<1> QED
  BY <1>1, <1>2, ArgueKeeps, FailArgumentKeeps, LoseArgumentKeeps, DriftCheckKeeps,
     DriftRefusedKeeps, ForwardKeeps, CloseKeeps, FailClosingKeeps, LoseClosingKeeps,
     JudgeKeeps, JudgeRefusedKeeps
  DEF Next

LEMMA Invariance == Spec => []IInv
  BY InitEstablishes, NextKeeps, PTL DEF Spec

-----------------------------------------------------------------------------
\* Turns, frames, corrections, contexts and events keep their types for every
\* number of rounds, closing statements included.
THEOREM TypeCorrect == Spec => []TypeOK
<1>1. IInv => TypeOK
  BY DEF IInv
<1> QED
  BY <1>1, Invariance, PTL

\* A debater is told nothing of its opponent but the frames forwarded to it,
\* and every captured reply is followed at once by its correction, which no
\* other entry is (agents/context.py:73-82, loop.py:217-244).
THEOREM ContextsSafe == Spec => []ContextsSound
<1>1. IInv => ContextsIsolated
  <2> SUFFICES ASSUME IInv, NEW s \in Sides, NEW i \in DOMAIN context[s],
                      context[s][i].about # NoMessage
               PROVE  context[s][i].about.side
                        = (IF context[s][i].kind = "anchor" THEN Opponent(s) ELSE s)
    BY DEF ContextsIsolated
  <2>1. context[s] \in Seq(Entries) /\ GoodContext(s, context[s]) /\ i \in 1 .. Len(context[s])
    BY DEF IInv, TypeOK, GoodContexts
  <2> QED
    BY <2>1 DEF GoodContext, OwnEntry
<1>2. IInv => CorrectedBeforeNextTurn
  <2> SUFFICES ASSUME IInv, NEW s \in Sides, NEW i \in DOMAIN context[s]
               PROVE  LET e == context[s][i]
                      IN  /\ e.kind = "nudge" => i > 1 /\ context[s][i - 1] = Entry("reply", e.about)
                          /\ (e.kind = "anchor" \/ e.kind = "closing_prompt") /\ i > 1 =>
                               ~(context[s][i - 1].kind = "reply"
                                 /\ context[s][i - 1].about.style = "captured")
    BY DEF CorrectedBeforeNextTurn
  <2>1. context[s] \in Seq(Entries) /\ GoodContext(s, context[s]) /\ i \in 1 .. Len(context[s])
    BY DEF IInv, TypeOK, GoodContexts
  <2>2. context[s][i].kind = "nudge" => i > 1
    BY <2>1 DEF GoodContext
  <2> QED
    BY <2>1, <2>2 DEF GoodContext, Follows, CapturedReply
<1> QED
  BY <1>1, <1>2, Invariance, PTL DEF ContextsSound

-----------------------------------------------------------------------------
(* A debater rebuts its opponent's latest argument                         *)
(*                                                                         *)
(* The r-th numbered prompt of a side holds what it answers in round r: the *)
(* prompts a side has had are counted by the round and whose turn it is    *)
(* (PromptsCounted), so is the turn they answer (TurnsTaken), and the frame a *)
(* side is about to rebut is that of the turn just before (FrameIsLatest). *)

\* The prompts for a numbered turn among the first i entries of a context.
AnchorsIn(c, i) == {j \in 1 .. i : c[j].kind = "anchor"}

\* What s rebuts in round r of the turns t.
AnswerIn(t, s, r) ==
  IF AnsweredAt(s, r) = 0 THEN NoMessage ELSE
  IF t[AnsweredAt(s, r)].failed THEN NoMessage ELSE t[AnsweredAt(s, r)]

\* The r-th prompt of a context holds what s rebuts in round r, a turn taken.
Rebuts(s, c, t) ==
  \A i \in 1 .. Len(c) :
    c[i].kind = "anchor" =>
      /\ AnsweredAt(s, Cardinality(AnchorsIn(c, i))) \in 0 .. Len(t)
      /\ c[i].about = AnswerIn(t, s, Cardinality(AnchorsIn(c, i)))

Prompts(c) == Cardinality(AnchorsIn(c, Len(c)))

LEMMA AnchorsFinite ==
  ASSUME NEW c, NEW i \in Nat
  PROVE  IsFiniteSet(AnchorsIn(c, i)) /\ Cardinality(AnchorsIn(c, i)) \in Nat
<1>1. IsFiniteSet(1 .. i) /\ AnchorsIn(c, i) \subseteq 1 .. i
  BY FS_Interval DEF AnchorsIn
<1> QED
  BY <1>1, FS_Subset, FS_CardinalityType

\* Appending to a context changes no prompt before, and counts one more when it
\* is a prompt itself.
LEMMA PromptsAppended ==
  ASSUME NEW c \in Seq(Entries), NEW e \in Entries
  PROVE  /\ \A i \in 1 .. Len(c) : AnchorsIn(Append(c, e), i) = AnchorsIn(c, i)
         /\ Prompts(Append(c, e)) = (IF e.kind = "anchor" THEN Prompts(c) + 1 ELSE Prompts(c))
         /\ Prompts(c) \in Nat
<1> DEFINE d == Append(c, e)
<1>1. /\ Len(c) \in Nat /\ Len(d) = Len(c) + 1
      /\ d[Len(c) + 1] = e /\ \A i \in 1 .. Len(c) : d[i] = c[i]
  OBVIOUS
<1> HIDE DEF d
<1>2. \A i \in 1 .. Len(c) : AnchorsIn(d, i) = AnchorsIn(c, i)
  BY <1>1 DEF AnchorsIn
<1>3. IsFiniteSet(AnchorsIn(c, Len(c))) /\ Prompts(c) \in Nat
  BY <1>1, AnchorsFinite DEF Prompts
<1>4. Len(c) + 1 \notin AnchorsIn(c, Len(c))
  BY <1>1 DEF AnchorsIn
<1>5. CASE e.kind = "anchor"
  <2>1. AnchorsIn(d, Len(d)) = AnchorsIn(c, Len(c)) \cup {Len(c) + 1}
    BY <1>1, <1>5 DEF AnchorsIn
  <2>2. Prompts(d) = Prompts(c) + 1
    BY <1>3, <1>4, <2>1, FS_AddElement DEF Prompts
  <2> QED
    BY <1>2, <1>3, <1>5, <2>2 DEF d
<1>6. CASE e.kind # "anchor"
  <2>1. AnchorsIn(d, Len(d)) = AnchorsIn(c, Len(c))
    BY <1>1, <1>6 DEF AnchorsIn
  <2> QED
    BY <1>2, <1>3, <1>6, <2>1 DEF d, Prompts
<1> QED
  BY <1>5, <1>6

\* An entry that is no prompt, or the prompt of the next round.
LEMMA RebutsAppended ==
  ASSUME NEW s \in Sides, NEW t \in Seq(Messages), NEW c \in Seq(Entries), NEW e \in Entries,
         Rebuts(s, c, t),
         e.kind = "anchor" =>
           /\ AnsweredAt(s, Prompts(c) + 1) \in 0 .. Len(t)
           /\ e.about = AnswerIn(t, s, Prompts(c) + 1)
  PROVE  Rebuts(s, Append(c, e), t)
<1> DEFINE d == Append(c, e)
<1>1. /\ Len(c) \in Nat /\ Len(d) = Len(c) + 1 /\ d \in Seq(Entries)
      /\ d[Len(c) + 1] = e /\ \A i \in 1 .. Len(c) : d[i] = c[i]
  OBVIOUS
<1>2. /\ \A i \in 1 .. Len(c) : AnchorsIn(d, i) = AnchorsIn(c, i)
      /\ e.kind = "anchor" => Cardinality(AnchorsIn(d, Len(d))) = Prompts(c) + 1
  BY PromptsAppended DEF Prompts
<1> HIDE DEF d
<1> SUFFICES ASSUME NEW i \in 1 .. Len(d), d[i].kind = "anchor"
             PROVE  /\ AnsweredAt(s, Cardinality(AnchorsIn(d, i))) \in 0 .. Len(t)
                    /\ d[i].about = AnswerIn(t, s, Cardinality(AnchorsIn(d, i)))
  BY DEF Rebuts, d
<1>3. CASE i = Len(d)
  BY <1>1, <1>2, <1>3
<1>4. CASE i \in 1 .. Len(c)
  <2>1. d[i] = c[i] /\ AnchorsIn(d, i) = AnchorsIn(c, i)
    BY <1>1, <1>2, <1>4
  <2> QED
    BY <1>4, <2>1 DEF Rebuts
<1> QED
  BY <1>1, <1>3, <1>4

\* A turn taken later changes nothing of what was rebutted before.
LEMMA RebutsOlder ==
  ASSUME NEW s \in Sides, NEW t \in Seq(Messages), NEW m \in Messages, NEW c \in Seq(Entries),
         Rebuts(s, c, t)
  PROVE  Rebuts(s, c, Append(t, m))
<1> DEFINE u == Append(t, m)
<1>1. /\ Len(t) \in Nat /\ Len(u) = Len(t) + 1
      /\ \A i \in 1 .. Len(t) : u[i] = t[i]
  OBVIOUS
<1> HIDE DEF u
<1>2. \A r : AnsweredAt(s, r) \in 0 .. Len(t) =>
        /\ AnsweredAt(s, r) \in 0 .. Len(u)
        /\ AnswerIn(u, s, r) = AnswerIn(t, s, r)
  <2> SUFFICES ASSUME NEW r, AnsweredAt(s, r) \in 0 .. Len(t)
               PROVE  /\ AnsweredAt(s, r) \in 0 .. Len(u)
                      /\ AnswerIn(u, s, r) = AnswerIn(t, s, r)
    OBVIOUS
  <2>1. AnsweredAt(s, r) \in 0 .. Len(u)
    BY <1>1
  <2>2. CASE AnsweredAt(s, r) = 0
    BY <2>1, <2>2 DEF AnswerIn
  <2>3. CASE AnsweredAt(s, r) \in 1 .. Len(t)
    BY <1>1, <2>1, <2>3 DEF AnswerIn
  <2> QED
    BY <1>1, <2>2, <2>3
<1> QED
  BY <1>2 DEF Rebuts, u

\* The turns so far are those before the turn of side in round, and that one
\* once it is taken.
TurnsTaken ==
  /\ stage = "turn" => Len(transcript) = AnsweredAt(side, round)
  /\ stage \in {"drift", "forward"} => Len(transcript) = AnsweredAt(side, round) + 1

\* The numbered prompts a side has had.
PromptsHad(s) ==
  IF s = side THEN IF stage = "turn" THEN round - 1 ELSE round
  ELSE IF side = Pro THEN round - 1 ELSE round

PromptsCounted ==
  stage \in {"turn", "drift", "forward"} => \A s \in Sides : Prompts(context[s]) = PromptsHad(s)

FrameIsLatest == stage = "turn" => forwarded[side] = Answers(side, round)

PromptsRebut == \A s \in Sides : Rebuts(s, context[s], transcript)

RInv == TurnsTaken /\ PromptsCounted /\ FrameIsLatest /\ PromptsRebut

LEMMA AnswersIn ==
  \A s, r : Answers(s, r) = AnswerIn(transcript, s, r)
  BY DEF Answers, AnswerIn

LEMMA RInit == Init => RInv
<1> SUFFICES ASSUME Init PROVE RInv
  OBVIOUS
<1>1. TurnsTaken /\ FrameIsLatest
  BY SidesTwo DEF Init, TurnsTaken, FrameIsLatest, AnsweredAt, Answers
<1>2. Prompts(<<>>) = 0
  <2>1. AnchorsIn(<<>>, 0) = {}
    BY DEF AnchorsIn
  <2>2. Len(<<>>) = 0
    OBVIOUS
  <2> QED
    BY <2>1, <2>2, FS_EmptySet DEF Prompts
<1>3. PromptsCounted
  BY <1>2 DEF Init, EmptyContexts, PromptsCounted, PromptsHad
<1>4. PromptsRebut
  BY DEF Init, EmptyContexts, PromptsRebut, Rebuts
<1> QED
  BY <1>1, <1>3, <1>4 DEF RInv

\* The prompt of a numbered turn is the next one, and holds what it should.
LEMMA AnchorRebuts ==
  ASSUME IInv, RInv, stage = "turn"
  PROVE  LET d == Append(context[side], Anchor(side))
         IN  /\ d \in Seq(Entries) /\ Prompts(d) = round
             /\ Rebuts(side, d, transcript)
<1> DEFINE c == context[side]
           a == Anchor(side)
<1>1. /\ c \in Seq(Entries) /\ transcript \in Seq(Messages) /\ side \in Sides /\ round \in Nat
      /\ a \in Entries /\ a.kind = "anchor" /\ a.about = forwarded[side]
  BY Typed, AnchorGood, EntryTyped DEF Anchor, Kinds
<1>2. Prompts(c) = round - 1 /\ Rebuts(side, c, transcript)
  BY <1>1 DEF RInv, PromptsCounted, PromptsHad, PromptsRebut
<1>3. /\ AnsweredAt(side, round) \in 0 .. Len(transcript)
      /\ a.about = AnswerIn(transcript, side, round)
  BY <1>1, AnswersIn DEF RInv, TurnsTaken, FrameIsLatest
<1> HIDE DEF c, a
<1>4. Prompts(c) + 1 = round
  BY <1>1, <1>2
<1>5. Rebuts(side, Append(c, a), transcript)
  BY <1>1, <1>2, <1>3, <1>4, RebutsAppended
<1>6. Prompts(Append(c, a)) = round
  BY <1>1, <1>4, PromptsAppended
<1> QED
  BY <1>1, <1>5, <1>6 DEF c, a

\* A prompt and its reply are appended one after the other.
LEMMA ExchangeAppends ==
  ASSUME NEW c \in Seq(Entries), NEW a \in Entries, NEW r \in Entries
  PROVE  c \o <<a, r>> = Append(Append(c, a), r)
  OBVIOUS

\* What a step has to show when one turn is taken.
LEMMA TurnTaken ==
  ASSUME IInv, RInv, stage = "turn", stage' = "drift", UNCHANGED <<side, round>>,
         NEW m \in Messages, transcript' = Append(transcript, m),
         NEW d \in Seq(Entries), context' = [context EXCEPT ![side] = d],
         Prompts(d) = round, Rebuts(side, d, transcript)
  PROVE  RInv'
<1>1. /\ side \in Sides /\ round \in Nat /\ transcript \in Seq(Messages)
      /\ context \in [Sides -> Seq(Entries)]
  BY Typed DEF IInv, TypeOK
<1>2. TurnsTaken'
  <2>1. Len(transcript') = Len(transcript) + 1
    BY <1>1
  <2>2. Len(transcript) = AnsweredAt(side, round)
    BY DEF RInv, TurnsTaken
  <2> QED
    BY <2>1, <2>2 DEF TurnsTaken, AnsweredAt
<1>3. PromptsCounted'
  <2>1. \A s \in Sides : Prompts(context[s]) = PromptsHad(s)
    BY DEF RInv, PromptsCounted
  <2>2. \A s \in Sides : s # side => context'[s] = context[s]
    BY <1>1
  <2>3. context'[side] = d
    BY <1>1
  <2>4. \A s \in Sides : PromptsHad(s)' = (IF s = side THEN round ELSE PromptsHad(s))
    BY DEF PromptsHad
  <2>5. \A s \in Sides : Prompts(context'[s]) = PromptsHad(s)'
    BY <2>1, <2>2, <2>3, <2>4
  <2> QED
    BY <2>5 DEF PromptsCounted, Prompts, AnchorsIn
<1>4. FrameIsLatest'
  BY DEF FrameIsLatest
<1>5. PromptsRebut'
  <2>1. \A s \in Sides : Rebuts(s, context[s], transcript)
    BY DEF RInv, PromptsRebut
  <2>2. \A s \in Sides : Rebuts(s, context'[s], transcript) /\ context'[s] \in Seq(Entries)
    BY <1>1, <2>1
  <2>3. \A s \in Sides : Rebuts(s, context'[s], transcript')
    BY <1>1, <2>2, RebutsOlder
  <2> QED
    BY <2>3 DEF PromptsRebut, Rebuts, AnchorsIn, AnswerIn, AnsweredAt
<1> QED
  BY <1>2, <1>3, <1>4, <1>5 DEF RInv

LEMMA ArgueRebuts == IInv /\ RInv /\ Argue => RInv'
<1> SUFFICES ASSUME IInv, RInv, Argue PROVE RInv'
  OBVIOUS
<1>1. PICK style \in Styles, long \in BOOLEAN :
        LET message == Message(side, round, style, long)
        IN  /\ ~(style = "blank" /\ long)
            /\ context' = [context EXCEPT ![side] = @ \o <<Anchor(side), Entry("reply", message)>>]
            /\ transcript' = Append(transcript, message)
            /\ logged' = logged \o Said("message", message)
  BY DEF Argue
<1> DEFINE message == Message(side, round, style, long)
           b == Append(context[side], Anchor(side))
           d == Append(b, Entry("reply", message))
<1>2. message \in Messages
  BY Typed, MessageTyped
<1>3. transcript' = Append(transcript, message)
  BY <1>1
<1>4. b \in Seq(Entries) /\ Prompts(b) = round /\ Rebuts(side, b, transcript)
  BY AnchorRebuts DEF Argue
<1>5. Entry("reply", message) \in Entries /\ Entry("reply", message).kind = "reply"
  BY <1>2, EntryTyped DEF Kinds
<1>6. context' = [context EXCEPT ![side] = d]
  <2>1. context[side] \o <<Anchor(side), Entry("reply", message)>> = d
    <3>1. Anchor(side) \in Entries /\ context[side] \in Seq(Entries)
      BY Typed, AnchorGood DEF Argue
    <3> HIDE DEF message
    <3> QED
      BY <1>5, <3>1, ExchangeAppends
  <2> QED
    BY <1>1, <2>1
<1> HIDE DEF message, b
<1>7. d \in Seq(Entries) /\ Prompts(d) = round /\ Rebuts(side, d, transcript)
  <2>1. d \in Seq(Entries)
    BY <1>4, <1>5
  <2>2. Prompts(d) = round
    BY <1>4, <1>5, PromptsAppended
  <2>3. Rebuts(side, d, transcript)
    BY <1>4, <1>5, Typed, RebutsAppended
  <2> QED
    BY <2>1, <2>2, <2>3
<1> HIDE DEF d
<1>8. /\ stage = "turn" /\ stage' = "drift" /\ UNCHANGED <<side, round>>
  BY DEF Argue
<1> QED
  BY <1>2, <1>3, <1>6, <1>7, <1>8, TurnTaken

LEMMA FailArgumentRebuts == IInv /\ RInv /\ FailArgument => RInv'
<1> SUFFICES ASSUME IInv, RInv, FailArgument PROVE RInv'
  OBVIOUS
<1> DEFINE d == Append(context[side], Anchor(side))
<1>1. d \in Seq(Entries) /\ Prompts(d) = round /\ Rebuts(side, d, transcript)
  BY AnchorRebuts DEF FailArgument
<1>2. /\ context' = [context EXCEPT ![side] = d]
      /\ transcript' = Append(transcript, FailedMarker(side, round))
      /\ stage = "turn" /\ stage' = "drift" /\ UNCHANGED <<side, round>>
  BY DEF FailArgument, Told
<1>3. FailedMarker(side, round) \in Messages
  BY Typed, MessageTyped DEF Styles
<1> HIDE DEF d
<1> QED
  BY <1>1, <1>2, <1>3, TurnTaken

\* A step that takes no turn and leaves the numbered part of the run, or stays
\* where it is: only the contexts have to be looked at.
LEMMA RebutsKept ==
  ASSUME IInv, RInv, UNCHANGED transcript, PromptsRebut',
         \/ stage' \notin {"turn", "drift", "forward"}
         \/ /\ stage = "drift" /\ stage' = "forward" /\ UNCHANGED <<side, round>>
            /\ \A s \in Sides : Prompts(context'[s]) = Prompts(context[s])
  PROVE  RInv'
<1>1. TurnsTaken'
  BY DEF RInv, TurnsTaken, AnsweredAt
<1>2. PromptsCounted'
  BY DEF RInv, PromptsCounted, PromptsHad, Prompts, AnchorsIn
<1>3. FrameIsLatest'
  BY DEF FrameIsLatest
<1> QED
  BY <1>1, <1>2, <1>3 DEF RInv

\* An entry that is no prompt for a numbered turn, in one context.
LEMMA OtherTold ==
  ASSUME IInv, RInv, UNCHANGED transcript, NEW e \in Entries, e.kind # "anchor", Told(side, e)
  PROVE  /\ PromptsRebut'
         /\ \A s \in Sides : Prompts(context'[s]) = Prompts(context[s])
<1> DEFINE c == context[side]
           d == Append(c, e)
<1>1. /\ side \in Sides /\ transcript \in Seq(Messages) /\ c \in Seq(Entries)
      /\ context \in [Sides -> Seq(Entries)] /\ context' = [context EXCEPT ![side] = d]
  BY Typed DEF IInv, TypeOK, Told
<1>2. \A s \in Sides : Rebuts(s, context[s], transcript)
  BY DEF RInv, PromptsRebut
<1> HIDE DEF c
<1>3. Rebuts(side, d, transcript) /\ Prompts(d) = Prompts(c)
  BY <1>1, <1>2, RebutsAppended, PromptsAppended DEF c
<1> HIDE DEF d
<1>4. \A s \in Sides : Rebuts(s, context'[s], transcript)
  BY <1>1, <1>2, <1>3
<1>5. \A s \in Sides : Prompts(context'[s]) = Prompts(context[s])
  BY <1>1, <1>3 DEF c
<1>6. PromptsRebut'
  BY <1>4 DEF PromptsRebut, Rebuts, AnchorsIn, AnswerIn, AnsweredAt
<1> QED
  BY <1>5, <1>6

LEMMA DriftCheckRebuts == IInv /\ RInv /\ DriftCheck => RInv'
<1> SUFFICES ASSUME IInv, RInv, DriftCheck PROVE RInv'
  OBVIOUS
<1>1. /\ stage = "drift" /\ stage' = "forward" /\ UNCHANGED <<transcript, side, round>>
  BY DEF DriftCheck
<1>2. CASE Captured
  <2>1. Entry("nudge", Latest) \in Entries /\ Entry("nudge", Latest).kind # "anchor"
    BY <1>1, LatestTyped, EntryTyped DEF Kinds
  <2>2. Told(side, Entry("nudge", Latest))
    BY <1>2 DEF DriftCheck, Nudged
  <2> QED
    BY <1>1, <2>1, <2>2, OtherTold, RebutsKept
<1>3. CASE ~Captured
  <2>1. UNCHANGED context
    BY <1>3 DEF DriftCheck
  <2>2. PromptsRebut'
    BY <1>1, <2>1 DEF RInv, PromptsRebut, Rebuts, AnchorsIn, AnswerIn, AnsweredAt
  <2> QED
    BY <1>1, <2>1, <2>2, RebutsKept
<1> QED
  BY <1>2, <1>3

LEMMA ForwardRebuts == IInv /\ RInv /\ Forward => RInv'
<1> SUFFICES ASSUME IInv, RInv, Forward PROVE RInv'
  OBVIOUS
<1>1. /\ side \in Sides /\ round \in 1 .. Rounds /\ transcript \in Seq(Messages)
      /\ forwarded \in [Sides -> Messages \cup {NoMessage}]
      /\ Len(transcript) = AnsweredAt(side, round) + 1 /\ Len(transcript) \in Nat
      /\ \A s \in Sides : Prompts(context[s]) = PromptsHad(s)
  BY Typed DEF Forward, IInv, TypeOK, RInv, TurnsTaken, PromptsCounted
<1>2. /\ stage = "forward" /\ UNCHANGED <<transcript, context>> /\ side' = Opponent(side)
      /\ forwarded' = [forwarded EXCEPT ![Opponent(side)] = Frame(Opponent(side))]
  BY DEF Forward
<1>3. PromptsRebut'
  BY <1>2 DEF RInv, PromptsRebut, Rebuts, AnchorsIn, AnswerIn, AnsweredAt
<1>4. CASE LastTurn
  <2>1. stage' = "closing"
    BY <1>4 DEF Forward
  <2> QED
    BY <1>2, <1>3, <2>1, RebutsKept
<1>5. CASE ~LastTurn
  <2>1. /\ stage' = "turn" /\ round' = (IF side = Con THEN round + 1 ELSE round)
    BY <1>5 DEF Forward
  <2>2. Len(transcript) = AnsweredAt(side', round')
    BY <1>1, <1>2, <2>1 DEF AnsweredAt, Opponent, Sides, Pro, Con
  <2>3. TurnsTaken'
    BY <1>2, <2>1, <2>2 DEF TurnsTaken, AnsweredAt
  <2>4. \A s \in Sides : PromptsHad(s)' = PromptsHad(s)
    BY <1>1, <1>2, <2>1 DEF PromptsHad, Opponent, Sides, Pro, Con
  <2>5. PromptsCounted'
    BY <1>1, <1>2, <2>4 DEF PromptsCounted, Prompts, AnchorsIn
  <2>6. FrameIsLatest'
    <3>1. forwarded'[side'] = (IF Latest.failed THEN NoMessage ELSE Latest)
      BY <1>1, <1>2, SidesTwo DEF Frame
    <3>2. Latest = transcript[AnsweredAt(side', round')] /\ AnsweredAt(side', round') # 0
      BY <1>1, <2>2, LatestTyped DEF Latest, Last, Forward
    <3>3. forwarded'[side'] = AnswerIn(transcript', side', round')
      BY <1>2, <3>1, <3>2 DEF AnswerIn
    <3> QED
      BY <3>3 DEF FrameIsLatest, Answers, AnswerIn, AnsweredAt
  <2> QED
    BY <1>3, <2>3, <2>5, <2>6 DEF RInv
<1> QED
  BY <1>4, <1>5

LEMMA CloseRebuts == IInv /\ RInv /\ Close => RInv'
<1> SUFFICES ASSUME IInv, RInv, Close PROVE RInv'
  OBVIOUS
<1>1. PICK message \in Messages :
        context' = [context EXCEPT ![side] = @ \o <<ClosingPrompt, Entry("reply", message)>>]
  <2>1. PICK style \in Styles, long \in BOOLEAN :
          LET message == Message(side, ClosingStamp, style, long)
          IN  context' = [context EXCEPT ![side] = @ \o <<ClosingPrompt, Entry("reply", message)>>]
    BY DEF Close
  <2>2. ClosingStamp \in 1 .. Rounds
    BY DebateLoopAssumption DEF ClosingStamp
  <2> QED
    BY <2>1, <2>2, Typed, MessageTyped
<1> DEFINE b == Append(context[side], ClosingPrompt)
           d == Append(b, Entry("reply", message))
<1>2. /\ ClosingPrompt \in Entries /\ ClosingPrompt.kind # "anchor"
      /\ Entry("reply", message) \in Entries /\ Entry("reply", message).kind # "anchor"
      /\ context[side] \in Seq(Entries) /\ context \in [Sides -> Seq(Entries)]
      /\ side \in Sides /\ transcript \in Seq(Messages)
  BY Typed, ClosingPromptGood, EntryTyped DEF Close, Kinds, IInv, TypeOK
<1>3. context' = [context EXCEPT ![side] = d]
  BY <1>1, <1>2, ExchangeAppends
<1>4. \A s \in Sides : Rebuts(s, context[s], transcript)
  BY DEF RInv, PromptsRebut
<1>5. b \in Seq(Entries) /\ Rebuts(side, b, transcript)
  BY <1>2, <1>4, RebutsAppended
<1> HIDE DEF b
<1>6. Rebuts(side, d, transcript)
  BY <1>2, <1>5, RebutsAppended
<1> HIDE DEF d
<1>7. \A s \in Sides : Rebuts(s, context'[s], transcript)
  BY <1>2, <1>3, <1>4, <1>6
<1>8. UNCHANGED transcript /\ stage' \in {"closing", "judge"}
  BY DEF Close, AfterClosing
<1>9. PromptsRebut'
  BY <1>7, <1>8 DEF PromptsRebut, Rebuts, AnchorsIn, AnswerIn, AnsweredAt
<1> QED
  BY <1>8, <1>9, RebutsKept

\* The other steps add at most one entry that is no prompt for a numbered turn,
\* or the prompt of a turn that is lost.
LEMMA OtherRebuts ==
  ASSUME IInv, RInv,
         \/ LoseArgument \/ DriftRefused \/ FailClosing \/ LoseClosing
         \/ Judge \/ JudgeRefused
  PROVE  RInv'
<1>1. /\ UNCHANGED transcript /\ stage' \notin {"turn", "drift", "forward"}
  BY DEF LoseArgument, DriftRefused, FailClosing, LoseClosing, Judge, JudgeRefused, AfterClosing
<1>2. CASE LoseArgument
  <2> DEFINE d == Append(context[side], Anchor(side))
  <2>1. Rebuts(side, d, transcript)
    BY <1>2, AnchorRebuts DEF LoseArgument
  <2>2. context' = [context EXCEPT ![side] = d]
    BY <1>2 DEF LoseArgument, Told
  <2>3. context \in [Sides -> Seq(Entries)] /\ \A s \in Sides : Rebuts(s, context[s], transcript)
    BY DEF IInv, TypeOK, RInv, PromptsRebut
  <2> HIDE DEF d
  <2>4. \A s \in Sides : Rebuts(s, context'[s], transcript)
    BY <2>1, <2>2, <2>3
  <2>5. PromptsRebut'
    BY <1>1, <2>4 DEF PromptsRebut, Rebuts, AnchorsIn, AnswerIn, AnsweredAt
  <2> QED
    BY <1>1, <2>5, RebutsKept
<1>3. CASE FailClosing \/ LoseClosing
  <2>1. Told(side, ClosingPrompt) /\ ClosingPrompt \in Entries /\ ClosingPrompt.kind # "anchor"
    BY <1>3, ClosingPromptGood DEF FailClosing, LoseClosing
  <2> QED
    BY <1>1, <2>1, OtherTold, RebutsKept
<1>4. CASE DriftRefused \/ Judge \/ JudgeRefused
  <2>1. UNCHANGED context
    BY <1>4 DEF DriftRefused, Judge, JudgeRefused
  <2>2. PromptsRebut'
    BY <1>1, <2>1 DEF RInv, PromptsRebut, Rebuts, AnchorsIn, AnswerIn, AnsweredAt
  <2> QED
    BY <1>1, <2>2, RebutsKept
<1> QED
  BY <1>2, <1>3, <1>4

LEMMA NextRebuts == IInv /\ RInv /\ [Next]_vars => RInv'
<1> SUFFICES ASSUME IInv, RInv, [Next]_vars PROVE RInv'
  OBVIOUS
<1>1. CASE UNCHANGED vars
  BY <1>1 DEF vars, RInv, TurnsTaken, PromptsCounted, PromptsHad, Prompts, FrameIsLatest, Answers,
              PromptsRebut, Rebuts, AnchorsIn, AnswerIn, AnsweredAt
<1>2. CASE Over
  BY <1>1, <1>2 DEF Over
<1> QED
  BY <1>1, <1>2, ArgueRebuts, FailArgumentRebuts, DriftCheckRebuts, ForwardRebuts, CloseRebuts,
     OtherRebuts
  DEF Next

\* For any number of rounds and whatever the calls come back with: what a
\* debater is given to rebut is its opponent's turn just before its own,
\* whether that one was captured or not, nothing when it FAILED, and never the
\* frame of an earlier round (loop.py:99-134).
THEOREM RebutsSafe == Spec => []RebutsLatest
<1>1. IInv /\ RInv => RebutsLatest
  <2> SUFFICES ASSUME IInv, RInv, NEW s \in Sides, NEW i \in DOMAIN context[s],
                      context[s][i].kind = "anchor"
               PROVE  context[s][i].about = Answers(s, Cardinality(Anchors(s, i)))
    BY DEF RebutsLatest
  <2>1. i \in 1 .. Len(context[s])
    BY DEF IInv, TypeOK
  <2>2. Anchors(s, i) = AnchorsIn(context[s], i)
    BY DEF Anchors, AnchorsIn
  <2> QED
    BY <2>1, <2>2, AnswersIn DEF RInv, PromptsRebut, Rebuts
<1> QED
  BY <1>1, Invariance, RInit, NextRebuts, PTL DEF Spec

-----------------------------------------------------------------------------
(* The verdict is drawn from every argument made                           *)

\* The i-th turn is that of the side and the round it should be.
InTurn(m, i) ==
  m.side = (IF i % 2 = 1 THEN Pro ELSE Con) /\ m.round = (i + 1) \div 2

TurnsInOrder == \A i \in 1 .. Len(transcript) : InTurn(transcript[i], i)

AllTurnsTaken == stage \in {"closing", "judge", "done"} => Len(transcript) = 2 * Rounds

ClosingsSpoken == \A i \in 1 .. Len(closing) : ~closing[i].failed

VerdictDrawn == stage = "done" => verdict = Judged

JInv == TurnsInOrder /\ AllTurnsTaken /\ ClosingsSpoken /\ VerdictDrawn

LEMMA JInit == Init => JInv
  BY DEF Init, JInv, TurnsInOrder, AllTurnsTaken, ClosingsSpoken, VerdictDrawn

\* The turn of a side in a round is the one after those it answers.
LEMMA NextInTurn ==
  ASSUME NEW s \in Sides, NEW r \in 1 .. Rounds, NEW m, m.side = s, m.round = r
  PROVE  InTurn(m, AnsweredAt(s, r) + 1)
<1>1. r \in Nat /\ r > 0
  OBVIOUS
<1>2. CASE s = Con
  <2>1. AnsweredAt(s, r) + 1 = 2 * r
    BY <1>1, <1>2 DEF AnsweredAt
  <2>2. (2 * r) % 2 = 0 /\ (2 * r + 1) \div 2 = r
    BY <1>1
  <2> QED
    BY <1>2, <2>1, <2>2 DEF InTurn
<1>3. CASE s # Con
  <2>1. s = Pro /\ AnsweredAt(s, r) + 1 = 2 * r - 1
    BY <1>1, <1>3 DEF AnsweredAt, Sides
  <2>2. (2 * r - 1) % 2 = 1 /\ (2 * r - 1 + 1) \div 2 = r
    BY <1>1
  <2> QED
    BY <2>1, <2>2 DEF InTurn
<1> QED
  BY <1>2, <1>3

LEMMA TurnAppended ==
  ASSUME IInv, RInv, JInv, stage = "turn", stage' = "drift",
         NEW m \in Messages, m.side = side, m.round = round, UNCHANGED closing,
         transcript' = Append(transcript, m)
  PROVE  JInv'
<1>1. /\ transcript \in Seq(Messages) /\ side \in Sides /\ round \in 1 .. Rounds
      /\ Len(transcript) = AnsweredAt(side, round)
  BY Typed DEF RInv, TurnsTaken
<1>2. /\ Len(transcript') = Len(transcript) + 1 /\ Len(transcript) \in Nat
      /\ transcript'[Len(transcript) + 1] = m
      /\ \A i \in 1 .. Len(transcript) : transcript'[i] = transcript[i]
  BY <1>1
<1>3. InTurn(m, Len(transcript) + 1)
  BY <1>1, NextInTurn
<1>4. TurnsInOrder'
  <2>1. \A i \in 1 .. Len(transcript') : InTurn(transcript'[i], i)
    BY <1>2, <1>3 DEF JInv, TurnsInOrder
  <2> QED
    BY <2>1 DEF TurnsInOrder, InTurn
<1> QED
  BY <1>4 DEF JInv, AllTurnsTaken, ClosingsSpoken, VerdictDrawn

LEMMA NextJudged == IInv /\ RInv /\ JInv /\ [Next]_vars => JInv'
<1> SUFFICES ASSUME IInv, RInv, JInv, [Next]_vars PROVE JInv'
  OBVIOUS
<1>1. CASE Argue
  <2>1. PICK style \in Styles, long \in BOOLEAN :
          transcript' = Append(transcript, Message(side, round, style, long))
    BY <1>1 DEF Argue
  <2>2. /\ Message(side, round, style, long) \in Messages
        /\ Message(side, round, style, long).side = side
        /\ Message(side, round, style, long).round = round
    BY Typed, MessageTyped DEF Message
  <2> QED
    BY <1>1, <2>1, <2>2, TurnAppended DEF Argue
<1>2. CASE FailArgument
  <2>1. /\ FailedMarker(side, round) \in Messages /\ FailedMarker(side, round).side = side
        /\ FailedMarker(side, round).round = round
    BY Typed, MessageTyped DEF Styles, FailedMarker
  <2> QED
    BY <1>2, <2>1, TurnAppended DEF FailArgument
<1>3. CASE Close
  <2>1. PICK style \in Styles, long \in BOOLEAN :
          closing' = Append(closing, Message(side, ClosingStamp, style, long))
    BY <1>3 DEF Close
  <2>2. Message(side, ClosingStamp, style, long) \in Messages
    <3>1. ClosingStamp \in 1 .. Rounds
      BY DebateLoopAssumption DEF ClosingStamp
    <3> QED
      BY <3>1, Typed, MessageTyped
  <2>3. ~Message(side, ClosingStamp, style, long).failed
    BY DEF Message
  <2>4. closing \in Seq(Messages) /\ \A i \in 1 .. Len(closing) : ~closing[i].failed
    BY DEF IInv, TypeOK, JInv, ClosingsSpoken
  <2>5. ClosingsSpoken'
    BY <2>1, <2>2, <2>3, <2>4 DEF ClosingsSpoken
  <2>6. stage = "closing" /\ UNCHANGED transcript /\ stage' \in {"closing", "judge"}
    BY <1>3 DEF Close, AfterClosing
  <2> QED
    BY <2>5, <2>6 DEF JInv, TurnsInOrder, InTurn, AllTurnsTaken, VerdictDrawn
<1>4. CASE Forward
  <2>1. UNCHANGED <<transcript, closing>> /\ stage' \in {"closing", "turn"}
    BY <1>4 DEF Forward
  <2>2. stage' = "closing" => Len(transcript) = 2 * Rounds
    <3>1. Len(transcript) = AnsweredAt(side, round) + 1
      BY <1>4 DEF Forward, RInv, TurnsTaken
    <3>2. stage' = "closing" => side = Con /\ round = Rounds
      BY <1>4 DEF Forward, LastTurn
    <3> QED
      BY <3>1, <3>2, DebateLoopAssumption DEF AnsweredAt
  <2> QED
    BY <2>1, <2>2 DEF JInv, TurnsInOrder, InTurn, AllTurnsTaken, ClosingsSpoken, VerdictDrawn
<1>5. CASE Judge
  <2>1. /\ UNCHANGED <<transcript, closing>> /\ stage = "judge" /\ stage' = "done"
        /\ verdict' = Judged
    BY <1>5 DEF Judge
  <2> QED
    BY <2>1 DEF JInv, TurnsInOrder, InTurn, AllTurnsTaken, ClosingsSpoken, VerdictDrawn, Judged, Spoken
<1>6. CASE FailClosing
  BY <1>6 DEF FailClosing, AfterClosing, JInv, TurnsInOrder, InTurn, AllTurnsTaken, ClosingsSpoken,
              VerdictDrawn
<1>7. CASE LoseArgument \/ DriftCheck \/ DriftRefused \/ LoseClosing \/ JudgeRefused
  BY <1>7 DEF LoseArgument, DriftCheck, DriftRefused, LoseClosing, JudgeRefused,
              JInv, TurnsInOrder, InTurn, AllTurnsTaken, ClosingsSpoken, VerdictDrawn
<1>8. CASE Over \/ UNCHANGED vars
  BY <1>8 DEF Over, vars, JInv, TurnsInOrder, InTurn, AllTurnsTaken, ClosingsSpoken, VerdictDrawn,
              Judged, Spoken
<1> QED
  BY <1>1, <1>2, <1>3, <1>4, <1>5, <1>6, <1>7, <1>8 DEF Next

\* The positions of the answered turns, and of the closing statements after them.
LEMMA JudgedCounts ==
  ASSUME IInv, JInv
  PROVE  Cardinality({i \in DOMAIN transcript : ~transcript[i].failed}) + Len(closing)
           = Cardinality(Judged)
<1> DEFINE n == Len(transcript)
           A == {i \in DOMAIN transcript : ~transcript[i].failed}
           B == n + 1 .. n + Len(closing)
<1>1. /\ transcript \in Seq(Messages) /\ closing \in Seq(Messages)
      /\ n \in Nat /\ Len(closing) \in Nat
      /\ DOMAIN transcript = 1 .. n /\ DOMAIN Spoken = 1 .. n + Len(closing)
  BY DEF IInv, TypeOK, Spoken
<1>2. \A i \in 1 .. n : Spoken[i] = transcript[i]
  BY <1>1 DEF Spoken
<1>3. \A i \in B : ~Spoken[i].failed
  <2>1. \A i \in B : Spoken[i] = closing[i - n] /\ i - n \in 1 .. Len(closing)
    BY <1>1 DEF Spoken
  <2> QED
    BY <2>1 DEF JInv, ClosingsSpoken
<1> HIDE DEF n
<1>4. Judged = A \cup B /\ A \cap B = {}
  <2>1. \A i \in DOMAIN Spoken : i \in 1 .. n \/ i \in B
    BY <1>1
  <2>2. \A i \in A : i \in DOMAIN Spoken /\ i \in 1 .. n
    BY <1>1
  <2>3. \A i \in B : i \in DOMAIN Spoken /\ i \notin 1 .. n
    BY <1>1
  <2>4. \A i \in 1 .. n : i \in A <=> ~Spoken[i].failed
    BY <1>1, <1>2
  <2> HIDE DEF A, B
  <2> QED
    BY <1>3, <2>1, <2>2, <2>3, <2>4 DEF Judged
<1>5. IsFiniteSet(A) /\ Cardinality(A) \in Nat
  <2>1. IsFiniteSet(1 .. n) /\ A \subseteq 1 .. n
    BY <1>1, FS_Interval
  <2> QED
    BY <2>1, FS_Subset, FS_CardinalityType
<1>6. IsFiniteSet(B) /\ Cardinality(B) = Len(closing)
  <2>1. ASSUME NEW k \in Nat, NEW l \in Nat
        PROVE  IsFiniteSet(k + 1 .. k + l) /\ Cardinality(k + 1 .. k + l) = l
    <3>1. k + 1 \in Int /\ k + l \in Int
      OBVIOUS
    <3>2. /\ IsFiniteSet(k + 1 .. k + l)
          /\ Cardinality(k + 1 .. k + l) = IF k + 1 > k + l THEN 0 ELSE k + l - (k + 1) + 1
      BY <3>1, FS_Interval
    <3> QED
      BY <3>2
  <2> QED
    BY <1>1, <2>1
<1>7. Cardinality(A \cap B) = 0
  BY <1>4, FS_EmptySet
<1> HIDE DEF A, B
<1>8. Cardinality(A \cup B) = Cardinality(A) + Cardinality(B) - Cardinality(A \cap B)
  BY <1>5, <1>6, FS_Union
<1> QED
  BY <1>1, <1>4, <1>5, <1>6, <1>7, <1>8 DEF A

\* For any number of rounds, a run that completes has taken the turns of every
\* round in order, and its verdict is drawn from every argument made, closing
\* statements included and FAILED turns excluded (loop.py:99-148).
THEOREM JudgedSafe == Spec => []JudgedOnEverything
<1>1. IInv /\ JInv => JudgedOnEverything
  <2> SUFFICES ASSUME IInv, JInv, stage = "done"
               PROVE  /\ Len(transcript) = 2 * Rounds
                      /\ \A i \in DOMAIN transcript : InTurn(transcript[i], i)
                      /\ Cardinality({i \in DOMAIN transcript : ~transcript[i].failed})
                           + Len(closing) = Cardinality(verdict)
    BY DEF JudgedOnEverything, InTurn
  <2>1. DOMAIN transcript = 1 .. Len(transcript)
    BY DEF IInv, TypeOK
  <2> QED
    BY <2>1, JudgedCounts DEF JInv, TurnsInOrder, AllTurnsTaken, VerdictDrawn
<1> QED
  BY <1>1, Invariance, RInit, NextRebuts, JInit, NextJudged, PTL DEF Spec

-----------------------------------------------------------------------------
(* The stream tells the run                                                *)
(*                                                                         *)
(* A tale grows by one subject at a time, and each subject is unlike those *)
(* before it: turns differ in side or round (TurnsInOrder), corrections are *)
(* of different turns (NudgesOfTurns), the closings of different sides     *)
(* (ClosingsInTurn).  A turn is relayed in the step that forwards it.      *)

\* A FAILED turn holds no phrase that could capture it.
FailedMarked == \A i \in 1 .. Len(transcript) : transcript[i].failed => transcript[i].style = "marker"

\* A correction is of a turn that was checked.
NudgesOfTurns ==
  \A k \in 1 .. Len(nudges) : \E i \in 1 .. Len(transcript) :
    /\ nudges[k] = <<transcript[i].side, transcript[i].round>>
    /\ stage = "drift" => i < Len(transcript)

\* Pro closes before Con, and both after the rounds.
ClosingsInTurn ==
  /\ stage \in {"turn", "drift", "forward"} => closing = <<>>
  /\ stage = "closing" => \A i \in 1 .. Len(closing) : side = Con /\ closing[i].side = Pro

\* The latest turn is relayed in the step that forwards it.
Relayed(n) ==
  /\ n \in {Len(transcript) - 1, Len(transcript)}
  /\ stage \in {"drift", "forward"} => n = Len(transcript) - 1
  /\ stage \notin {"drift", "forward", "crashed"} => n = Len(transcript)
RelaysTold == \E n \in {Len(transcript) - 1, Len(transcript)} :
                Relayed(n) /\ Tells(Tale("relay"), AnsweredTurns(n))

MessagesTold ==
  /\ Tells(Tale("message"), AnsweredTurns(Len(transcript)))
  /\ Tells(Tale("closing_message"), closing)

NudgesTold == Tells(Corrections, nudges)

MessagesFirst ==
  \A p \in StreamedAs("nudge") \cup StreamedAs("relay") :
    \E q \in StreamedAs("message") : q < p /\ logged[q].about = logged[p].about

VerdictTold ==
  /\ stage # "done" => verdict = {} /\ StreamedAs("verdict") = {}
  /\ verdict # {} => StreamedAs("verdict") # {}
  /\ \A p \in StreamedAs("verdict") : verdict # {} /\ \A q \in Streamed : q <= p

RunInTurn == FailedMarked /\ NudgesOfTurns /\ ClosingsInTurn
StreamInStep == MessagesTold /\ NudgesTold /\ RelaysTold /\ MessagesFirst /\ VerdictTold

-----------------------------------------------------------------------------
\* One more subject, told last.
LEMMA TellsMore ==
  ASSUME NEW f, NEW g, NEW f2, NEW g2, Tells(f, g),
         NEW p \in Int, NEW k \in Int,
         DOMAIN f \subseteq Int, DOMAIN g \subseteq Int,
         \A q \in DOMAIN f : q < p /\ f2[q] = f[q], f2[p] = g2[k],
         DOMAIN f2 = DOMAIN f \cup {p},
         \A i \in DOMAIN g : i < k /\ g2[i] = g[i] /\ g[i] # g2[k],
         DOMAIN g2 = DOMAIN g \cup {k}
  PROVE  Tells(f2, g2)
<1>1. \A q \in DOMAIN f2 : \E i \in DOMAIN g2 : f2[q] = g2[i]
  BY DEF Tells
<1>2. \A i \in DOMAIN g2 : \E q \in DOMAIN f2 : f2[q] = g2[i]
  BY DEF Tells
<1>3. ASSUME NEW q \in DOMAIN f2, NEW r \in DOMAIN f2, NEW i \in DOMAIN g2, NEW j \in DOMAIN g2,
             q < r, f2[q] = g2[i], f2[r] = g2[j]
      PROVE  i < j
  <2>1. q \in DOMAIN f
    BY <1>3
  <2>2. PICK i0 \in DOMAIN g : f[q] = g[i0]
    BY <2>1 DEF Tells
  <2>3. i # k
    BY <1>3, <2>1, <2>2
  <2>4. CASE r = p
    <3>1. j = k
      BY <1>3, <2>4
    <3> QED
      BY <2>3, <3>1
  <2>5. CASE r # p
    <3>1. r \in DOMAIN f
      BY <2>5
    <3>2. PICK j0 \in DOMAIN g : f[r] = g[j0]
      BY <3>1 DEF Tells
    <3>3. j # k
      BY <1>3, <3>1, <3>2
    <3> QED
      BY <1>3, <2>1, <2>3, <3>1, <3>3 DEF Tells
  <2> QED
    BY <2>4, <2>5
<1> QED
  BY <1>1, <1>2, <1>3 DEF Tells

\* The events of a kind among those appended to the log.
LEMMA LogGrows ==
  ASSUME logged \in Seq(Events), NEW told \in Seq(Events), logged' = logged \o told
  PROVE  /\ logged' \in Seq(Events) /\ DOMAIN logged = 1 .. Len(logged) /\ Len(logged) \in Nat
         /\ DOMAIN logged' = 1 .. Len(logged) + Len(told) /\ Len(told) \in Nat
         /\ \A p \in DOMAIN logged : logged'[p] = logged[p]
         /\ \A i \in 1 .. Len(told) : logged'[Len(logged) + i] = told[i]
         /\ \A p \in DOMAIN logged' : p \in DOMAIN logged
              \/ (p - Len(logged) \in 1 .. Len(told) /\ logged'[p] = told[p - Len(logged)])
<1>1. Len(logged) \in Nat /\ Len(told) \in Nat /\ DOMAIN logged = 1 .. Len(logged)
  OBVIOUS
<1>2. logged' \in Seq(Events)
  OBVIOUS
<1>3. DOMAIN logged' = 1 .. Len(logged) + Len(told)
  OBVIOUS
<1>4. \A p \in 1 .. Len(logged) : logged'[p] = logged[p]
  OBVIOUS
<1>5. \A i \in 1 .. Len(told) : logged'[Len(logged) + i] = told[i]
  OBVIOUS
<1>6. ASSUME NEW p \in 1 .. Len(logged) + Len(told), p \notin 1 .. Len(logged)
      PROVE  p - Len(logged) \in 1 .. Len(told) /\ logged'[p] = told[p - Len(logged)]
  <2>1. p - Len(logged) \in 1 .. Len(told) /\ Len(logged) + (p - Len(logged)) = p
    BY <1>1, <1>6
  <2> QED
    BY <1>5, <2>1
<1>7. \A p \in DOMAIN logged' : p \in DOMAIN logged
        \/ (p - Len(logged) \in 1 .. Len(told) /\ logged'[p] = told[p - Len(logged)])
  BY <1>1, <1>3, <1>6
<1>8. \A p \in DOMAIN logged : logged'[p] = logged[p]
  BY <1>1, <1>4
<1> QED
  BY <1>1, <1>2, <1>3, <1>5, <1>7, <1>8, Zenon

\* A kind none of which is appended keeps its tale.
LEMMA NoneTold ==
  ASSUME logged \in Seq(Events), NEW told \in Seq(Events), logged' = logged \o told,
         NEW kind, \A i \in 1 .. Len(told) : told[i].kind # kind
  PROVE  /\ StreamedAs(kind)' = StreamedAs(kind) /\ Tale(kind)' = Tale(kind)
         /\ \A p \in StreamedAs(kind) : p \in Nat /\ logged'[p] = logged[p]
<1>1. \A p \in DOMAIN logged' : logged'[p].kind = kind => p \in DOMAIN logged
  BY LogGrows
<1>2. DOMAIN logged \subseteq DOMAIN logged' /\ \A p \in DOMAIN logged : logged'[p] = logged[p]
  BY LogGrows
<1>3. StreamedAs(kind)' = StreamedAs(kind)
  BY <1>1, <1>2 DEF StreamedAs, Streamed
<1>4. \A p \in StreamedAs(kind) : p \in Nat /\ logged'[p] = logged[p]
  BY <1>2, LogGrows DEF StreamedAs, Streamed
<1>5. Tale(kind)' = Tale(kind)
  BY <1>3, <1>4 DEF Tale
<1> QED
  BY <1>3, <1>4, <1>5

\* The last event appended is the only one of its kind.
LEMMA LastTold ==
  ASSUME logged \in Seq(Events), NEW told \in Seq(Events), logged' = logged \o told,
         NEW kind, kind \notin LogOnly, told # <<>>,
         \A i \in 1 .. Len(told) : told[i].kind = kind <=> i = Len(told)
  PROVE  LET p == Len(logged) + Len(told) IN
         /\ StreamedAs(kind)' = StreamedAs(kind) \cup {p}
         /\ p \in Nat /\ logged'[p] = told[Len(told)]
         /\ \A q \in StreamedAs(kind) : q \in Nat /\ q < p /\ logged'[q] = logged[q]
<1> DEFINE p == Len(logged) + Len(told)
<1>0. Len(told) \in Nat \ {0} /\ Len(logged) \in Nat
  OBVIOUS
<1>1. p \in Nat /\ p \in DOMAIN logged' /\ p \notin DOMAIN logged /\ logged'[p] = told[Len(told)]
  BY <1>0, LogGrows
<1>2. ASSUME NEW q \in DOMAIN logged', logged'[q].kind = kind, q \notin DOMAIN logged
      PROVE  q = p
  <2>1. q - Len(logged) \in 1 .. Len(told) /\ logged'[q] = told[q - Len(logged)]
    BY <1>2, LogGrows
  <2>2. q - Len(logged) = Len(told) /\ q \in Int
    BY <1>2, <2>1, LogGrows
  <2> QED
    BY <1>0, <2>2
<1>3. /\ DOMAIN logged \subseteq DOMAIN logged' /\ \A q \in DOMAIN logged : logged'[q] = logged[q]
      /\ \A q \in DOMAIN logged : q \in Nat /\ q < p
  BY LogGrows
<1>4. told[Len(told)].kind = kind
  OBVIOUS
<1>5. StreamedAs(kind)' = StreamedAs(kind) \cup {p}
  BY <1>1, <1>2, <1>3, <1>4 DEF StreamedAs, Streamed
<1>6. \A q \in StreamedAs(kind) : q \in DOMAIN logged
  BY DEF StreamedAs, Streamed
<1> QED
  BY <1>1, <1>3, <1>5, <1>6

\* The same, with what it does to a tale.
LEMMA TaleGrows ==
  ASSUME NEW kind, NEW p \in Int, NEW e, StreamedAs(kind)' = StreamedAs(kind) \cup {p},
         logged'[p] = e,
         \A q \in StreamedAs(kind) : q \in Int /\ q < p /\ logged'[q] = logged[q],
         NEW g, NEW g2, NEW k \in Int, DOMAIN g \subseteq Int, DOMAIN g2 = DOMAIN g \cup {k},
         \A i \in DOMAIN g : i < k /\ g2[i] = g[i] /\ g[i] # g2[k]
  PROVE  /\ Tells(Tale(kind), g) /\ g2[k] = e.about => Tells(Tale(kind)', g2)
         /\ kind = "nudge" /\ Tells(Corrections, g) /\ g2[k] = <<e.about.side, e.about.round>>
              => Tells(Corrections', g2)
<1>1. ASSUME Tells(Tale(kind), g), g2[k] = e.about
      PROVE  Tells(Tale(kind)', g2)
  <2>1. /\ DOMAIN Tale(kind) = StreamedAs(kind)
        /\ DOMAIN Tale(kind)' = DOMAIN Tale(kind) \cup {p}
    BY DEF Tale
  <2>2. Tale(kind)'[p] = g2[k]
    BY <1>1 DEF Tale
  <2>3. \A q \in DOMAIN Tale(kind) : q < p /\ Tale(kind)'[q] = Tale(kind)[q]
    BY DEF Tale
  <2> QED
    BY <1>1, <2>1, <2>2, <2>3, TellsMore
<1>2. ASSUME kind = "nudge", Tells(Corrections, g), g2[k] = <<e.about.side, e.about.round>>
      PROVE  Tells(Corrections', g2)
  <2>1. /\ DOMAIN Corrections = StreamedAs(kind)
        /\ DOMAIN Corrections' = DOMAIN Corrections \cup {p}
    BY <1>2 DEF Corrections
  <2>2. Corrections'[p] = g2[k]
    BY <1>2 DEF Corrections
  <2>3. \A q \in DOMAIN Corrections : q < p /\ Corrections'[q] = Corrections[q]
    BY <1>2 DEF Corrections
  <2> QED
    BY <1>2, <2>1, <2>2, <2>3, TellsMore
<1> QED
  BY <1>1, <1>2

\* The kinds a tale is told of.
ToldKinds == {"message", "closing_message", "nudge", "relay", "verdict"}

LEMMA Unheard ==
  ASSUME logged \in Seq(Events), NEW told \in Seq(Events), logged' = logged \o told,
         NEW heard \in SUBSET ToldKinds, \A i \in 1 .. Len(told) : told[i].kind \notin heard
  PROVE  /\ \A kind \in heard : StreamedAs(kind)' = StreamedAs(kind) /\ Tale(kind)' = Tale(kind)
         /\ "nudge" \in heard => Corrections' = Corrections
         /\ \A kind \in heard : \A p \in StreamedAs(kind) : p \in Nat /\ logged'[p] = logged[p]
<1>1. ASSUME NEW kind \in heard
      PROVE  /\ StreamedAs(kind)' = StreamedAs(kind) /\ Tale(kind)' = Tale(kind)
             /\ \A p \in StreamedAs(kind) : p \in Nat /\ logged'[p] = logged[p]
  <2>1. \A i \in 1 .. Len(told) : told[i].kind # kind
    OBVIOUS
  <2> QED
    BY <2>1, NoneTold
<1>2. "nudge" \in heard => Corrections' = Corrections
  BY <1>1 DEF Corrections
<1> QED
  BY <1>1, <1>2

LEMMA OneTold == ASSUME NEW e, logged \in Seq(Events) PROVE Append(logged, e) = logged \o <<e>>
  OBVIOUS

LEMMA SaidLast ==
  ASSUME NEW m \in Messages, NEW kind \in {"message", "closing_message"}
  PROVE  LET told == Said(kind, m)
         IN  /\ told \in Seq(Events) /\ told # <<>> /\ told[Len(told)].about = m
             /\ \A i \in 1 .. Len(told) : told[i].kind \in {"api_call", "word_limit", kind}
             /\ \A i \in 1 .. Len(told) : told[i].kind = kind <=> i = Len(told)
<1>1. Said(kind, m) \in Seq(Events)
  BY SaidTyped
<1> DEFINE first == <<Event("api_call", NoMessage)>>
           trim  == IF m.trimmed THEN <<Event("word_limit", NoMessage)>> ELSE <<>>
           e     == Event(kind, m)
<1>2. /\ Event("api_call", NoMessage) \in Events /\ Event("word_limit", NoMessage) \in Events
      /\ e \in Events /\ e.kind = kind /\ e.about = m
      /\ Event("api_call", NoMessage).kind = "api_call"
      /\ Event("word_limit", NoMessage).kind = "word_limit"
  <2>1. Event("api_call", NoMessage) \in Events /\ Event("word_limit", NoMessage) \in Events /\ e \in Events
    BY EventTyped DEF EventKinds, LogOnly
  <2> QED
    BY <2>1 DEF Event
<1>3. first \in Seq(Events) /\ \A i \in 1 .. Len(first) : first[i].kind = "api_call"
  BY <1>2
<1>4. trim \in Seq(Events) /\ \A i \in 1 .. Len(trim) : trim[i].kind = "word_limit"
  BY <1>2
<1>5. Said(kind, m) = Append(first \o trim, e)
  <2>1. \A s \in Seq(Events) : s \o <<e>> = Append(s, e)
    BY <1>2
  <2>2. first \o trim \in Seq(Events)
    BY <1>3, <1>4
  <2>3. Said(kind, m) = (first \o trim) \o <<e>>
    BY DEF Said
  <2> QED
    BY <2>1, <2>2, <2>3
<1> HIDE DEF first, trim, e
<1>6. /\ first \o trim \in Seq(Events)
      /\ \A i \in 1 .. Len(first \o trim) : (first \o trim)[i].kind \in {"api_call", "word_limit"}
  BY <1>3, <1>4
<1> DEFINE before == first \o trim
<1> HIDE DEF before
<1>7. before \in Seq(Events) /\ \A i \in 1 .. Len(before) : before[i].kind \in {"api_call", "word_limit"}
  BY <1>6 DEF before
<1>8. Said(kind, m) = Append(before, e)
  BY <1>5 DEF before
<1> QED
  BY <1>2, <1>7, <1>8

-----------------------------------------------------------------------------
(* The turns and their answers *)

AnsweredIn(t, n) == [i \in {k \in 1 .. n : ~t[k].failed} |-> t[i]]

LEMMA AnsweredBoth ==
  \A n : AnsweredTurns(n) = AnsweredIn(transcript, n) /\ AnsweredTurns(n)' = AnsweredIn(transcript', n)
  BY DEF AnsweredTurns, AnsweredIn

LEMMA AnsweredOlder ==
  ASSUME NEW t \in Seq(Messages), NEW m \in Messages, NEW n \in Int, n <= Len(t)
  PROVE  AnsweredIn(Append(t, m), n) = AnsweredIn(t, n)
<1>1. \A k \in 1 .. n : Append(t, m)[k] = t[k]
  OBVIOUS
<1>2. {k \in 1 .. n : ~Append(t, m)[k].failed} = {k \in 1 .. n : ~t[k].failed}
  BY <1>1
<1> QED
  BY <1>1, <1>2 DEF AnsweredIn

LEMMA AnsweredNext ==
  ASSUME NEW t, NEW n \in Nat, NEW k, k = n + 1
  PROVE  /\ DOMAIN AnsweredIn(t, n) \subseteq Int
         /\ t[k].failed => AnsweredIn(t, k) = AnsweredIn(t, n)
         /\ ~t[k].failed => /\ DOMAIN AnsweredIn(t, k) = DOMAIN AnsweredIn(t, n) \cup {k}
                            /\ AnsweredIn(t, k)[k] = t[k]
         /\ \A i \in DOMAIN AnsweredIn(t, n) :
              i \in 1 .. n /\ AnsweredIn(t, n)[i] = t[i] /\ AnsweredIn(t, k)[i] = t[i]
<1>1. \A i : i \in 1 .. k <=> i \in 1 .. n \/ i = k
  OBVIOUS
<1>2. t[k].failed => {i \in 1 .. k : ~t[i].failed} = {i \in 1 .. n : ~t[i].failed}
  BY <1>1
<1>3. ~t[k].failed => {i \in 1 .. k : ~t[i].failed} = {i \in 1 .. n : ~t[i].failed} \cup {k}
  BY <1>1
<1> QED
  BY <1>1, <1>2, <1>3 DEF AnsweredIn

\* A turn is known by its side and round.
LEMMA TurnKnown ==
  ASSUME NEW i \in Nat, NEW j \in Nat, NEW m, NEW l, InTurn(m, i), InTurn(l, j),
         m.side = l.side, m.round = l.round
  PROVE  i = j
<1>1. i % 2 = j % 2
  <2>1. i % 2 \in {0, 1} /\ j % 2 \in {0, 1}
    OBVIOUS
  <2> QED
    BY <2>1, SidesTwo DEF InTurn
<1>2. (i + 1) \div 2 = (j + 1) \div 2
  BY DEF InTurn
<1> QED
  BY <1>1, <1>2

\* The turns so far and the corrections of them.
LEMMA TurnTypes ==
  ASSUME IInv
  PROVE  /\ transcript \in Seq(Messages) /\ closing \in Seq(Messages) /\ Len(transcript) \in Nat
         /\ nudges \in Seq(Sides \X (1 .. Rounds)) /\ logged \in Seq(Events)
         /\ side \in Sides /\ round \in 1 .. Rounds /\ Len(closing) \in Nat /\ Len(nudges) \in Nat
  BY Typed DEF IInv, TypeOK

\* The turn just taken is the one that was due.
LEMMA LatestIsTurn ==
  ASSUME IInv, RInv, JInv, stage \in {"drift", "forward"}
  PROVE  /\ Latest \in Messages /\ Latest.side = side /\ Latest.round = round
         /\ Len(transcript) > 0 /\ Latest = transcript[Len(transcript)]
         /\ Len(transcript) \in Nat
<1>1. /\ Latest \in Messages /\ Latest.side = side /\ Len(transcript) > 0
      /\ Latest = transcript[Len(transcript)]
  BY LatestTyped DEF Latest, Last
<1>2. /\ Len(transcript) = AnsweredAt(side, round) + 1 /\ side \in Sides /\ round \in 1 .. Rounds
      /\ transcript \in Seq(Messages) /\ InTurn(transcript[Len(transcript)], Len(transcript))
  BY <1>1, Typed DEF RInv, TurnsTaken, JInv, TurnsInOrder
<1>3. Latest.round = round
  <2>1. Latest.round = (Len(transcript) + 1) \div 2
    BY <1>1, <1>2 DEF InTurn
  <2>3. CASE side = Con
    BY <1>2, <2>1, <2>3 DEF AnsweredAt
  <2>4. CASE side # Con
    BY <1>2, <2>1, <2>4 DEF AnsweredAt
  <2> QED
    BY <2>3, <2>4
<1> QED
  BY <1>1, <1>2, <1>3

\* The turn that is due is unlike every turn before.
LEMMA TurnIsNew ==
  ASSUME IInv, RInv, JInv, stage = "turn", NEW i \in 1 .. Len(transcript)
  PROVE  ~(transcript[i].side = side /\ transcript[i].round = round)
<1>1. /\ transcript \in Seq(Messages) /\ side \in Sides /\ round \in 1 .. Rounds
      /\ Len(transcript) = AnsweredAt(side, round) /\ InTurn(transcript[i], i)
  BY Typed DEF RInv, TurnsTaken, JInv, TurnsInOrder
<1> DEFINE m == [side |-> side, round |-> round]
<1>2. InTurn(m, Len(transcript) + 1) /\ m.side = side /\ m.round = round
  BY <1>1, NextInTurn
<1>3. i # Len(transcript) + 1 /\ i \in Nat /\ Len(transcript) + 1 \in Nat
  BY <1>1
<1> HIDE DEF m
<1> QED
  BY <1>1, <1>2, <1>3, TurnKnown

LEMMA InTurnKept ==
  ASSUME IInv, RInv, JInv, RunInTurn, [Next]_vars
  PROVE  RunInTurn'
<1>1. ASSUME NEW m \in Messages, m.failed => m.style = "marker",
             stage = "turn", stage' = "drift", transcript' = Append(transcript, m),
             UNCHANGED <<closing, nudges>>
      PROVE  RunInTurn'
  <2>1. transcript \in Seq(Messages) /\ nudges \in Seq(Sides \X (1 .. Rounds))
    BY TurnTypes
  <2>2. /\ Len(transcript') = Len(transcript) + 1 /\ Len(transcript) \in Nat
        /\ transcript'[Len(transcript) + 1] = m
        /\ \A i \in 1 .. Len(transcript) : transcript'[i] = transcript[i]
    BY <1>1, <2>1
  <2>3. FailedMarked'
    BY <1>1, <2>2 DEF RunInTurn, FailedMarked
  <2>4. NudgesOfTurns'
    BY <1>1, <2>2 DEF RunInTurn, NudgesOfTurns
  <2>5. ClosingsInTurn'
    BY <1>1 DEF RunInTurn, ClosingsInTurn
  <2> QED
    BY <2>3, <2>4, <2>5 DEF RunInTurn
<1>2. CASE Argue
  <2>1. PICK style \in Styles, long \in BOOLEAN :
          transcript' = Append(transcript, Message(side, round, style, long))
    BY <1>2 DEF Argue
  <2>2. Message(side, round, style, long) \in Messages /\ ~Message(side, round, style, long).failed
    BY TurnTypes, MessageTyped DEF Message
  <2> QED
    BY <1>1, <1>2, <2>1, <2>2 DEF Argue
<1>3. CASE FailArgument
  <2>1. FailedMarker(side, round) \in Messages /\ FailedMarker(side, round).style = "marker"
    BY TurnTypes, MessageTyped DEF Styles
  <2> QED
    BY <1>1, <1>3, <2>1 DEF FailArgument
<1>4. CASE DriftCheck
  <2>1. stage = "drift" /\ stage' = "forward" /\ UNCHANGED <<transcript, closing>>
    BY <1>4 DEF DriftCheck
  <2>2. FailedMarked' /\ ClosingsInTurn'
    BY <2>1 DEF RunInTurn, FailedMarked, ClosingsInTurn
  <2>3. nudges' = nudges \/ nudges' = Append(nudges, <<side, round>>)
    BY <1>4 DEF DriftCheck
  <2>4. NudgesOfTurns'
    <3>1. CASE nudges' = nudges
      BY <2>1, <3>1 DEF RunInTurn, NudgesOfTurns
    <3>2. CASE nudges' = Append(nudges, <<side, round>>)
      <4>1. /\ Len(nudges') = Len(nudges) + 1 /\ Len(nudges) \in Nat
            /\ nudges'[Len(nudges) + 1] = <<side, round>>
            /\ \A k \in 1 .. Len(nudges) : nudges'[k] = nudges[k]
        BY <3>2, TurnTypes
      <4>2. /\ Len(transcript) \in 1 .. Len(transcript)
            /\ transcript[Len(transcript)].side = side /\ transcript[Len(transcript)].round = round
        BY <2>1, LatestIsTurn
      <4>3. ASSUME NEW k \in 1 .. Len(nudges')
            PROVE  \E i \in 1 .. Len(transcript) :
                     nudges'[k] = <<transcript[i].side, transcript[i].round>>
        <5>1. CASE k = Len(nudges) + 1
          BY <4>1, <4>2, <5>1
        <5>2. CASE k \in 1 .. Len(nudges)
          BY <4>1, <5>2 DEF RunInTurn, NudgesOfTurns
        <5> QED
          BY <4>1, <5>1, <5>2
      <4> QED
        BY <2>1, <4>3 DEF NudgesOfTurns
    <3> QED
      BY <2>3, <3>1, <3>2
  <2> QED
    BY <2>2, <2>4 DEF RunInTurn
<1>5. CASE Forward
  <2>1. /\ stage = "forward" /\ UNCHANGED <<transcript, closing, nudges>>
        /\ stage' \in {"turn", "closing"}
    BY <1>5 DEF Forward
  <2> QED
    BY <2>1 DEF RunInTurn, FailedMarked, NudgesOfTurns, ClosingsInTurn
<1>6. CASE Close
  <2>1. PICK style \in Styles, long \in BOOLEAN :
          closing' = Append(closing, Message(side, ClosingStamp, style, long))
    BY <1>6 DEF Close
  <2> DEFINE m == Message(side, ClosingStamp, style, long)
  <2>2. /\ stage = "closing" /\ UNCHANGED <<transcript, nudges>> /\ side' = Opponent(side)
        /\ stage' = IF side = Con THEN "judge" ELSE "closing"
    BY <1>6 DEF Close, AfterClosing
  <2>3. ASSUME stage' = "closing", NEW i \in 1 .. Len(closing')
        PROVE  side' = Con /\ closing'[i].side = Pro
    <3>1. side = Pro /\ side # Con /\ side' = Con
      BY <2>2, <2>3, TurnTypes DEF Sides, Opponent, Pro, Con
    <3>2. Len(closing) = 0
      <4>1. \A j \in 1 .. Len(closing) : FALSE
        BY <2>2, <3>1 DEF RunInTurn, ClosingsInTurn
      <4>2. Len(closing) \in Nat
        BY TurnTypes
      <4>3. Len(closing) > 0 => 1 \in 1 .. Len(closing)
        BY <4>2
      <4> QED
        BY <4>1, <4>2, <4>3
    <3>3. m \in Messages /\ m.side = side
      <4>1. ClosingStamp \in 1 .. Rounds
        BY DebateLoopAssumption DEF ClosingStamp
      <4> QED
        BY <4>1, TurnTypes, MessageTyped
    <3> HIDE DEF m
    <3>4. closing' = Append(closing, m) /\ closing \in Seq(Messages)
      BY <2>1, TurnTypes DEF m
    <3>5. i = 1 /\ closing'[1] = m
      BY <2>3, <3>2, <3>3, <3>4
    <3> QED
      BY <3>1, <3>3, <3>5
  <2>4. stage' \notin {"turn", "drift", "forward"}
    BY <2>2
  <2> QED
    BY <2>2, <2>3, <2>4 DEF RunInTurn, FailedMarked, NudgesOfTurns, ClosingsInTurn
<1>7. CASE FailClosing
  <2>1. /\ stage = "closing" /\ UNCHANGED <<transcript, nudges, closing>> /\ side' = Opponent(side)
        /\ stage' = IF side = Con THEN "judge" ELSE "closing"
    BY <1>7 DEF FailClosing, AfterClosing
  <2>2. stage' \notin {"turn", "drift", "forward"}
    BY <2>1
  <2>3. ASSUME stage' = "closing", NEW i \in 1 .. Len(closing)
        PROVE  FALSE
    BY <2>1, <2>3 DEF RunInTurn, ClosingsInTurn
  <2> QED
    BY <2>1, <2>2, <2>3 DEF RunInTurn, FailedMarked, NudgesOfTurns, ClosingsInTurn
<1>8. CASE LoseArgument \/ DriftRefused \/ LoseClosing \/ Judge \/ JudgeRefused
  <2>1. UNCHANGED <<transcript, nudges, closing>> /\ stage' \in {"crashed", "done"}
    BY <1>8 DEF LoseArgument, DriftRefused, LoseClosing, Judge, JudgeRefused
  <2> QED
    BY <2>1 DEF RunInTurn, FailedMarked, NudgesOfTurns, ClosingsInTurn
<1>9. CASE Over \/ UNCHANGED vars
  BY <1>9 DEF Over, vars, RunInTurn, FailedMarked, NudgesOfTurns, ClosingsInTurn
<1> QED
  BY <1>2, <1>3, <1>4, <1>5, <1>6, <1>7, <1>8, <1>9 DEF Next

\* What a nudge or a relay is about stays told before it.
LEMMA MessagesFirstKept ==
  ASSUME MessagesFirst, StreamedAs("message") \subseteq StreamedAs("message")',
         StreamedAs("nudge")' = StreamedAs("nudge"), StreamedAs("relay")' = StreamedAs("relay"),
         \A kind \in {"message", "nudge", "relay"} :
           \A p \in StreamedAs(kind) : logged'[p].about = logged[p].about
  PROVE  MessagesFirst'
<1> SUFFICES ASSUME NEW p \in StreamedAs("nudge")' \cup StreamedAs("relay")'
             PROVE  \E q \in StreamedAs("message")' : q < p /\ logged'[q].about = logged'[p].about
  BY DEF MessagesFirst
<1>1. p \in StreamedAs("nudge") \cup StreamedAs("relay") /\ logged'[p].about = logged[p].about
  OBVIOUS
<1>2. PICK q \in StreamedAs("message") : q < p /\ logged[q].about = logged[p].about
  BY <1>1 DEF MessagesFirst
<1> QED
  BY <1>1, <1>2

LEMMA ArgueTells ==
  ASSUME IInv, RInv, JInv, RunInTurn, StreamInStep, Argue
  PROVE  StreamInStep'
<1>1. PICK style \in Styles, long \in BOOLEAN :
        LET message == Message(side, round, style, long)
        IN  /\ transcript' = Append(transcript, message)
            /\ logged' = logged \o Said("message", message)
  BY DEF Argue
<1> DEFINE m == Message(side, round, style, long)
           told == Said("message", m)
           p == Len(logged) + Len(told)
<1>2. m \in Messages /\ m.side = side /\ m.round = round /\ ~m.failed
  BY TurnTypes, MessageTyped DEF Message
<1>3. /\ transcript' = Append(transcript, m) /\ logged' = logged \o told
      /\ transcript \in Seq(Messages) /\ logged \in Seq(Events)
      /\ stage = "turn" /\ stage' = "drift" /\ UNCHANGED <<closing, nudges, verdict>>
  BY <1>1, TurnTypes DEF Argue
<1> HIDE DEF m
<1>0. PICK n \in Nat : n = Len(transcript)
  BY <1>3
<1>4. /\ told \in Seq(Events) /\ told # <<>> /\ told[Len(told)].about = m
      /\ \A i \in 1 .. Len(told) : told[i].kind \in {"api_call", "word_limit", "message"}
      /\ \A i \in 1 .. Len(told) : told[i].kind = "message" <=> i = Len(told)
  BY <1>2, SaidLast
<1>5. /\ n \in Nat /\ Len(transcript') = n + 1 /\ transcript'[n + 1] = m
      /\ \A i \in 1 .. n : transcript'[i] = transcript[i]
  BY <1>0, <1>2, <1>3
<1> HIDE DEF told
<1>6. /\ StreamedAs("message")' = StreamedAs("message") \cup {p}
      /\ p \in Nat /\ logged'[p] = told[Len(told)]
      /\ \A q \in StreamedAs("message") : q \in Nat /\ q < p /\ logged'[q] = logged[q]
  <2>1. "message" \notin LogOnly
    BY DEF LogOnly
  <2> QED
    BY <1>3, <1>4, <2>1, LastTold
<1> HIDE DEF p
<1> DEFINE others == {"closing_message", "nudge", "relay", "verdict"}
<1>7. /\ \A kind \in others : StreamedAs(kind)' = StreamedAs(kind) /\ Tale(kind)' = Tale(kind)
      /\ "nudge" \in others => Corrections' = Corrections
      /\ \A kind \in others : \A q \in StreamedAs(kind) : q \in Nat /\ logged'[q] = logged[q]
  <2>1. \A i \in 1 .. Len(told) : told[i].kind \notin others
    BY <1>4
  <2>2. others \in SUBSET ToldKinds
    BY DEF ToldKinds
  <2> QED
    BY <1>3, <1>4, <2>1, <2>2, Unheard
<1>8. \A i : AnsweredTurns(i) = AnsweredIn(transcript, i) /\ AnsweredTurns(i)' = AnsweredIn(transcript', i)
  BY AnsweredBoth
<1>9. AnsweredIn(transcript', n) = AnsweredIn(transcript, n)
  BY <1>0, <1>2, <1>3, AnsweredOlder
<1>10. MessagesTold'
  <2> DEFINE g == AnsweredIn(transcript', n)
             h == AnsweredIn(transcript', n + 1)
  <2>0. PICK k \in Int : k = n + 1
    OBVIOUS
  <2>1. /\ DOMAIN g \subseteq Int /\ DOMAIN h = DOMAIN g \cup {k} /\ h[k] = m
        /\ \A i \in DOMAIN g : i \in 1 .. n /\ g[i] = transcript'[i] /\ h[i] = transcript'[i]
    <3>1. transcript'[k] = m
      BY <1>5, <2>0
    <3> QED
      BY <1>2, <2>0, <3>1, AnsweredNext
  <2>2. \A i \in DOMAIN g : i < k /\ h[i] = g[i] /\ g[i] # h[k]
    <3>1. \A i \in 1 .. n : transcript[i] # m
      BY <1>0, <1>2, <1>3, TurnIsNew
    <3> QED
      BY <1>5, <2>0, <2>1, <3>1
  <2>3. Tells(Tale("message"), g)
    BY <1>0, <1>8, <1>9 DEF StreamInStep, MessagesTold
  <2>4. PICK e : e = told[Len(told)] /\ e.about = m
    BY <1>4
  <2> HIDE DEF g, h
  <2>6. h[k] = e.about /\ logged'[p] = e /\ p \in Int
    BY <1>6, <2>1, <2>4
  <2>7. \A q \in StreamedAs("message") : q \in Int /\ q < p /\ logged'[q] = logged[q]
    BY <1>6
  <2>8. Tells(Tale("message")', h)
    BY <1>6, <2>1, <2>2, <2>3, <2>6, <2>7, TaleGrows
  <2>9. Tells(Tale("closing_message")', closing')
    BY <1>3, <1>7 DEF StreamInStep, MessagesTold
  <2> QED
    BY <1>5, <1>8, <2>8, <2>9 DEF MessagesTold, h
<1>11. NudgesTold'
  BY <1>3, <1>7 DEF StreamInStep, NudgesTold
<1>12. RelaysTold'
  <2>1. Tells(Tale("relay"), AnsweredTurns(n))
    BY <1>0, <1>3 DEF StreamInStep, RelaysTold, Relayed
  <2>2. Tells(Tale("relay")', AnsweredTurns(n)')
    BY <1>7, <1>8, <1>9, <2>1
  <2>3. n = Len(transcript') - 1
    BY <1>5
  <2> QED
    BY <1>3, <2>2, <2>3 DEF RelaysTold, Relayed
<1>13. MessagesFirst'
  BY <1>6, <1>7, MessagesFirstKept DEF StreamInStep
<1>14. VerdictTold'
  <2>1. verdict' = {} /\ StreamedAs("verdict")' = {}
    BY <1>3, <1>7 DEF StreamInStep, VerdictTold
  <2> QED
    BY <2>1 DEF VerdictTold
<1> QED
  BY <1>10, <1>11, <1>12, <1>13, <1>14 DEF StreamInStep

\* Nothing is told, the stage aside.
LEMMA SilentTells ==
  ASSUME IInv, StreamInStep, NEW told \in Seq(Events), logged' = logged \o told,
         \A i \in 1 .. Len(told) : told[i].kind \notin ToldKinds,
         UNCHANGED <<closing, nudges, verdict>>, StreamedAs("verdict") = {}, verdict = {},
         AnsweredTurns(Len(transcript))' = AnsweredTurns(Len(transcript)), RelaysTold'
  PROVE  StreamInStep'
<1>1. /\ \A kind \in ToldKinds : StreamedAs(kind)' = StreamedAs(kind) /\ Tale(kind)' = Tale(kind)
      /\ Corrections' = Corrections
      /\ \A kind \in ToldKinds : \A q \in StreamedAs(kind) : q \in Nat /\ logged'[q] = logged[q]
  <2>1. ToldKinds \in SUBSET ToldKinds /\ "nudge" \in ToldKinds
    BY DEF ToldKinds
  <2> QED
    BY <2>1, TurnTypes, Unheard
<1>2. MessagesTold' /\ NudgesTold' /\ VerdictTold'
  BY <1>1 DEF StreamInStep, MessagesTold, NudgesTold, VerdictTold, ToldKinds
<1>3. MessagesFirst'
  BY <1>1, MessagesFirstKept DEF StreamInStep, ToldKinds
<1> QED
  BY <1>2, <1>3 DEF StreamInStep

LEMMA FailArgumentTells ==
  ASSUME IInv, RInv, JInv, RunInTurn, StreamInStep, FailArgument
  PROVE  StreamInStep'
<1> DEFINE m == FailedMarker(side, round)
           told == <<Event("turn_failed", NoMessage)>>
<1>1. m \in Messages /\ m.failed
  BY TurnTypes, MessageTyped DEF FailedMarker, Styles
<1>2. /\ transcript' = Append(transcript, m) /\ logged' = Append(logged, Event("turn_failed", NoMessage))
      /\ stage = "turn" /\ stage' = "drift" /\ UNCHANGED <<closing, nudges, verdict>>
      /\ transcript \in Seq(Messages) /\ logged \in Seq(Events)
  BY TurnTypes DEF FailArgument
<1> HIDE DEF m
<1>3. PICK n \in Nat : n = Len(transcript)
  BY <1>2
<1>4. told \in Seq(Events) /\ \A i \in 1 .. Len(told) : told[i].kind \notin ToldKinds
  <2>1. Event("turn_failed", NoMessage) \in Events /\ Event("turn_failed", NoMessage).kind = "turn_failed"
    BY EventTyped DEF EventKinds, Event
  <2> QED
    BY <2>1 DEF ToldKinds
<1>5. logged' = logged \o told
  BY <1>2, OneTold
<1> HIDE DEF told
<1>6. Len(transcript') = n + 1 /\ transcript'[n + 1] = m
  BY <1>1, <1>2, <1>3
<1>7. \A i : AnsweredTurns(i) = AnsweredIn(transcript, i) /\ AnsweredTurns(i)' = AnsweredIn(transcript', i)
  BY AnsweredBoth
<1>8. AnsweredIn(transcript', n) = AnsweredIn(transcript, n)
  BY <1>1, <1>2, <1>3, AnsweredOlder
<1>9. AnsweredIn(transcript', n + 1) = AnsweredIn(transcript', n)
  BY <1>1, <1>6, AnsweredNext
<1>10. AnsweredTurns(Len(transcript))' = AnsweredTurns(Len(transcript))
  BY <1>3, <1>6, <1>7, <1>8, <1>9
<1>11. verdict = {} /\ StreamedAs("verdict") = {}
  BY <1>2 DEF StreamInStep, VerdictTold
<1>12. RelaysTold'
  <2>1. Tells(Tale("relay"), AnsweredTurns(n))
    BY <1>2, <1>3 DEF StreamInStep, RelaysTold, Relayed
  <2>2. Tale("relay")' = Tale("relay")
    <3>1. \A i \in 1 .. Len(told) : told[i].kind # "relay"
      BY <1>4 DEF ToldKinds
    <3> QED
      BY <1>2, <1>4, <1>5, <3>1, NoneTold
  <2>3. Tells(Tale("relay")', AnsweredTurns(n)')
    BY <1>7, <1>8, <2>1, <2>2
  <2>4. n = Len(transcript') - 1
    BY <1>6
  <2> QED
    BY <1>2, <2>3, <2>4 DEF RelaysTold, Relayed
<1> QED
  BY <1>2, <1>4, <1>5, <1>10, <1>11, <1>12, SilentTells

\* A step that tells nothing and takes no turn, on the way or lost.
LEMMA QuietTells ==
  ASSUME IInv, StreamInStep, stage # "done", stage' # "done",
         NEW told \in Seq(Events), logged' = logged \o told,
         \A i \in 1 .. Len(told) : told[i].kind \notin ToldKinds,
         UNCHANGED <<transcript, closing, nudges, verdict>>,
         \/ stage' = "crashed"
         \/ stage = "drift" /\ stage' = "forward"
         \/ stage \notin {"drift", "forward", "crashed"} /\ stage' \notin {"drift", "forward", "crashed"}
  PROVE  StreamInStep'
<1>1. verdict = {} /\ StreamedAs("verdict") = {}
  BY DEF StreamInStep, VerdictTold
<1>2. AnsweredTurns(Len(transcript))' = AnsweredTurns(Len(transcript))
  BY DEF AnsweredTurns
<1>3. RelaysTold'
  <2>1. PICK n \in {Len(transcript) - 1, Len(transcript)} :
          Relayed(n) /\ Tells(Tale("relay"), AnsweredTurns(n))
    BY DEF StreamInStep, RelaysTold
  <2>2. Tale("relay")' = Tale("relay")
    <3>1. \A i \in 1 .. Len(told) : told[i].kind # "relay"
      BY DEF ToldKinds
    <3> QED
      BY <3>1, TurnTypes, NoneTold
  <2>3. AnsweredTurns(n)' = AnsweredTurns(n)
    BY DEF AnsweredTurns
  <2>4. Relayed(n)'
    BY <2>1 DEF Relayed
  <2>5. n \in {Len(transcript') - 1, Len(transcript')}
    BY <2>1
  <2> QED
    BY <2>1, <2>2, <2>3, <2>4, <2>5 DEF RelaysTold
<1> QED
  BY <1>1, <1>2, <1>3, SilentTells

\* The steps that end a run early, and a closing statement that FAILED.
LEMMA OthersTell ==
  ASSUME IInv, StreamInStep,
         \/ LoseArgument \/ DriftRefused \/ FailClosing \/ LoseClosing \/ JudgeRefused
  PROVE  StreamInStep'
<1>1. CASE LoseArgument \/ DriftRefused \/ LoseClosing \/ JudgeRefused
  <2>1. /\ UNCHANGED <<transcript, closing, nudges, verdict, logged>> /\ stage' = "crashed"
        /\ stage # "done"
    BY <1>1 DEF LoseArgument, DriftRefused, LoseClosing, JudgeRefused
  <2>2. <<>> \in Seq(Events) /\ \A i \in 1 .. Len(<<>>) : <<>>[i].kind \notin ToldKinds
    OBVIOUS
  <2>3. logged' = logged \o <<>>
    BY <2>1, TurnTypes
  <2> QED
    BY <2>1, <2>2, <2>3, QuietTells
<1>2. CASE FailClosing
  <2> DEFINE told == <<Event("turn_failed", NoMessage)>>
  <2>1. told \in Seq(Events) /\ \A i \in 1 .. Len(told) : told[i].kind \notin ToldKinds
    <3>1. /\ Event("turn_failed", NoMessage) \in Events
          /\ Event("turn_failed", NoMessage).kind = "turn_failed"
      BY EventTyped DEF EventKinds, Event
    <3> QED
      BY <3>1 DEF ToldKinds
  <2>2. logged' = logged \o told
    BY <1>2, TurnTypes, OneTold DEF FailClosing
  <2>3. /\ stage = "closing" /\ stage' \in {"closing", "judge"}
        /\ UNCHANGED <<transcript, closing, nudges, verdict>>
    BY <1>2 DEF FailClosing, AfterClosing
  <2> HIDE DEF told
  <2> QED
    BY <2>1, <2>2, <2>3, QuietTells
<1> QED
  BY <1>1, <1>2

LEMMA DriftCheckTells ==
  ASSUME IInv, RInv, JInv, RunInTurn, StreamInStep, DriftCheck
  PROVE  StreamInStep'
<1>1. /\ stage = "drift" /\ stage' = "forward" /\ UNCHANGED <<transcript, closing, verdict>>
  BY DEF DriftCheck
<1>2. CASE ~Captured
  <2>1. UNCHANGED <<nudges, logged>>
    BY <1>2 DEF DriftCheck
  <2>2. <<>> \in Seq(Events) /\ \A i \in 1 .. Len(<<>>) : <<>>[i].kind \notin ToldKinds
    OBVIOUS
  <2>3. logged' = logged \o <<>>
    BY <2>1, TurnTypes
  <2> QED
    BY <1>1, <2>1, <2>2, <2>3, QuietTells
<1>3. CASE Captured
  <2> DEFINE e == Event("nudge", Latest)
             told == <<e>>
             n == Len(nudges)
             c == <<side, round>>
             p == Len(logged) + Len(told)
             others == {"message", "closing_message", "relay", "verdict"}
  <2>1. /\ nudges' = Append(nudges, c) /\ logged' = Append(logged, e)
        /\ Latest \in Messages /\ Latest.side = side /\ Latest.round = round
        /\ Latest = transcript[Len(transcript)] /\ Len(transcript) \in 1 .. Len(transcript)
        /\ Latest.style = "captured"
    BY <1>1, <1>3, LatestIsTurn DEF DriftCheck, Captured
  <2>2. /\ e \in Events /\ e.kind = "nudge" /\ e.about = Latest
    <3>1. e \in Events
      BY <2>1, EventTyped DEF EventKinds
    <3> QED
      BY <3>1 DEF Event
  <2> HIDE DEF e
  <2>3. told \in Seq(Events) /\ told # <<>> /\ Len(told) = 1 /\ told[1] = e
    BY <2>2
  <2>4. logged' = logged \o told
    BY <2>1, TurnTypes, OneTold
  <2> HIDE DEF told
  <2>5. /\ StreamedAs("nudge")' = StreamedAs("nudge") \cup {p}
        /\ p \in Nat /\ logged'[p] = told[Len(told)]
        /\ \A q \in StreamedAs("nudge") : q \in Nat /\ q < p /\ logged'[q] = logged[q]
    <3>1. "nudge" \notin LogOnly
      BY DEF LogOnly
    <3>2. \A i \in 1 .. Len(told) : told[i].kind = "nudge" <=> i = Len(told)
      BY <2>2, <2>3
    <3> QED
      BY <2>3, <2>4, <3>1, <3>2, TurnTypes, LastTold
  <2> HIDE DEF p
  <2>6. /\ \A kind \in others : StreamedAs(kind)' = StreamedAs(kind) /\ Tale(kind)' = Tale(kind)
        /\ \A kind \in others : \A q \in StreamedAs(kind) : q \in Nat /\ logged'[q] = logged[q]
    <3>1. \A i \in 1 .. Len(told) : told[i].kind \notin others
      BY <2>2, <2>3
    <3>2. others \in SUBSET ToldKinds
      BY DEF ToldKinds
    <3> QED
      BY <2>3, <2>4, <3>1, <3>2, TurnTypes, Unheard
  <2>7. NudgesTold'
    <3>0. /\ nudges \in Seq(Sides \X (1 .. Rounds)) /\ n \in Nat /\ DOMAIN nudges = 1 .. n
          /\ DOMAIN nudges' = 1 .. n + 1 /\ nudges'[n + 1] = c
          /\ \A i \in 1 .. n : nudges'[i] = nudges[i]
      BY <2>1, TurnTypes
    <3>1. ASSUME NEW i \in 1 .. n PROVE nudges[i] # c
      <4>1. PICK j \in 1 .. Len(transcript) :
              nudges[i] = <<transcript[j].side, transcript[j].round>> /\ j < Len(transcript)
        BY <1>1 DEF RunInTurn, NudgesOfTurns
      <4>2. /\ InTurn(transcript[j], j) /\ InTurn(Latest, Len(transcript))
            /\ j \in Nat /\ Len(transcript) \in Nat
        BY <2>1, TurnTypes DEF JInv, TurnsInOrder
      <4>3. ~(transcript[j].side = Latest.side /\ transcript[j].round = Latest.round)
        BY <4>1, <4>2, TurnKnown
      <4> QED
        BY <2>1, <4>1, <4>3
    <3> DEFINE g == nudges
               h == nudges'
    <3>2. PICK k \in Int : k = n + 1
      BY <3>0
    <3>3. DOMAIN g \subseteq Int /\ DOMAIN h = DOMAIN g \cup {k} /\ h[k] = c
      BY <3>0, <3>2
    <3>4. \A i \in DOMAIN g : i < k /\ h[i] = g[i] /\ g[i] # h[k]
      BY <3>0, <3>1, <3>2
    <3>5. logged'[p] = e /\ c = <<e.about.side, e.about.round>> /\ p \in Int
      BY <2>1, <2>2, <2>3, <2>5
    <3>6. \A q \in StreamedAs("nudge") : q \in Int /\ q < p /\ logged'[q] = logged[q]
      BY <2>5
    <3>7. Tells(Corrections, g)
      BY DEF StreamInStep, NudgesTold
    <3> HIDE DEF g, h, c
    <3>8. Tells(Corrections', h)
      BY <2>5, <3>3, <3>4, <3>5, <3>6, <3>7, TaleGrows
    <3> QED
      BY <3>8 DEF NudgesTold, h
  <2>8. MessagesTold'
    <3>1. AnsweredTurns(Len(transcript))' = AnsweredTurns(Len(transcript))
      BY <1>1 DEF AnsweredTurns
    <3> QED
      BY <1>1, <2>6, <3>1 DEF StreamInStep, MessagesTold
  <2>9. RelaysTold'
    <3>1. PICK i \in {Len(transcript) - 1, Len(transcript)} :
            Relayed(i) /\ Tells(Tale("relay"), AnsweredTurns(i))
      BY DEF StreamInStep, RelaysTold
    <3>2. AnsweredTurns(i)' = AnsweredTurns(i)
      BY <1>1 DEF AnsweredTurns
    <3>3. Relayed(i)' /\ i \in {Len(transcript') - 1, Len(transcript')}
      BY <1>1, <3>1 DEF Relayed
    <3> QED
      BY <2>6, <3>1, <3>2, <3>3 DEF RelaysTold
  <2>10. MessagesFirst'
    <3> SUFFICES ASSUME NEW q \in StreamedAs("nudge")' \cup StreamedAs("relay")'
                 PROVE  \E r \in StreamedAs("message")' : r < q /\ logged'[r].about = logged'[q].about
      BY DEF MessagesFirst
    <3>1. CASE q = p
      <4>1. PICK i \in DOMAIN AnsweredTurns(Len(transcript)) : AnsweredTurns(Len(transcript))[i] = Latest
        <5>1. ~Latest.failed
          BY <2>1 DEF RunInTurn, FailedMarked
        <5> QED
          BY <2>1, <5>1 DEF AnsweredTurns
      <4>2. PICK r \in StreamedAs("message") : logged[r].about = Latest
        BY <4>1 DEF StreamInStep, MessagesTold, Tells, Tale
      <4>3. r < p
        <5>1. r \in 1 .. Len(logged) /\ Len(logged) \in Nat /\ p = Len(logged) + 1
          BY <2>3, <4>2, TurnTypes DEF StreamedAs, Streamed, p
        <5> QED
          BY <5>1
      <4> QED
        BY <2>2, <2>3, <2>5, <2>6, <3>1, <4>2, <4>3
    <3>2. CASE q # p
      <4>1. q \in StreamedAs("nudge") \cup StreamedAs("relay") /\ logged'[q] = logged[q]
        BY <2>5, <2>6, <3>2
      <4>2. PICK r \in StreamedAs("message") : r < q /\ logged[r].about = logged[q].about
        BY <4>1 DEF StreamInStep, MessagesFirst
      <4> QED
        BY <2>6, <4>1, <4>2
    <3> QED
      BY <3>1, <3>2
  <2>11. VerdictTold'
    <3>1. verdict' = {} /\ StreamedAs("verdict")' = {}
      BY <1>1, <2>6 DEF StreamInStep, VerdictTold
    <3> QED
      BY <3>1 DEF VerdictTold
  <2> QED
    BY <2>7, <2>8, <2>9, <2>10, <2>11 DEF StreamInStep
<1> QED
  BY <1>2, <1>3

LEMMA ForwardTells ==
  ASSUME IInv, RInv, JInv, RunInTurn, StreamInStep, Forward
  PROVE  StreamInStep'
<1>1. /\ stage = "forward" /\ stage' \in {"turn", "closing"}
      /\ UNCHANGED <<transcript, closing, nudges, verdict>>
      /\ Latest = transcript[Len(transcript)] /\ Latest \in Messages
      /\ transcript \in Seq(Messages) /\ logged \in Seq(Events)
  BY TurnTypes, LatestIsTurn DEF Forward
<1>2. PICK n \in Nat : Len(transcript) = n + 1
  <2>1. Len(transcript) > 0 /\ Len(transcript) \in Nat
    BY <1>1, LatestIsTurn
  <2>2. Len(transcript) - 1 \in Nat /\ Len(transcript) = (Len(transcript) - 1) + 1
    BY <2>1
  <2> QED
    BY <2>2
<1>3. Tells(Tale("relay"), AnsweredTurns(n))
  <2>1. n = Len(transcript) - 1
    BY <1>2
  <2> QED
    BY <1>1, <2>1 DEF StreamInStep, RelaysTold, Relayed
<1>4. PICK k \in Int : k = n + 1
  BY <1>2
<1>5. \A i : AnsweredTurns(i) = AnsweredIn(transcript, i) /\ AnsweredTurns(i)' = AnsweredIn(transcript, i)
  BY <1>1, AnsweredBoth
<1>6. k \in {Len(transcript') - 1, Len(transcript')} /\ Relayed(k)'
  BY <1>1, <1>2, <1>4 DEF Relayed
<1>7. CASE Latest.failed
  <2>1. UNCHANGED logged
    BY <1>7 DEF Forward
  <2>2. AnsweredIn(transcript, k) = AnsweredIn(transcript, n)
    BY <1>1, <1>2, <1>4, <1>7, AnsweredNext
  <2>3. /\ \A kind : StreamedAs(kind)' = StreamedAs(kind) /\ Tale(kind)' = Tale(kind)
        /\ Corrections' = Corrections
    BY <2>1 DEF StreamedAs, Streamed, Tale, Corrections
  <2>4. RelaysTold'
    BY <1>3, <1>5, <1>6, <2>2, <2>3 DEF RelaysTold
  <2>5. MessagesTold' /\ NudgesTold' /\ VerdictTold'
    <3>1. AnsweredTurns(Len(transcript))' = AnsweredTurns(Len(transcript))
      BY <1>1 DEF AnsweredTurns
    <3>2. Streamed' = Streamed
      BY <2>1 DEF Streamed
    <3> QED
      BY <1>1, <2>3, <3>1, <3>2 DEF StreamInStep, MessagesTold, NudgesTold, VerdictTold
  <2>6. MessagesFirst'
    BY <2>1, <2>3, MessagesFirstKept DEF StreamInStep
  <2> QED
    BY <2>4, <2>5, <2>6 DEF StreamInStep
<1>8. CASE ~Latest.failed
  <2> DEFINE e == Event("relay", Latest)
             told == <<e>>
             p == Len(logged) + Len(told)
             others == {"message", "closing_message", "nudge", "verdict"}
  <2>1. /\ e \in Events /\ e.kind = "relay" /\ e.about = Latest /\ logged' = Append(logged, e)
    <3>1. e \in Events
      BY <1>1, EventTyped DEF EventKinds
    <3> QED
      BY <1>8, <3>1 DEF Event, Forward
  <2> HIDE DEF e
  <2>2. told \in Seq(Events) /\ told # <<>> /\ Len(told) = 1 /\ told[1] = e
    BY <2>1
  <2>3. logged' = logged \o told
    BY <1>1, <2>1, OneTold
  <2> HIDE DEF told
  <2>4. /\ StreamedAs("relay")' = StreamedAs("relay") \cup {p}
        /\ p \in Nat /\ logged'[p] = told[Len(told)]
        /\ \A q \in StreamedAs("relay") : q \in Nat /\ q < p /\ logged'[q] = logged[q]
    <3>1. "relay" \notin LogOnly
      BY DEF LogOnly
    <3>2. \A i \in 1 .. Len(told) : told[i].kind = "relay" <=> i = Len(told)
      BY <2>1, <2>2
    <3> QED
      BY <1>1, <2>2, <2>3, <3>1, <3>2, LastTold
  <2> HIDE DEF p
  <2>5. /\ \A kind \in others : StreamedAs(kind)' = StreamedAs(kind) /\ Tale(kind)' = Tale(kind)
        /\ "nudge" \in others => Corrections' = Corrections
        /\ \A kind \in others : \A q \in StreamedAs(kind) : q \in Nat /\ logged'[q] = logged[q]
    <3>1. \A i \in 1 .. Len(told) : told[i].kind \notin others
      BY <2>1, <2>2
    <3>2. others \in SUBSET ToldKinds
      BY DEF ToldKinds
    <3> QED
      BY <1>1, <2>2, <2>3, <3>1, <3>2, Unheard
  <2>6. RelaysTold'
    <3> DEFINE g == AnsweredIn(transcript, n)
               h == AnsweredIn(transcript, k)
    <3>1. /\ DOMAIN g \subseteq Int /\ DOMAIN h = DOMAIN g \cup {k} /\ h[k] = Latest
          /\ \A i \in DOMAIN g : i \in 1 .. n /\ g[i] = transcript[i] /\ h[i] = transcript[i]
      <4>1. transcript[k] = Latest
        BY <1>1, <1>2, <1>4
      <4>2. ~transcript[k].failed
        BY <1>8, <4>1
      <4>3. /\ DOMAIN g \subseteq Int /\ DOMAIN h = DOMAIN g \cup {k} /\ h[k] = transcript[k]
            /\ \A i \in DOMAIN g : i \in 1 .. n /\ g[i] = transcript[i] /\ h[i] = transcript[i]
        BY <1>4, <4>2, AnsweredNext
      <4> QED
        BY <4>1, <4>3
    <3>2. ASSUME NEW i \in 1 .. n PROVE transcript[i] # Latest
      <4>1. /\ InTurn(transcript[i], i) /\ InTurn(Latest, k) /\ i \in Nat /\ k \in Nat /\ i # k
        BY <1>1, <1>2, <1>4 DEF JInv, TurnsInOrder
      <4> QED
        BY <4>1, TurnKnown
    <3>3. \A i \in DOMAIN g : i < k /\ h[i] = g[i] /\ g[i] # h[k]
      BY <1>4, <3>1, <3>2
    <3>4. h[k] = e.about /\ logged'[p] = e /\ p \in Int
      BY <2>1, <2>2, <2>4, <3>1
    <3>5. \A q \in StreamedAs("relay") : q \in Int /\ q < p /\ logged'[q] = logged[q]
      BY <2>4
    <3>6. Tells(Tale("relay"), g)
      BY <1>3, <1>5
    <3> HIDE DEF g, h
    <3>7. Tells(Tale("relay")', h)
      BY <2>4, <3>1, <3>3, <3>4, <3>5, <3>6, TaleGrows
    <3> QED
      BY <1>5, <1>6, <3>7 DEF RelaysTold, h
  <2>7. MessagesTold'
    <3>1. AnsweredTurns(Len(transcript))' = AnsweredTurns(Len(transcript))
      BY <1>1 DEF AnsweredTurns
    <3> QED
      BY <1>1, <2>5, <3>1 DEF StreamInStep, MessagesTold
  <2>8. NudgesTold'
    BY <1>1, <2>5 DEF StreamInStep, NudgesTold
  <2>9. MessagesFirst'
    <3> SUFFICES ASSUME NEW q \in StreamedAs("nudge")' \cup StreamedAs("relay")'
                 PROVE  \E r \in StreamedAs("message")' : r < q /\ logged'[r].about = logged'[q].about
      BY DEF MessagesFirst
    <3>1. CASE q = p
      <4>1. PICK i \in DOMAIN AnsweredTurns(Len(transcript)) : AnsweredTurns(Len(transcript))[i] = Latest
        BY <1>1, <1>2, <1>8 DEF AnsweredTurns
      <4>2. PICK r \in StreamedAs("message") : logged[r].about = Latest
        BY <4>1 DEF StreamInStep, MessagesTold, Tells, Tale
      <4>3. r < p
        <5>1. r \in 1 .. Len(logged) /\ Len(logged) \in Nat /\ p = Len(logged) + 1
          BY <2>2, <4>2, TurnTypes DEF StreamedAs, Streamed, p
        <5> QED
          BY <5>1
      <4> QED
        BY <2>1, <2>2, <2>4, <2>5, <3>1, <4>2, <4>3
    <3>2. CASE q # p
      <4>1. q \in StreamedAs("nudge") \cup StreamedAs("relay") /\ logged'[q] = logged[q]
        BY <2>4, <2>5, <3>2
      <4>2. PICK r \in StreamedAs("message") : r < q /\ logged[r].about = logged[q].about
        BY <4>1 DEF StreamInStep, MessagesFirst
      <4> QED
        BY <2>5, <4>1, <4>2
    <3> QED
      BY <3>1, <3>2
  <2>10. VerdictTold'
    <3>1. verdict' = {} /\ StreamedAs("verdict")' = {}
      BY <1>1, <2>5 DEF StreamInStep, VerdictTold
    <3> QED
      BY <3>1 DEF VerdictTold
  <2> QED
    BY <2>6, <2>7, <2>8, <2>9, <2>10 DEF StreamInStep
<1> QED
  BY <1>7, <1>8

LEMMA CloseTells ==
  ASSUME IInv, RInv, JInv, RunInTurn, StreamInStep, Close
  PROVE  StreamInStep'
<1>1. PICK style \in Styles, long \in BOOLEAN :
        LET message == Message(side, ClosingStamp, style, long)
        IN  /\ closing' = Append(closing, message)
            /\ logged' = logged \o Said("closing_message", message)
  BY DEF Close
<1> DEFINE m == Message(side, ClosingStamp, style, long)
           told == Said("closing_message", m)
           p == Len(logged) + Len(told)
           others == {"message", "nudge", "relay", "verdict"}
<1>2. m \in Messages /\ m.side = side
  <2>1. ClosingStamp \in 1 .. Rounds
    BY DebateLoopAssumption DEF ClosingStamp
  <2> QED
    BY <2>1, TurnTypes, MessageTyped
<1>3. /\ closing' = Append(closing, m) /\ logged' = logged \o told
      /\ closing \in Seq(Messages) /\ logged \in Seq(Events)
      /\ stage = "closing" /\ stage' \in {"closing", "judge"}
      /\ UNCHANGED <<transcript, nudges, verdict>>
  BY <1>1, TurnTypes DEF Close, AfterClosing
<1> HIDE DEF m
<1>4. /\ told \in Seq(Events) /\ told # <<>> /\ told[Len(told)].about = m
      /\ \A i \in 1 .. Len(told) : told[i].kind \in {"api_call", "word_limit", "closing_message"}
      /\ \A i \in 1 .. Len(told) : told[i].kind = "closing_message" <=> i = Len(told)
  BY <1>2, SaidLast
<1> HIDE DEF told
<1>5. /\ StreamedAs("closing_message")' = StreamedAs("closing_message") \cup {p}
      /\ p \in Nat /\ logged'[p] = told[Len(told)]
      /\ \A q \in StreamedAs("closing_message") : q \in Nat /\ q < p /\ logged'[q] = logged[q]
  <2>1. "closing_message" \notin LogOnly
    BY DEF LogOnly
  <2> QED
    BY <1>3, <1>4, <2>1, LastTold
<1> HIDE DEF p
<1>6. /\ \A kind \in others : StreamedAs(kind)' = StreamedAs(kind) /\ Tale(kind)' = Tale(kind)
      /\ "nudge" \in others => Corrections' = Corrections
      /\ \A kind \in others : \A q \in StreamedAs(kind) : q \in Nat /\ logged'[q] = logged[q]
  <2>1. \A i \in 1 .. Len(told) : told[i].kind \notin others
    BY <1>4
  <2>2. others \in SUBSET ToldKinds
    BY DEF ToldKinds
  <2> QED
    BY <1>3, <1>4, <2>1, <2>2, Unheard
<1>7. MessagesTold'
  <2> DEFINE g == closing
             h == closing'
  <2>0. PICK n \in Nat : n = Len(closing)
    BY <1>3
  <2>1. PICK k \in Int : k = n + 1
    BY <2>0
  <2>2. /\ DOMAIN g = 1 .. n /\ DOMAIN h = 1 .. n + 1 /\ h[n + 1] = m
        /\ \A i \in 1 .. n : h[i] = g[i]
    BY <1>2, <1>3, <2>0
  <2>3. DOMAIN g \subseteq Int /\ DOMAIN h = DOMAIN g \cup {k} /\ h[k] = m
    BY <2>1, <2>2
  <2>4. \A i \in DOMAIN g : i < k /\ h[i] = g[i] /\ g[i] # h[k]
    <3>1. \A i \in 1 .. n : closing[i] # m
      BY <1>2, <1>3, <2>0, SidesTwo DEF RunInTurn, ClosingsInTurn
    <3> QED
      BY <2>1, <2>2, <3>1
  <2>5. PICK e : e = told[Len(told)] /\ e.about = m
    BY <1>4
  <2>6. Tells(Tale("closing_message"), g)
    BY DEF StreamInStep, MessagesTold
  <2> HIDE DEF g, h
  <2>7. h[k] = e.about /\ logged'[p] = e /\ p \in Int
    BY <1>5, <2>3, <2>5
  <2>8. \A q \in StreamedAs("closing_message") : q \in Int /\ q < p /\ logged'[q] = logged[q]
    BY <1>5
  <2>9. Tells(Tale("closing_message")', h)
    BY <1>5, <2>3, <2>4, <2>6, <2>7, <2>8, TaleGrows
  <2>10. Tells(Tale("message")', AnsweredTurns(Len(transcript))')
    <3>1. AnsweredTurns(Len(transcript))' = AnsweredTurns(Len(transcript))
      BY <1>3 DEF AnsweredTurns
    <3> QED
      BY <1>6, <3>1 DEF StreamInStep, MessagesTold
  <2> QED
    BY <2>9, <2>10 DEF MessagesTold, h
<1>8. NudgesTold'
  BY <1>3, <1>6 DEF StreamInStep, NudgesTold
<1>9. RelaysTold'
  <2>1. PICK i \in {Len(transcript) - 1, Len(transcript)} :
          Relayed(i) /\ Tells(Tale("relay"), AnsweredTurns(i))
    BY DEF StreamInStep, RelaysTold
  <2>2. AnsweredTurns(i)' = AnsweredTurns(i)
    BY <1>3 DEF AnsweredTurns
  <2>3. Relayed(i)' /\ i \in {Len(transcript') - 1, Len(transcript')}
    BY <1>3, <2>1 DEF Relayed
  <2> QED
    BY <1>6, <2>1, <2>2, <2>3 DEF RelaysTold
<1>10. MessagesFirst'
  BY <1>6, MessagesFirstKept DEF StreamInStep
<1>11. VerdictTold'
  <2>1. verdict' = {} /\ StreamedAs("verdict")' = {}
    BY <1>3, <1>6 DEF StreamInStep, VerdictTold
  <2> QED
    BY <2>1 DEF VerdictTold
<1> QED
  BY <1>7, <1>8, <1>9, <1>10, <1>11 DEF StreamInStep

LEMMA JudgeTells ==
  ASSUME IInv, StreamInStep, Judge
  PROVE  StreamInStep'
<1>1. /\ stage = "judge" /\ stage' = "done" /\ verdict' = Judged
      /\ UNCHANGED <<transcript, closing, nudges>>
      /\ verdict = {} /\ StreamedAs("verdict") = {}
  BY DEF Judge, StreamInStep, VerdictTold
<1> DEFINE v == Event("verdict", NoMessage)
           b == Event("budget_alert", NoMessage)
           told == IF Judged = {} THEN <<>> ELSE <<v>>
           others == {"message", "closing_message", "nudge", "relay"}
<1>2. PICK alert \in {<<>>, <<b>>} : logged' = logged \o told \o alert
  BY DEF Judge
<1>3. v \in Events /\ b \in Events /\ v.kind = "verdict" /\ b.kind = "budget_alert"
  <2>1. v \in Events /\ b \in Events
    BY EventTyped DEF EventKinds, LogOnly
  <2> QED
    BY <2>1 DEF Event
<1> HIDE DEF v, b
<1>4. /\ alert \in Seq(Events) /\ \A i \in 1 .. Len(alert) : alert[i].kind = "budget_alert"
  <2>1. CASE alert = <<>>
    BY <2>1
  <2>2. CASE alert = <<b>>
    BY <1>3, <2>2
  <2> QED
    BY <2>1, <2>2
<1>5. /\ told \in Seq(Events)
      /\ Judged = {} => Len(told) = 0
      /\ Judged # {} => Len(told) = 1 /\ told[1] = v
  BY <1>3
<1> HIDE DEF told
<1> DEFINE end == told \o alert
<1>6. logged' = logged \o end /\ end \in Seq(Events) /\ logged \in Seq(Events)
  <2>1. \A x, y, z \in Seq(Events) : x \o y \o z = x \o (y \o z)
    OBVIOUS
  <2>2. logged \in Seq(Events) /\ told \in Seq(Events) /\ alert \in Seq(Events)
    BY <1>4, <1>5, TurnTypes
  <2>3. end \in Seq(Events)
    BY <2>2
  <2>4. logged \o told \o alert = logged \o (told \o alert)
    BY <2>1, <2>2
  <2> QED
    BY <1>2, <2>2, <2>3, <2>4
<1>7. /\ Judged = {} => \A i \in 1 .. Len(end) : end[i].kind = "budget_alert"
      /\ Judged # {} => /\ Len(end) > 0 /\ end[1].kind = "verdict"
                        /\ \A i \in 1 .. Len(end) : i > 1 => end[i].kind = "budget_alert"
  BY <1>3, <1>4, <1>5
<1> HIDE DEF end
<1>8. /\ \A kind \in others : StreamedAs(kind)' = StreamedAs(kind) /\ Tale(kind)' = Tale(kind)
      /\ "nudge" \in others => Corrections' = Corrections
      /\ \A kind \in others : \A q \in StreamedAs(kind) : q \in Nat /\ logged'[q] = logged[q]
  <2>1. \A i \in 1 .. Len(end) : end[i].kind \notin others
    BY <1>7
  <2>2. others \in SUBSET ToldKinds
    BY DEF ToldKinds
  <2> QED
    BY <1>6, <2>1, <2>2, Unheard
<1>9. MessagesTold' /\ NudgesTold'
  <2>1. AnsweredTurns(Len(transcript))' = AnsweredTurns(Len(transcript))
    BY <1>1 DEF AnsweredTurns
  <2> QED
    BY <1>1, <1>8, <2>1 DEF StreamInStep, MessagesTold, NudgesTold
<1>10. RelaysTold'
  <2>1. PICK i \in {Len(transcript) - 1, Len(transcript)} :
          Relayed(i) /\ Tells(Tale("relay"), AnsweredTurns(i))
    BY DEF StreamInStep, RelaysTold
  <2>2. AnsweredTurns(i)' = AnsweredTurns(i)
    BY <1>1 DEF AnsweredTurns
  <2>3. Relayed(i)' /\ i \in {Len(transcript') - 1, Len(transcript')}
    BY <1>1, <2>1 DEF Relayed
  <2> QED
    BY <1>8, <2>1, <2>2, <2>3 DEF RelaysTold
<1>11. MessagesFirst'
  BY <1>8, MessagesFirstKept DEF StreamInStep
<1>12. VerdictTold'
  <2>1. PICK n \in Nat : n = Len(logged)
    BY <1>6
  <2>2. ASSUME NEW q \in Streamed'
        PROVE  /\ q <= n + 1
               /\ logged'[q].kind = "verdict" => q = n + 1 /\ Judged # {}
    <3>1. /\ q \in DOMAIN logged' /\ logged'[q].kind # "budget_alert" /\ q \in Int
      BY <1>6, LogGrows DEF Streamed, LogOnly
    <3>2. CASE q \in DOMAIN logged
      <4>1. logged'[q] = logged[q] /\ q \in 1 .. n
        BY <1>6, <2>1, <3>2, LogGrows
      <4>2. logged[q].kind # "verdict"
        BY <1>1, <3>2 DEF StreamedAs, Streamed, LogOnly
      <4> QED
        BY <2>1, <4>1, <4>2
    <3>3. CASE q \notin DOMAIN logged
      <4>1. q - n \in 1 .. Len(end) /\ logged'[q] = end[q - n]
        BY <1>6, <2>1, <3>1, <3>3, LogGrows
      <4>2. Judged # {} /\ q - n = 1
        BY <1>7, <3>1, <4>1
      <4> QED
        BY <2>1, <3>1, <4>2
    <3> QED
      BY <3>2, <3>3
  <2>3. ASSUME Judged # {} PROVE n + 1 \in StreamedAs("verdict")'
    <3>1. n + 1 \in DOMAIN logged' /\ logged'[n + 1] = end[1]
      BY <1>6, <1>7, <2>1, <2>3, LogGrows
    <3> QED
      BY <1>7, <2>3, <3>1 DEF StreamedAs, Streamed, LogOnly
  <2>4. verdict' # {} => StreamedAs("verdict")' # {}
    BY <1>1, <2>3
  <2>5. ASSUME NEW p \in StreamedAs("verdict")', NEW q \in Streamed'
        PROVE  verdict' # {} /\ q <= p
    <3>1. p \in Streamed' /\ logged'[p].kind = "verdict"
      BY DEF StreamedAs
    <3>2. p = n + 1 /\ Judged # {}
      BY <2>2, <3>1
    <3> QED
      BY <1>1, <2>2, <3>2
  <2>6. \A p \in StreamedAs("verdict")' : p \in Streamed'
    BY DEF StreamedAs
  <2> QED
    BY <1>1, <2>4, <2>5, <2>6 DEF VerdictTold
<1> QED
  BY <1>9, <1>10, <1>11, <1>12 DEF StreamInStep

LEMMA StreamStarts == Init => RunInTurn /\ StreamInStep
<1> SUFFICES ASSUME Init PROVE RunInTurn /\ StreamInStep
  OBVIOUS
<1>1. /\ transcript = <<>> /\ closing = <<>> /\ nudges = <<>> /\ logged = <<>> /\ verdict = {}
      /\ stage = "turn"
  BY DEF Init
<1>2. RunInTurn
  BY <1>1 DEF RunInTurn, FailedMarked, NudgesOfTurns, ClosingsInTurn
<1>3. Streamed = {} /\ \A kind : StreamedAs(kind) = {}
  BY <1>1 DEF StreamedAs, Streamed
<1>4. DOMAIN Corrections = {} /\ \A kind : DOMAIN Tale(kind) = {}
  BY <1>3 DEF Tale, Corrections
<1>5. DOMAIN AnsweredTurns(0) = {} /\ Len(transcript) = 0 /\ DOMAIN nudges = {} /\ DOMAIN closing = {}
  BY <1>1 DEF AnsweredTurns
<1>6. MessagesTold /\ NudgesTold
  BY <1>4, <1>5 DEF MessagesTold, NudgesTold, Tells
<1>7. RelaysTold
  <2>1. Relayed(0) /\ 0 \in {Len(transcript) - 1, Len(transcript)}
    BY <1>1, <1>5 DEF Relayed
  <2>2. Tells(Tale("relay"), AnsweredTurns(0))
    BY <1>4, <1>5 DEF Tells
  <2> QED
    BY <2>1, <2>2 DEF RelaysTold
<1>8. MessagesFirst /\ VerdictTold
  BY <1>1, <1>3 DEF MessagesFirst, VerdictTold
<1> QED
  BY <1>2, <1>6, <1>7, <1>8 DEF StreamInStep

LEMMA StreamKept ==
  IInv /\ RInv /\ JInv /\ RunInTurn /\ StreamInStep /\ [Next]_vars => (RunInTurn /\ StreamInStep)'
<1> SUFFICES ASSUME IInv, RInv, JInv, RunInTurn, StreamInStep, [Next]_vars
             PROVE  StreamInStep'
  BY InTurnKept
<1>1. CASE UNCHANGED vars
  <2>1. \A kind : StreamedAs(kind)' = StreamedAs(kind) /\ Tale(kind)' = Tale(kind)
    BY <1>1 DEF vars, StreamedAs, Streamed, Tale
  <2>2. Corrections' = Corrections /\ Streamed' = Streamed
    BY <1>1 DEF vars, StreamedAs, Streamed, Corrections
  <2>3. \A n : AnsweredTurns(n)' = AnsweredTurns(n) /\ Relayed(n)' = Relayed(n)
    BY <1>1 DEF vars, AnsweredTurns, Relayed
  <2>4. UNCHANGED <<transcript, closing, nudges, logged, verdict, stage>>
    BY <1>1 DEF vars
  <2>5. MessagesTold' /\ NudgesTold'
    <3>1. AnsweredTurns(Len(transcript))' = AnsweredTurns(Len(transcript))
      BY <2>4 DEF AnsweredTurns
    <3> QED
      BY <2>1, <2>2, <2>4, <3>1 DEF StreamInStep, MessagesTold, NudgesTold
  <2>6. RelaysTold'
    BY <2>1, <2>3, <2>4 DEF StreamInStep, RelaysTold
  <2>7. MessagesFirst' /\ VerdictTold'
    BY <2>1, <2>2, <2>4 DEF StreamInStep, MessagesFirst, VerdictTold
  <2> QED
    BY <2>5, <2>6, <2>7 DEF StreamInStep
<1>2. CASE Over
  BY <1>1, <1>2 DEF Over
<1> QED
  BY <1>1, <1>2, ArgueTells, FailArgumentTells, OthersTell, DriftCheckTells, ForwardTells,
     CloseTells, JudgeTells
  DEF Next

\* For any number of rounds and wherever a run stops: whoever follows its live
\* stream holds what the result holds, each argument, closing statement, relay
\* and correction once and in order, and the verdict as the last word
\* (log/_stream.py:72-103, loop.py:99-148).
THEOREM StreamSafe == Spec => []StreamTellsTheRun
<1>1. StreamInStep => StreamTellsTheRun
  BY DEF StreamInStep, MessagesTold, NudgesTold, RelaysTold, MessagesFirst, VerdictTold,
         StreamTellsTheRun
<1> QED
  BY <1>1, Invariance, RInit, NextRebuts, JInit, NextJudged, StreamStarts, StreamKept, PTL DEF Spec

-----------------------------------------------------------------------------
\* Induction over data, from the one ordering of the library that is well founded
\* without an operator for a parameter: finite sets by inclusion.
LEMMA LeastNatural ==
  ASSUME NEW N \in SUBSET Nat, N # {}
  PROVE  \E n \in N : \A m \in N : n <= m
<1> DEFINE Upto == {0 .. n : n \in N}
<1>1. Upto \subseteq FiniteSubsetsOf(Nat)
  <2>1. \A n \in N : IsFiniteSet(0 .. n) /\ 0 .. n \in SUBSET Nat
    BY FS_Interval
  <2> QED
    BY <2>1 DEF FiniteSubsetsOf
<1>2. IsWellFoundedOn(StrictSubsetOrdering(Nat), FiniteSubsetsOf(Nat))
  BY FS_StrictSubsetOrderingWellFounded
<1>3. Upto # {}
  OBVIOUS
<1>4. PICK T \in Upto : \A U \in Upto : ~ (<<U, T>> \in StrictSubsetOrdering(Nat))
  <2> HIDE DEF Upto
  <2> QED
    BY <1>1, <1>2, <1>3, WFMin
<1>5. PICK n \in N : T = 0 .. n
  OBVIOUS
<1>6. ASSUME NEW m \in N PROVE n <= m
  <2>1. ~ (<<0 .. m, 0 .. n>> \in StrictSubsetOrdering(Nat))
    BY <1>4, <1>5
  <2>2. 0 .. m \in SUBSET Nat /\ 0 .. n \in SUBSET Nat
    OBVIOUS
  <2>3. ~(0 .. m \subseteq 0 .. n) \/ 0 .. m = 0 .. n
    BY <2>1, <2>2 DEF StrictSubsetOrdering
  <2> QED
    BY <2>3
<1> QED
  BY <1>6

LEMMA Inductive ==
  ASSUME NEW N \in SUBSET Nat, 0 \in N, \A n \in N : n + 1 \in N
  PROVE  N = Nat
<1>1. SUFFICES ASSUME N # Nat PROVE FALSE
  OBVIOUS
<1>2. PICK n \in Nat \ N : \A m \in Nat \ N : n <= m
  BY <1>1, LeastNatural
<1>3. n # 0 /\ n - 1 \in Nat /\ n - 1 \notin Nat \ N
  BY <1>2
<1> QED
  BY <1>2, <1>3

-----------------------------------------------------------------------------
(* What the dataset reads in the log.  ParseRun is the left fold of the    *)
(* community modules, unfolded: it takes the lines from the first to the   *)
(* last, each into what the lines before it came to.                       *)

Read(lines, g, S) == IF S = {} THEN RunSummaryEmpty ELSE Consume(g[S \ {Max(S)}], lines[Max(S)])

Reads(lines) == CHOOSE g : g = [S \in SUBSET (DOMAIN lines) |-> Read(lines, g, S)]

LEMMA ParseUnfolds ==
  ASSUME NEW lines
  PROVE  ParseRun(lines) = Reads(lines)[DOMAIN lines]
  BY DEF ParseRun, FoldLeft, MapThenFoldSet, Reads, Read

LEMMA LatestLine ==
  ASSUME NEW n \in Nat, NEW S \in SUBSET (1 .. n), S # {}
  PROVE  Max(S) \in S /\ \A y \in S : y <= Max(S)
<1> DEFINE N == {n - x : x \in S}
<1>1. N \in SUBSET Nat /\ N # {}
  <2>1. \A x \in S : x \in Int /\ n - x \in Nat
    OBVIOUS
  <2> QED
    BY <2>1
<1>2. PICK m \in N : \A k \in N : m <= k
  <2> HIDE DEF N
  <2> QED
    BY <1>1, LeastNatural
<1>3. PICK x \in S : m = n - x
  OBVIOUS
<1>4. \A y \in S : y \in 1 .. n
  OBVIOUS
<1>5. \A y \in S : x >= y
  <2>1. \A y \in S : n - y \in N
    OBVIOUS
  <2>2. \A y \in S : n - x <= n - y
    BY <1>2, <1>3, <2>1
  <2> HIDE DEF N
  <2> QED
    BY <1>4, <2>2
<1>6. Max(S) \in S /\ \A y \in S : Max(S) >= y
  BY <1>5 DEF Max
<1> QED
  BY <1>4, <1>6

\* The recursion of the fold has a solution: one that is right for the sets of n
\* lines gives one that is right for the sets of n + 1.
LEMMA ReadsDefined ==
  ASSUME NEW lines, NEW n \in Nat, DOMAIN lines = 1 .. n
  PROVE  \A S \in SUBSET (1 .. n) : Reads(lines)[S] = Read(lines, Reads(lines), S)
<1> DEFINE Again(g) == [S \in SUBSET (1 .. n) |-> Read(lines, g, S)]
           Right(g, k) == \A S \in SUBSET (1 .. n) : Cardinality(S) <= k => g[S] = Again(g)[S]
           N == {k \in Nat : \E g : Right(g, k)}
<1>1. \A S \in SUBSET (1 .. n) : IsFiniteSet(S) /\ Cardinality(S) \in Nat
  <2>1. IsFiniteSet(1 .. n)
    BY FS_Interval
  <2> QED
    BY <2>1, FS_Subset, FS_CardinalityType
<1>2. 0 \in N
  <2> DEFINE none == [S \in SUBSET (1 .. n) |-> RunSummaryEmpty]
  <2>1. \A S \in SUBSET (1 .. n) : Cardinality(S) <= 0 => S = {}
    BY <1>1, FS_EmptySet
  <2>2. Right(none, 0)
    BY <2>1 DEF Read
  <2> HIDE DEF none, Right
  <2> QED
    BY <2>2
<1>3. ASSUME NEW k \in N PROVE k + 1 \in N
  <2>1. PICK g : Right(g, k)
    OBVIOUS
  <2>2. ASSUME NEW S \in SUBSET (1 .. n), Cardinality(S) <= k + 1
        PROVE  Again(g)[S] = Again(Again(g))[S]
    <3>1. CASE S = {}
      BY <3>1 DEF Read
    <3>2. CASE S # {}
      <4> DEFINE before == S \ {Max(S)}
      <4>1. Max(S) \in S
        BY <3>2, LatestLine
      <4>2. before \in SUBSET (1 .. n) /\ Cardinality(before) <= k
        <5>1. IsFiniteSet(S) /\ Cardinality(S) \in Nat /\ k \in Nat
          BY <1>1
        <5>2. Cardinality(before) = Cardinality(S) - 1
          BY <4>1, <5>1, FS_RemoveElement
        <5>3. before \in SUBSET (1 .. n)
          OBVIOUS
        <5> HIDE DEF before, N
        <5> QED
          BY <2>2, <5>1, <5>2, <5>3
      <4>3. g[before] = Again(g)[before]
        BY <2>1, <4>2
      <4>4. Read(lines, g, S) = Read(lines, Again(g), S)
        BY <3>2, <4>3 DEF Read
      <4> QED
        BY <4>4
    <3> QED
      BY <3>1, <3>2
  <2>3. Right(Again(g), k + 1)
    BY <2>2
  <2> HIDE DEF Right, Again
  <2> QED
    BY <2>3
<1>4. N = Nat
  <2>1. N \in SUBSET Nat
    OBVIOUS
  <2> HIDE DEF N
  <2> QED
    BY <1>2, <1>3, <2>1, Inductive
<1>5. PICK g : Right(g, n)
  <2> HIDE DEF Right
  <2> QED
    BY <1>4
<1>6. \A S \in SUBSET (1 .. n) : g[S] = Again(g)[S]
  <2>1. Cardinality(1 .. n) = n /\ IsFiniteSet(1 .. n)
    BY FS_Interval
  <2>2. \A S \in SUBSET (1 .. n) : Cardinality(S) <= n
    BY <2>1, FS_Subset
  <2> QED
    BY <1>5, <2>2
<1>7. \A S \in SUBSET (1 .. n) : Read(lines, g, S) = Read(lines, Again(g), S)
  <2> TAKE S \in SUBSET (1 .. n)
  <2>1. S \ {Max(S)} \in SUBSET (1 .. n)
    OBVIOUS
  <2> HIDE DEF Again
  <2> QED
    BY <1>6, <2>1 DEF Read
<1>8. Again(g) = [S \in SUBSET (1 .. n) |-> Read(lines, Again(g), S)]
  BY <1>7
<1> HIDE DEF Again
<1>9. Reads(lines) = [S \in SUBSET (1 .. n) |-> Read(lines, Reads(lines), S)]
  BY <1>8 DEF Reads
<1> QED
  BY <1>9

\* What the first k lines come to.
RowAfter(lines, k) == Reads(lines)[1 .. k]

LEMMA RowAfterNext ==
  ASSUME NEW lines, NEW n \in Nat, DOMAIN lines = 1 .. n
  PROVE  /\ RowAfter(lines, 0) = RunSummaryEmpty
         /\ \A k \in Nat : k < n => RowAfter(lines, k + 1) = Consume(RowAfter(lines, k), lines[k + 1])
         /\ ParseRun(lines) = RowAfter(lines, n)
<1>1. 1 .. 0 = {} /\ {} \in SUBSET (1 .. n)
  OBVIOUS
<1>2. RowAfter(lines, 0) = RunSummaryEmpty
  BY <1>1, ReadsDefined DEF RowAfter, Read
<1>3. ASSUME NEW k \in Nat, k < n
      PROVE  RowAfter(lines, k + 1) = Consume(RowAfter(lines, k), lines[k + 1])
  <2>1. /\ 1 .. (k + 1) \in SUBSET (1 .. n) /\ 1 .. (k + 1) # {}
        /\ k + 1 \in 1 .. (k + 1) /\ \A y \in 1 .. (k + 1) : y <= k + 1
    BY <1>3
  <2>2. Max(1 .. (k + 1)) \in 1 .. (k + 1) /\ \A y \in 1 .. (k + 1) : y <= Max(1 .. (k + 1))
    BY <2>1, LatestLine
  <2>3. Max(1 .. (k + 1)) = k + 1
    BY <2>1, <2>2
  <2>4. (1 .. (k + 1)) \ {k + 1} = 1 .. k
    OBVIOUS
  <2> QED
    BY <2>1, <2>3, <2>4, ReadsDefined DEF RowAfter, Read
<1> QED
  BY <1>2, <1>3, ParseUnfolds DEF RowAfter

-----------------------------------------------------------------------------
(* The row the first k lines of a log come to. *)

SummaryRows == [topic : BOOLEAN, rounds : Nat, judged : BOOLEAN,
                messages : [Sides -> Nat], nudges : [Sides -> Nat]]

\* Lines of a run's log: a message event is about a message.
RunLines(lines, n) ==
  /\ DOMAIN lines = 1 .. n
  /\ \A p \in 1 .. n : lines[p].kind \in EventKinds \cup {"debate_setup"}
  /\ \A p \in 1 .. n : IsMessage(lines[p]) => lines[p].about \in Messages

Of(lines, k, s) == {p \in 1 .. k : IsMessage(lines[p]) /\ AgentOf(lines[p]) = s}

\* The row counts the messages of each side among the first k lines, has the
\* latest of their rounds, and knows whether a verdict and a set-up are there.
\* It counts no correction.
Summed(lines, k, row) ==
  /\ row \in SummaryRows
  /\ \A s \in Sides : row.messages[s] = Cardinality(Of(lines, k, s))
  /\ row.rounds # 0 => \E p \in 1 .. k : IsMessage(lines[p]) /\ row.rounds = RoundOf(lines[p])
  /\ \A p \in 1 .. k : IsMessage(lines[p]) => RoundOf(lines[p]) <= row.rounds
  /\ row.judged <=> \E p \in 1 .. k : lines[p].kind = "verdict"
  /\ row.topic <=> \E p \in 1 .. k : lines[p].kind = "debate_setup"
  /\ row.nudges = [s \in Sides |-> 0]

LEMMA OfFinite ==
  ASSUME NEW lines, NEW k \in Nat, NEW s
  PROVE  IsFiniteSet(Of(lines, k, s)) /\ Cardinality(Of(lines, k, s)) \in Nat
<1>1. IsFiniteSet(1 .. k) /\ Of(lines, k, s) \subseteq 1 .. k
  BY FS_Interval DEF Of
<1> QED
  BY <1>1, FS_Subset, FS_CardinalityType

LEMMA OfNext ==
  ASSUME NEW lines, NEW k \in Nat, NEW s
  PROVE  Cardinality(Of(lines, k + 1, s))
           = Cardinality(Of(lines, k, s))
             + (IF IsMessage(lines[k + 1]) /\ AgentOf(lines[k + 1]) = s THEN 1 ELSE 0)
<1>1. \A p : p \in 1 .. (k + 1) <=> p \in 1 .. k \/ p = k + 1
  OBVIOUS
<1>2. CASE IsMessage(lines[k + 1]) /\ AgentOf(lines[k + 1]) = s
  <2>1. Of(lines, k + 1, s) = Of(lines, k, s) \cup {k + 1} /\ k + 1 \notin Of(lines, k, s)
    BY <1>1, <1>2 DEF Of
  <2> QED
    BY <1>2, <2>1, OfFinite, FS_AddElement
<1>3. CASE ~(IsMessage(lines[k + 1]) /\ AgentOf(lines[k + 1]) = s)
  <2>1. Of(lines, k + 1, s) = Of(lines, k, s)
    BY <1>1, <1>3 DEF Of
  <2> QED
    BY <1>3, <2>1, OfFinite
<1> QED
  BY <1>2, <1>3

\* A message line is of a side and of a round of the run; any other is of none.
LEMMA MessageLine ==
  ASSUME NEW line, IsMessage(line), line.about \in Messages
  PROVE  AgentOf(line) \in Sides /\ AgentOf(line) = line.about.side /\ RoundOf(line) \in Nat
<1>1. line.about.round \in 1 .. Rounds /\ line.about.side \in Sides
  BY DEF Messages
<1>2. line.kind # "nudge"
  BY DEF IsMessage
<1> QED
  BY <1>1, <1>2, DebateLoopAssumption DEF AgentOf, RoundOf, CLOSING_ROUND

\* What a line of each kind does to the row.
LEMMA Consumed ==
  ASSUME NEW line, NEW acc \in SummaryRows,
         line.kind \in EventKinds \cup {"debate_setup"},
         IsMessage(line) => line.about \in Messages
  PROVE  /\ Consume(acc, line) \in SummaryRows
         /\ \A s \in Sides : Consume(acc, line).messages[s]
              = acc.messages[s] + (IF IsMessage(line) /\ AgentOf(line) = s THEN 1 ELSE 0)
         /\ Consume(acc, line).rounds
              = IF IsMessage(line) /\ RoundOf(line) > acc.rounds THEN RoundOf(line) ELSE acc.rounds
         /\ Consume(acc, line).judged <=> acc.judged \/ line.kind = "verdict"
         /\ Consume(acc, line).topic <=> acc.topic \/ line.kind = "debate_setup"
         /\ Consume(acc, line).nudges = acc.nudges
<1>1. CASE IsMessage(line)
  <2>1. AgentOf(line) \in Sides /\ RoundOf(line) \in Nat
    BY <1>1, MessageLine
  <2>2. Consume(acc, line) = OnMessage(acc, line) /\ line.kind \in {"message", "closing_message"}
    BY <1>1 DEF Consume, IsMessage
  <2> DEFINE a == AgentOf(line)
             r == IF RoundOf(line) > acc.rounds THEN RoundOf(line) ELSE acc.rounds
             row == [acc EXCEPT !.messages = [acc.messages EXCEPT ![a] = @ + 1], !.rounds = r]
  <2>3. /\ acc.messages \in [Sides -> Nat] /\ acc.rounds \in Nat
        /\ acc = [topic |-> acc.topic, rounds |-> acc.rounds, judged |-> acc.judged,
                  messages |-> acc.messages, nudges |-> acc.nudges]
    BY DEF SummaryRows
  <2>4. Consume(acc, line) = row
    BY <2>2, <2>3 DEF OnMessage
  <2>5. row.rounds = r /\ row.judged = acc.judged /\ row.topic = acc.topic /\ row.nudges = acc.nudges
    BY <2>3
  <2>6. r \in Nat
    BY <2>1, <2>3
  <2>7. row.messages = [acc.messages EXCEPT ![a] = @ + 1]
    BY <2>3
  <2>8. /\ row.messages \in [Sides -> Nat]
        /\ \A s \in Sides : row.messages[s] = acc.messages[s] + (IF a = s THEN 1 ELSE 0)
    BY <2>1, <2>3, <2>7
  <2>9. row \in SummaryRows
    <3> DEFINE more == [acc.messages EXCEPT ![a] = @ + 1]
    <3>1. more \in [Sides -> Nat]
      BY <2>7, <2>8
    <3> HIDE DEF more, r
    <3>2. [acc EXCEPT !.messages = more, !.rounds = r] \in SummaryRows
      BY <2>6, <3>1 DEF SummaryRows
    <3> QED
      BY <3>2 DEF more
  <2> HIDE DEF row
  <2> QED
    BY <1>1, <2>2, <2>3, <2>4, <2>5, <2>8, <2>9
<1>2. CASE line.kind = "nudge"
  <2>1. Consume(acc, line) = acc
    <3>1. NudgedSide(line) = "controller"
      BY <1>2 DEF NudgedSide, Payload, AgentOf
    <3>2. "controller" \notin Sides
      BY DEF Sides, Pro, Con
    <3> QED
      BY <1>2, <3>1, <3>2 DEF Consume, OnNudge, IsMessage
  <2> QED
    BY <1>2, <2>1 DEF IsMessage, SummaryRows
<1>3. CASE line.kind = "verdict"
  <2> DEFINE row == [acc EXCEPT !.judged = TRUE]
  <2>1. Consume(acc, line) = row /\ ~IsMessage(line)
    BY <1>3 DEF Consume, IsMessage
  <2>2. /\ row \in SummaryRows /\ row.messages = acc.messages /\ row.rounds = acc.rounds
        /\ row.judged = TRUE /\ row.topic = acc.topic /\ acc.messages \in [Sides -> Nat]
        /\ row.nudges = acc.nudges
    BY DEF SummaryRows
  <2> HIDE DEF row
  <2> QED
    BY <1>3, <2>1, <2>2
<1>4. CASE line.kind = "debate_setup"
  <2> DEFINE row == [acc EXCEPT !.topic = TRUE]
  <2>1. Consume(acc, line) = row /\ ~IsMessage(line)
    BY <1>4 DEF Consume, IsMessage
  <2>2. /\ row \in SummaryRows /\ row.messages = acc.messages /\ row.rounds = acc.rounds
        /\ row.judged = acc.judged /\ row.topic = TRUE /\ acc.messages \in [Sides -> Nat]
        /\ row.nudges = acc.nudges
    BY DEF SummaryRows
  <2> HIDE DEF row
  <2> QED
    BY <1>4, <2>1, <2>2
<1>5. CASE ~IsMessage(line) /\ line.kind \notin {"nudge", "verdict", "debate_setup"}
  <2>1. Consume(acc, line) = acc
    BY <1>5 DEF Consume
  <2> QED
    BY <1>5, <2>1 DEF SummaryRows
<1> QED
  BY <1>1, <1>2, <1>3, <1>4, <1>5

LEMMA SummedNext ==
  ASSUME NEW lines, NEW n \in Nat, RunLines(lines, n), NEW k \in Nat, k < n,
         NEW acc, Summed(lines, k, acc)
  PROVE  Summed(lines, k + 1, Consume(acc, lines[k + 1]))
<1> DEFINE line == lines[k + 1]
           row == Consume(acc, line)
<1>1. /\ \A p : p \in 1 .. (k + 1) <=> p \in 1 .. k \/ p = k + 1
      /\ k + 1 \in 1 .. n
  OBVIOUS
<1>2. /\ acc \in SummaryRows /\ line.kind \in EventKinds \cup {"debate_setup"}
      /\ IsMessage(line) => line.about \in Messages
  BY <1>1 DEF RunLines, Summed
<1> HIDE DEF line
<1>3. /\ row \in SummaryRows
      /\ \A s \in Sides : row.messages[s]
           = acc.messages[s] + (IF IsMessage(line) /\ AgentOf(line) = s THEN 1 ELSE 0)
      /\ row.rounds = IF IsMessage(line) /\ RoundOf(line) > acc.rounds THEN RoundOf(line) ELSE acc.rounds
      /\ row.judged <=> acc.judged \/ line.kind = "verdict"
      /\ row.topic <=> acc.topic \/ line.kind = "debate_setup"
      /\ row.nudges = acc.nudges
  BY <1>2, Consumed
<1>4. IsMessage(line) => RoundOf(line) \in Nat
  BY <1>2, MessageLine
<1>5. acc.rounds \in Nat /\ acc.judged \in BOOLEAN /\ acc.topic \in BOOLEAN
  BY <1>2 DEF SummaryRows
<1> HIDE DEF row
<1>6. \A s \in Sides : row.messages[s] = Cardinality(Of(lines, k + 1, s))
  BY <1>3, OfNext DEF Summed, line
<1>7. row.rounds # 0 => \E p \in 1 .. (k + 1) : IsMessage(lines[p]) /\ row.rounds = RoundOf(lines[p])
  <2>1. CASE IsMessage(line) /\ RoundOf(line) > acc.rounds
    BY <1>1, <1>3, <2>1 DEF line
  <2>2. CASE ~(IsMessage(line) /\ RoundOf(line) > acc.rounds)
    BY <1>1, <1>3, <2>2 DEF Summed
  <2> QED
    BY <2>1, <2>2
<1>8. ASSUME NEW p \in 1 .. (k + 1), IsMessage(lines[p]) PROVE RoundOf(lines[p]) <= row.rounds
  <2>1. acc.rounds <= row.rounds
    BY <1>3, <1>4, <1>5
  <2>2. CASE p = k + 1
    BY <1>3, <1>4, <1>5, <1>8, <2>2 DEF line
  <2>3. CASE p # k + 1
    <3>1. p \in 1 .. k /\ p \in 1 .. n
      BY <1>1, <2>3
    <3>2. RoundOf(lines[p]) <= acc.rounds /\ RoundOf(lines[p]) \in Nat
      BY <1>8, <3>1, MessageLine DEF Summed, RunLines
    <3> QED
      BY <1>3, <1>5, <2>1, <3>2 DEF SummaryRows
  <2> QED
    BY <2>2, <2>3
<1>9. row.judged <=> \E p \in 1 .. (k + 1) : lines[p].kind = "verdict"
  BY <1>1, <1>3, <1>5 DEF Summed, line
<1>10. row.topic <=> \E p \in 1 .. (k + 1) : lines[p].kind = "debate_setup"
  BY <1>1, <1>3, <1>5 DEF Summed, line
<1>11. Summed(lines, k + 1, row)
  BY <1>3, <1>6, <1>7, <1>8, <1>9, <1>10 DEF Summed
<1> QED
  BY <1>11 DEF row, line

LEMMA RunSummed ==
  ASSUME NEW lines, NEW n \in Nat, RunLines(lines, n)
  PROVE  Summed(lines, n, ParseRun(lines))
<1> DEFINE N == {k \in Nat : k <= n => Summed(lines, k, RowAfter(lines, k))}
<1>1. 0 \in N
  <2>1. 1 .. 0 = {} /\ \A s : Of(lines, 0, s) = {}
    BY DEF Of
  <2>2. RunSummaryEmpty \in SummaryRows
    BY DEF SummaryRows, RunSummaryEmpty
  <2>3. Summed(lines, 0, RunSummaryEmpty)
    BY <2>1, <2>2, FS_EmptySet DEF Summed, RunSummaryEmpty
  <2> QED
    BY <2>3, RowAfterNext DEF RunLines
<1>2. ASSUME NEW k \in N PROVE k + 1 \in N
  <2>1. CASE k < n
    <3>1. Summed(lines, k, RowAfter(lines, k))
      BY <2>1
    <3>2. RowAfter(lines, k + 1) = Consume(RowAfter(lines, k), lines[k + 1])
      BY <2>1, RowAfterNext DEF RunLines
    <3>3. Summed(lines, k + 1, Consume(RowAfter(lines, k), lines[k + 1]))
      BY <2>1, <3>1, SummedNext
    <3> QED
      BY <3>2, <3>3
  <2>2. CASE ~(k < n)
    BY <2>2
  <2> QED
    BY <2>1, <2>2
<1>3. N = Nat
  <2>1. N \in SUBSET Nat
    OBVIOUS
  <2> HIDE DEF N
  <2> QED
    BY <1>1, <1>2, <2>1, Inductive
<1> QED
  BY <1>3, RowAfterNext DEF RunLines

-----------------------------------------------------------------------------
(* A tale and its subjects, counted *)

LEMMA FirstToLast ==
  ASSUME NEW S, IsFiniteSet(S), NEW T, NEW F \in [S -> T],
         \A a, b \in S : F[a] = F[b] => a = b, \A t \in T : \E a \in S : F[a] = t
  PROVE  IsFiniteSet(T) /\ Cardinality(T) = Cardinality(S)
<1>1. F \in Bijection(S, T)
  BY DEF Bijection, Injection, Surjection, IsInjective
<1>2. ExistsBijection(S, T)
  BY <1>1 DEF ExistsBijection
<1> QED
  BY <1>2, FS_Bijection

\* A tale of subjects that all differ has as many of a sort as there are.
LEMMA TellsCounts ==
  ASSUME NEW f, NEW g, Tells(f, g), DOMAIN f \subseteq Int, DOMAIN g \subseteq Int,
         IsFiniteSet(DOMAIN g), \A i, j \in DOMAIN g : g[i] = g[j] => i = j,
         NEW M
  PROVE  /\ IsFiniteSet({p \in DOMAIN f : f[p] \in M})
         /\ Cardinality({p \in DOMAIN f : f[p] \in M}) = Cardinality({i \in DOMAIN g : g[i] \in M})
<1> DEFINE S == {i \in DOMAIN g : g[i] \in M}
           T == {p \in DOMAIN f : f[p] \in M}
           At(i) == CHOOSE p \in DOMAIN f : f[p] = g[i]
           F == [i \in S |-> At(i)]
<1>1. \A i \in DOMAIN g : At(i) \in DOMAIN f /\ f[At(i)] = g[i]
  BY DEF Tells
<1>2. IsFiniteSet(S)
  BY FS_Subset
<1>3. F \in [S -> T]
  BY <1>1
<1>4. ASSUME NEW a \in S, NEW b \in S, F[a] = F[b] PROVE a = b
  BY <1>1, <1>4
<1>5. ASSUME NEW p \in T PROVE \E i \in S : F[i] = p
  <2>1. PICK i \in DOMAIN g : f[p] = g[i]
    BY DEF Tells
  <2>2. i \in S /\ F[i] \in DOMAIN f /\ f[F[i]] = g[i]
    BY <1>1, <2>1
  <2>3. i \in Int /\ p \in Int /\ F[i] \in Int /\ p \in DOMAIN f
    BY <2>1, <2>2
  <2> HIDE DEF F, S
  <2>4. ~(p < F[i]) /\ ~(F[i] < p)
    BY <2>1, <2>2, <2>3 DEF Tells
  <2> QED
    BY <2>2, <2>3, <2>4
<1> HIDE DEF F, S, T
<1>6. IsFiniteSet(T) /\ Cardinality(T) = Cardinality(S)
  BY <1>2, <1>3, <1>4, <1>5, FirstToLast
<1> QED
  BY <1>6 DEF S, T

-----------------------------------------------------------------------------
(* The set-up event before the log *)

Lines == [kind : EventKinds \cup {"debate_setup"}, about : Messages \cup {NoMessage}]

LEMMA SetupTyped ==
  ASSUME NEW setup \in SetupEvents
  PROVE  /\ setup \in Seq(Lines) /\ Len(setup) \in {0, 1}
         /\ setup # <<>> <=> Len(setup) = 1
         /\ \A p \in 1 .. Len(setup) : setup[p].kind = "debate_setup"
<1>1. Event("debate_setup", NoMessage) \in Lines /\ Event("debate_setup", NoMessage).kind = "debate_setup"
  BY DEF Event, Lines
<1>2. CASE setup = <<>>
  BY <1>2
<1>3. CASE setup = <<Event("debate_setup", NoMessage)>>
  BY <1>1, <1>3
<1> QED
  BY <1>2, <1>3 DEF SetupEvents

LEMMA LogShifted ==
  ASSUME NEW setup \in SetupEvents, NEW log \in Seq(Events)
  PROVE  /\ setup \o log \in Seq(Lines)
         /\ Len(setup \o log) = Len(setup) + Len(log) /\ Len(setup) \in Nat /\ Len(log) \in Nat
         /\ DOMAIN (setup \o log) = 1 .. Len(setup \o log) /\ DOMAIN log = 1 .. Len(log)
         /\ \A p \in 1 .. Len(log) : (setup \o log)[p + Len(setup)] = log[p]
         /\ \A p \in 1 .. Len(setup \o log) :
              \/ (setup \o log)[p].kind = "debate_setup" /\ p = 1 /\ setup # <<>>
              \/ p - Len(setup) \in 1 .. Len(log) /\ (setup \o log)[p] = log[p - Len(setup)]
<1>1. /\ setup \in Seq(Lines) /\ Len(setup) \in {0, 1}
      /\ setup # <<>> <=> Len(setup) = 1
      /\ \A p \in 1 .. Len(setup) : setup[p].kind = "debate_setup"
  BY SetupTyped
<1>2. log \in Seq(Lines)
  <2>1. Events \subseteq Lines
    BY DEF Events, Lines
  <2> QED
    BY <2>1
<1> DEFINE lines == setup \o log
<1>3. /\ lines \in Seq(Lines) /\ Len(lines) = Len(setup) + Len(log)
      /\ \A p \in 1 .. Len(lines) : lines[p] = IF p <= Len(setup) THEN setup[p] ELSE log[p - Len(setup)]
  BY <1>1, <1>2
<1>4. Len(log) \in Nat /\ Len(setup) \in Nat /\ DOMAIN lines = 1 .. Len(lines) /\ DOMAIN log = 1 .. Len(log)
  BY <1>1, <1>2, <1>3
<1> HIDE DEF lines
<1>5. ASSUME NEW p \in 1 .. Len(log) PROVE lines[p + Len(setup)] = log[p]
  BY <1>3, <1>4
<1>6. ASSUME NEW p \in 1 .. Len(lines)
      PROVE  \/ lines[p].kind = "debate_setup" /\ p = 1 /\ setup # <<>>
             \/ p - Len(setup) \in 1 .. Len(log) /\ lines[p] = log[p - Len(setup)]
  <2>1. CASE p <= Len(setup)
    <3>1. p = 1 /\ Len(setup) = 1
      BY <1>1, <1>4, <2>1
    <3> QED
      BY <1>1, <1>3, <3>1
  <2>2. CASE ~(p <= Len(setup))
    BY <1>3, <1>4, <2>2
  <2> QED
    BY <2>1, <2>2
<1> QED
  BY <1>3, <1>4, <1>5, <1>6 DEF lines

TaleOf(lines, kind) == [p \in {q \in DOMAIN lines : lines[q].kind = kind} |-> lines[p].about]

\* What the log tells, it tells after the set-up event too.
LEMMA ToldAfterSetup ==
  ASSUME NEW setup \in SetupEvents, NEW log \in Seq(Events),
         NEW kind \in EventKinds, NEW g, Tells(TaleOf(log, kind), g)
  PROVE  Tells(TaleOf(setup \o log, kind), g)
<1> DEFINE lines == setup \o log
           a == Len(setup)
           f == TaleOf(log, kind)
           h == TaleOf(lines, kind)
<1>0. kind # "debate_setup"
  BY DEF EventKinds, LogOnly
<1>1. /\ a \in Nat /\ DOMAIN log \subseteq Int /\ DOMAIN lines \subseteq Int
      /\ \A p \in DOMAIN log : p + a \in DOMAIN lines /\ lines[p + a] = log[p]
      /\ \A p \in DOMAIN lines : lines[p].kind = kind =>
           p - a \in DOMAIN log /\ lines[p] = log[p - a]
  <2> HIDE DEF lines
  <2>1. /\ lines \in Seq(Lines)
        /\ Len(lines) = a + Len(log) /\ a \in Nat /\ Len(log) \in Nat
        /\ DOMAIN lines = 1 .. Len(lines) /\ DOMAIN log = 1 .. Len(log)
        /\ \A p \in 1 .. Len(log) : lines[p + a] = log[p]
        /\ \A p \in 1 .. Len(lines) :
              \/ lines[p].kind = "debate_setup" /\ p = 1 /\ setup # <<>>
              \/ p - a \in 1 .. Len(log) /\ lines[p] = log[p - a]
    BY LogShifted DEF lines
  <2> HIDE DEF a
  <2> QED
    BY <1>0, <2>1
<1> HIDE DEF lines, a
<1>2. /\ DOMAIN f \subseteq Int /\ DOMAIN h \subseteq Int
      /\ \A p \in DOMAIN f : p + a \in DOMAIN h /\ h[p + a] = f[p]
      /\ \A p \in DOMAIN h : p - a \in DOMAIN f /\ h[p] = f[p - a]
  BY <1>1 DEF TaleOf
<1>3. Tells(f, g)
  OBVIOUS
<1> HIDE DEF f, h
<1>4. \A p \in DOMAIN h : \E i \in DOMAIN g : h[p] = g[i]
  BY <1>2, <1>3 DEF Tells
<1>5. \A i \in DOMAIN g : \E p \in DOMAIN h : h[p] = g[i]
  BY <1>2, <1>3 DEF Tells
<1>6. ASSUME NEW p \in DOMAIN h, NEW q \in DOMAIN h, NEW i \in DOMAIN g, NEW j \in DOMAIN g,
             p < q, h[p] = g[i], h[q] = g[j]
      PROVE  i < j
  <2>1. /\ p - a \in DOMAIN f /\ q - a \in DOMAIN f /\ p - a < q - a
        /\ f[p - a] = g[i] /\ f[q - a] = g[j]
    BY <1>1, <1>2, <1>6
  <2> QED
    BY <1>3, <2>1 DEF Tells
<1> QED
  BY <1>4, <1>5, <1>6 DEF Tells, h, lines

-----------------------------------------------------------------------------
(* The row and the run *)

\* No side closes twice.
ClosingsDiffer ==
  \A i, j \in 1 .. Len(closing) : closing[i].side = closing[j].side => i = j

LEMMA ClosingsStart == Init => ClosingsDiffer
  BY DEF Init, ClosingsDiffer

LEMMA ClosingsKept ==
  ASSUME IInv, RunInTurn, ClosingsDiffer, [Next]_vars
  PROVE  ClosingsDiffer'
<1>1. closing \in Seq(Messages) /\ side \in Sides /\ Len(closing) \in Nat
  BY TurnTypes
<1>2. CASE Close
  <2>1. PICK style \in Styles, long \in BOOLEAN :
          closing' = Append(closing, Message(side, ClosingStamp, style, long))
    BY <1>2 DEF Close
  <2> DEFINE m == Message(side, ClosingStamp, style, long)
  <2>2. m.side = side
    BY DEF Message
  <2> HIDE DEF m
  <2>3. /\ Len(closing') = Len(closing) + 1 /\ closing'[Len(closing) + 1] = m
        /\ \A i \in 1 .. Len(closing) : closing'[i] = closing[i]
    BY <1>1, <2>1 DEF m
  <2>4. \A i \in 1 .. Len(closing) : closing[i].side # side
    BY <1>2, SidesTwo DEF Close, RunInTurn, ClosingsInTurn
  <2> QED
    BY <1>1, <2>2, <2>3, <2>4 DEF ClosingsDiffer
<1>3. CASE UNCHANGED closing
  BY <1>3 DEF ClosingsDiffer
<1>4. Close \/ UNCHANGED closing
  BY DEF Next, vars, Argue, FailArgument, LoseArgument, DriftCheck, DriftRefused, Forward,
         FailClosing, LoseClosing, Judge, JudgeRefused, Over
<1> QED
  BY <1>2, <1>3, <1>4

\* The lines tell the run: each message of it once, a verdict when there is one.
LinesTell(lines, n, setup) ==
  /\ n \in Nat /\ RunLines(lines, n)
  /\ Tells(TaleOf(lines, "message"), AnsweredTurns(Len(transcript)))
  /\ Tells(TaleOf(lines, "closing_message"), closing)
  /\ (\E p \in 1 .. n : lines[p].kind = "verdict") <=> verdict # {}
  /\ (\E p \in 1 .. n : lines[p].kind = "debate_setup") <=> setup # <<>>

LEMMA LogTells ==
  ASSUME IInv, StreamInStep, NEW setup \in SetupEvents
  PROVE  LinesTell(setup \o logged, Len(setup \o logged), setup)
<1> DEFINE lines == setup \o logged
           n == Len(lines)
<1>1. /\ transcript \in Seq(Messages) /\ closing \in Seq(Messages)
      /\ logged \in Seq(Events) /\ Len(transcript) \in Nat
  BY TurnTypes
<1>2. \A kind \in {"message", "closing_message"} : Tale(kind) = TaleOf(logged, kind)
  BY DEF Tale, StreamedAs, Streamed, TaleOf, LogOnly
<1>3. /\ Tells(TaleOf(logged, "message"), AnsweredTurns(Len(transcript)))
      /\ Tells(TaleOf(logged, "closing_message"), closing)
  BY <1>2 DEF StreamInStep, MessagesTold
<1>4. "message" \in EventKinds /\ "closing_message" \in EventKinds /\ "debate_setup" \notin EventKinds
  BY DEF EventKinds, LogOnly
<1>5. /\ Tells(TaleOf(lines, "message"), AnsweredTurns(Len(transcript)))
      /\ Tells(TaleOf(lines, "closing_message"), closing)
  BY <1>1, <1>3, <1>4, ToldAfterSetup
<1> HIDE DEF lines
<1>6. /\ lines \in Seq(Lines) /\ n = Len(setup) + Len(logged) /\ Len(logged) \in Nat
      /\ Len(setup) \in {0, 1}
      /\ setup # <<>> <=> Len(setup) = 1
      /\ n \in Nat /\ DOMAIN lines = 1 .. n /\ DOMAIN logged = 1 .. Len(logged)
      /\ \A p \in 1 .. Len(logged) : lines[p + Len(setup)] = logged[p]
      /\ \A p \in 1 .. n :
            \/ lines[p].kind = "debate_setup" /\ p = 1 /\ setup # <<>>
            \/ p - Len(setup) \in 1 .. Len(logged) /\ lines[p] = logged[p - Len(setup)]
  BY <1>1, LogShifted, SetupTyped DEF lines
<1> HIDE DEF n
<1>7. RunLines(lines, n)
  <2>1. \A p \in 1 .. n : lines[p] \in Lines
    BY <1>6
  <2>2. ASSUME NEW p \in 1 .. n, IsMessage(lines[p]) PROVE lines[p].about \in Messages
    <3>1. CASE lines[p].kind = "message"
      <4>1. p \in DOMAIN TaleOf(lines, "message") /\ TaleOf(lines, "message")[p] = lines[p].about
        BY <1>6, <3>1 DEF TaleOf
      <4>2. PICK i \in DOMAIN AnsweredTurns(Len(transcript)) :
              lines[p].about = AnsweredTurns(Len(transcript))[i]
        BY <1>5, <4>1 DEF Tells
      <4>3. i \in 1 .. Len(transcript) /\ lines[p].about = transcript[i]
        BY <4>2 DEF AnsweredTurns
      <4> QED
        BY <1>1, <4>3
    <3>2. CASE lines[p].kind = "closing_message"
      <4>1. p \in DOMAIN TaleOf(lines, "closing_message") /\ TaleOf(lines, "closing_message")[p] = lines[p].about
        BY <1>6, <3>2 DEF TaleOf
      <4>2. PICK i \in DOMAIN closing : lines[p].about = closing[i]
        BY <1>5, <4>1 DEF Tells
      <4> QED
        BY <1>1, <4>2
    <3> QED
      BY <2>2, <3>1, <3>2 DEF IsMessage
  <2>3. \A p \in 1 .. n : lines[p].kind \in EventKinds \cup {"debate_setup"}
    BY <2>1 DEF Lines
  <2> QED
    BY <1>6, <2>2, <2>3 DEF RunLines
<1>8. (\E p \in 1 .. n : lines[p].kind = "verdict") <=> verdict # {}
  <2>1. StreamedAs("verdict") = {p \in 1 .. Len(logged) : logged[p].kind = "verdict"}
    BY <1>6 DEF StreamedAs, Streamed, LogOnly
  <2>2. verdict # {} <=> \E p \in 1 .. Len(logged) : logged[p].kind = "verdict"
    BY <2>1 DEF StreamInStep, VerdictTold
  <2>3. ASSUME NEW p \in 1 .. Len(logged), logged[p].kind = "verdict"
        PROVE  \E q \in 1 .. n : lines[q].kind = "verdict"
    <3>1. p + Len(setup) \in 1 .. n /\ lines[p + Len(setup)].kind = "verdict"
      BY <1>6, <2>3
    <3> QED
      BY <3>1
  <2>4. ASSUME NEW p \in 1 .. n, lines[p].kind = "verdict"
        PROVE  \E q \in 1 .. Len(logged) : logged[q].kind = "verdict"
    BY <1>6, <2>4
  <2> QED
    BY <2>2, <2>3, <2>4
<1>9. (\E p \in 1 .. n : lines[p].kind = "debate_setup") <=> setup # <<>>
  <2>1. ASSUME NEW p \in 1 .. n, lines[p].kind = "debate_setup" PROVE setup # <<>>
    <3>1. CASE p - Len(setup) \in 1 .. Len(logged) /\ lines[p] = logged[p - Len(setup)]
      <4>1. lines[p] \in Events
        BY <1>1, <3>1
      <4>2. lines[p].kind \in EventKinds
        BY <4>1 DEF Events
      <4> QED
        BY <1>4, <2>1, <4>2
    <3> QED
      BY <1>6, <3>1
  <2>2. ASSUME setup # <<>> PROVE \E p \in 1 .. n : lines[p].kind = "debate_setup"
    <3>1. Len(setup) = 1 /\ 1 \in 1 .. n /\ ~(1 - Len(setup) \in 1 .. Len(logged))
      BY <1>6, <2>2
    <3> QED
      BY <1>6, <3>1
  <2> QED
    BY <2>1, <2>2
<1> QED
  BY <1>5, <1>6, <1>7, <1>8, <1>9 DEF LinesTell, lines, n


\* Turns and closing statements all differ, so that each is told by one line.
LEMMA SubjectsDiffer ==
  ASSUME IInv, JInv, ClosingsDiffer
  PROVE  /\ DOMAIN AnsweredTurns(Len(transcript)) \subseteq Int
         /\ IsFiniteSet(DOMAIN AnsweredTurns(Len(transcript)))
         /\ \A i, j \in DOMAIN AnsweredTurns(Len(transcript)) :
              AnsweredTurns(Len(transcript))[i] = AnsweredTurns(Len(transcript))[j] => i = j
         /\ DOMAIN closing \subseteq Int /\ IsFiniteSet(DOMAIN closing)
         /\ \A i, j \in DOMAIN closing : closing[i] = closing[j] => i = j
<1>1. /\ transcript \in Seq(Messages) /\ closing \in Seq(Messages)
      /\ Len(transcript) \in Nat /\ Len(closing) \in Nat
  BY TurnTypes
<1> DEFINE g == AnsweredTurns(Len(transcript))
<1>2. /\ DOMAIN g \subseteq 1 .. Len(transcript)
      /\ \A i \in DOMAIN g : i \in 1 .. Len(transcript) /\ i \in Nat /\ g[i] = transcript[i]
  BY <1>1 DEF AnsweredTurns
<1> HIDE DEF g
<1>3. ASSUME NEW i \in DOMAIN g, NEW j \in DOMAIN g, g[i] = g[j] PROVE i = j
  <2>1. InTurn(transcript[i], i) /\ InTurn(transcript[j], j) /\ transcript[i] = transcript[j]
    BY <1>2, <1>3 DEF JInv, TurnsInOrder
  <2> QED
    BY <1>2, <2>1, TurnKnown
<1>4. IsFiniteSet(1 .. Len(transcript)) /\ IsFiniteSet(1 .. Len(closing))
  BY <1>1, FS_Interval
<1>5. IsFiniteSet(DOMAIN g) /\ DOMAIN g \subseteq Int
  BY <1>2, <1>4, FS_Subset
<1>6. DOMAIN closing = 1 .. Len(closing)
  BY <1>1
<1>7. \A i, j \in DOMAIN closing : closing[i] = closing[j] => i = j
  BY <1>6 DEF ClosingsDiffer
<1> QED
  BY <1>3, <1>4, <1>5, <1>6, <1>7 DEF g

\* What was said by s, and in round r.
SideOf(s) == {m \in Messages : m.side = s}
SideIn(s, r) == {m \in Messages : m.side = s /\ m.round = r}

LEMMA SaidAsSubjects ==
  ASSUME IInv, JInv, NEW s, NEW r
  PROVE  /\ {i \in DOMAIN AnsweredTurns(Len(transcript)) : AnsweredTurns(Len(transcript))[i] \in SideOf(s)}
              = By(transcript, s)
         /\ {i \in DOMAIN AnsweredTurns(Len(transcript)) : AnsweredTurns(Len(transcript))[i] \in SideIn(s, r)}
              = ByIn(transcript, s, r)
         /\ {i \in DOMAIN closing : closing[i] \in SideOf(s)} = By(closing, s)
<1>1. /\ transcript \in Seq(Messages) /\ closing \in Seq(Messages)
      /\ Len(transcript) \in Nat /\ Len(closing) \in Nat
  BY TurnTypes
<1>2. /\ DOMAIN transcript = 1 .. Len(transcript) /\ DOMAIN closing = 1 .. Len(closing)
      /\ \A i \in DOMAIN transcript : transcript[i] \in Messages
      /\ \A i \in DOMAIN closing : closing[i] \in Messages /\ ~closing[i].failed
  BY <1>1 DEF JInv, ClosingsSpoken
<1> DEFINE g == AnsweredTurns(Len(transcript))
<1>3. /\ DOMAIN g = {i \in DOMAIN transcript : ~transcript[i].failed}
      /\ \A i \in DOMAIN g : g[i] = transcript[i]
  BY <1>2 DEF AnsweredTurns
<1> HIDE DEF g
<1>4. {i \in DOMAIN g : g[i] \in SideOf(s)} = By(transcript, s)
  BY <1>2, <1>3 DEF By, SideOf
<1>5. {i \in DOMAIN g : g[i] \in SideIn(s, r)} = ByIn(transcript, s, r)
  BY <1>2, <1>3 DEF By, ByIn, SideIn
<1>6. {i \in DOMAIN closing : closing[i] \in SideOf(s)} = By(closing, s)
  BY <1>2 DEF By, SideOf
<1> QED
  BY <1>4, <1>5, <1>6 DEF g

\* The lines of a kind about what s said, and in round r.
ToldBy(lines, kind, s) == {p \in DOMAIN TaleOf(lines, kind) : TaleOf(lines, kind)[p] \in SideOf(s)}
ToldIn(lines, kind, s, r) ==
  {p \in DOMAIN TaleOf(lines, kind) : TaleOf(lines, kind)[p] \in SideIn(s, r)}

LEMMA ToldCounts ==
  ASSUME IInv, JInv, ClosingsDiffer, NEW lines, NEW n, NEW setup, LinesTell(lines, n, setup),
         NEW s, NEW r
  PROVE  /\ IsFiniteSet(ToldBy(lines, "message", s))
         /\ Cardinality(ToldBy(lines, "message", s)) = Cardinality(By(transcript, s))
         /\ Cardinality(ToldIn(lines, "message", s, r)) = Cardinality(ByIn(transcript, s, r))
         /\ IsFiniteSet(ToldBy(lines, "closing_message", s))
         /\ Cardinality(ToldBy(lines, "closing_message", s)) = Cardinality(By(closing, s))
<1> DEFINE f == TaleOf(lines, "message")
           c == TaleOf(lines, "closing_message")
           g == AnsweredTurns(Len(transcript))
<1>1. /\ DOMAIN f \subseteq Int /\ DOMAIN c \subseteq Int
      /\ Tells(f, g) /\ Tells(c, closing)
  BY DEF LinesTell, RunLines, TaleOf
<1>2. /\ DOMAIN g \subseteq Int /\ IsFiniteSet(DOMAIN g)
      /\ \A i, j \in DOMAIN g : g[i] = g[j] => i = j
      /\ DOMAIN closing \subseteq Int /\ IsFiniteSet(DOMAIN closing)
      /\ \A i, j \in DOMAIN closing : closing[i] = closing[j] => i = j
  BY SubjectsDiffer
<1> HIDE DEF f, c, g
<1>3. \A M : /\ IsFiniteSet({p \in DOMAIN f : f[p] \in M})
             /\ Cardinality({p \in DOMAIN f : f[p] \in M}) = Cardinality({i \in DOMAIN g : g[i] \in M})
  BY <1>1, <1>2, TellsCounts
<1>4. \A M : /\ IsFiniteSet({p \in DOMAIN c : c[p] \in M})
             /\ Cardinality({p \in DOMAIN c : c[p] \in M})
                  = Cardinality({i \in DOMAIN closing : closing[i] \in M})
  <2>1. Tells(c, closing) /\ DOMAIN c \subseteq Int
    BY <1>1
  <2>2. /\ DOMAIN closing \subseteq Int /\ IsFiniteSet(DOMAIN closing)
        /\ \A i, j \in DOMAIN closing : closing[i] = closing[j] => i = j
    BY <1>2
  <2> QED
    BY <2>1, <2>2, TellsCounts
<1>5. /\ {i \in DOMAIN g : g[i] \in SideOf(s)} = By(transcript, s)
      /\ {i \in DOMAIN g : g[i] \in SideIn(s, r)} = ByIn(transcript, s, r)
      /\ {i \in DOMAIN closing : closing[i] \in SideOf(s)} = By(closing, s)
  BY SaidAsSubjects DEF g
<1>6. /\ ToldBy(lines, "message", s) = {p \in DOMAIN f : f[p] \in SideOf(s)}
      /\ ToldIn(lines, "message", s, r) = {p \in DOMAIN f : f[p] \in SideIn(s, r)}
      /\ ToldBy(lines, "closing_message", s) = {p \in DOMAIN c : c[p] \in SideOf(s)}
  BY DEF ToldBy, ToldIn, f, c
<1> QED
  BY <1>3, <1>4, <1>5, <1>6

\* Message lines are the lines of those two kinds.
LEMMA OfTold ==
  ASSUME NEW lines, NEW n \in Nat, RunLines(lines, n), NEW s
  PROVE  /\ Of(lines, n, s) = ToldBy(lines, "message", s) \cup ToldBy(lines, "closing_message", s)
         /\ ToldBy(lines, "message", s) \cap ToldBy(lines, "closing_message", s) = {}
<1>1. \A p \in 1 .. n : IsMessage(lines[p]) => AgentOf(lines[p]) = lines[p].about.side
  BY MessageLine DEF RunLines
<1>2. \A p : p \in ToldBy(lines, "message", s)
               <=> p \in 1 .. n /\ lines[p].kind = "message" /\ lines[p].about \in SideOf(s)
  BY DEF ToldBy, TaleOf, RunLines
<1>3. \A p : p \in ToldBy(lines, "closing_message", s)
               <=> p \in 1 .. n /\ lines[p].kind = "closing_message" /\ lines[p].about \in SideOf(s)
  BY DEF ToldBy, TaleOf, RunLines
<1>4. \A p : p \in Of(lines, n, s)
               <=> p \in 1 .. n /\ IsMessage(lines[p]) /\ lines[p].about \in SideOf(s)
  BY <1>1 DEF Of, SideOf, RunLines
<1> QED
  BY <1>2, <1>3, <1>4 DEF IsMessage

LEMMA MessagesCounted ==
  ASSUME IInv, JInv, ClosingsDiffer, NEW lines, NEW n, NEW setup, LinesTell(lines, n, setup),
         NEW s
  PROVE  Cardinality(Of(lines, n, s)) = Cardinality(By(transcript, s)) + Cardinality(By(closing, s))
<1> DEFINE A == ToldBy(lines, "message", s)
           B == ToldBy(lines, "closing_message", s)
<1>1. Of(lines, n, s) = A \cup B /\ A \cap B = {}
  BY OfTold DEF LinesTell
<1>2. /\ IsFiniteSet(A) /\ Cardinality(A) = Cardinality(By(transcript, s))
      /\ IsFiniteSet(B) /\ Cardinality(B) = Cardinality(By(closing, s))
  BY ToldCounts
<1> HIDE DEF A, B
<1>3. Cardinality(A \cup B) = Cardinality(A) + Cardinality(B) - Cardinality(A \cap B)
  BY <1>2, FS_Union
<1>4. Cardinality({}) = 0 /\ Cardinality(A) \in Nat /\ Cardinality(B) \in Nat
  BY <1>2, FS_EmptySet, FS_CardinalityType
<1>5. Cardinality(A \cap B) = 0 /\ Cardinality(Of(lines, n, s)) = Cardinality(A \cup B)
  BY <1>1, <1>4
<1> QED
  BY <1>2, <1>3, <1>4, <1>5


\* The rounds of the lines are those somebody spoke in, and the closing's.
RoundsOf(lines) == {RoundOf(lines[p]) : p \in MessageLines(lines)}

LEMMA SpokenRounds ==
  ASSUME IInv, NEW lines, NEW n, NEW setup, LinesTell(lines, n, setup)
  PROVE  /\ RoundsOf(lines) = Spoke \cup {r \in {CLOSING_ROUND} : closing # <<>>}
         /\ \A r \in Spoke : r \in Nat /\ r # CLOSING_ROUND
<1> DEFINE g == AnsweredTurns(Len(transcript))
           f == TaleOf(lines, "message")
           c == TaleOf(lines, "closing_message")
<1>1. /\ transcript \in Seq(Messages) /\ closing \in Seq(Messages)
      /\ Len(transcript) \in Nat /\ Len(closing) \in Nat
  BY TurnTypes
<1>2. /\ Tells(f, g) /\ Tells(c, closing) /\ DOMAIN lines = 1 .. n
  BY DEF LinesTell, RunLines
<1>3. /\ \A p : p \in DOMAIN f <=> p \in 1 .. n /\ lines[p].kind = "message"
      /\ \A p \in DOMAIN f : f[p] = lines[p].about
      /\ \A p : p \in DOMAIN c <=> p \in 1 .. n /\ lines[p].kind = "closing_message"
  BY <1>2 DEF TaleOf
<1>4. /\ \A i \in DOMAIN g : g[i] = transcript[i] /\ i \in 1 .. Len(transcript)
      /\ Spoke = {transcript[i].round : i \in DOMAIN g}
  BY DEF Spoke, AnsweredTurns
<1> HIDE DEF f, g, c
<1>5. ASSUME NEW r \in Spoke PROVE r \in Nat /\ r # CLOSING_ROUND
  <2>1. PICK i \in DOMAIN g : r = transcript[i].round
    BY <1>4
  <2>2. transcript[i] \in Messages
    BY <1>1, <1>4, <2>1
  <2>3. r \in 1 .. Rounds
    BY <2>1, <2>2 DEF Messages
  <2> QED
    BY <2>3, DebateLoopAssumption DEF CLOSING_ROUND
<1>6. ASSUME NEW p \in MessageLines(lines)
      PROVE  RoundOf(lines[p]) \in Spoke \cup {r \in {CLOSING_ROUND} : closing # <<>>}
  <2>1. p \in 1 .. n /\ lines[p].kind \in {"message", "closing_message"}
    BY <1>2 DEF MessageLines, IsMessage
  <2>2. CASE lines[p].kind = "message"
    <3>1. p \in DOMAIN f /\ f[p] = lines[p].about
      BY <1>3, <2>1, <2>2
    <3>2. PICK i \in DOMAIN g : f[p] = g[i]
      BY <1>2, <3>1 DEF Tells
    <3>3. lines[p].about = transcript[i]
      BY <1>4, <3>1, <3>2
    <3>4. RoundOf(lines[p]) = transcript[i].round
      BY <2>2, <3>3 DEF RoundOf
    <3> QED
      BY <1>4, <3>2, <3>4
  <2>3. CASE lines[p].kind = "closing_message"
    <3>1. p \in DOMAIN c
      BY <1>3, <2>1, <2>3
    <3>2. PICK i \in DOMAIN closing : c[p] = closing[i]
      BY <1>2, <3>1 DEF Tells
    <3>3. closing # <<>>
      BY <1>1, <3>2
    <3>4. RoundOf(lines[p]) = CLOSING_ROUND
      BY <2>3 DEF RoundOf
    <3> QED
      BY <3>3, <3>4
  <2> QED
    BY <2>1, <2>2, <2>3
<1>7. ASSUME NEW r \in Spoke PROVE r \in RoundsOf(lines)
  <2>1. PICK i \in DOMAIN g : r = transcript[i].round
    BY <1>4
  <2>2. PICK p \in DOMAIN f : f[p] = g[i]
    BY <1>2, <2>1 DEF Tells
  <2>3. /\ p \in 1 .. n /\ lines[p].kind = "message" /\ lines[p].about = transcript[i]
    BY <1>3, <1>4, <2>1, <2>2
  <2>4. p \in MessageLines(lines) /\ RoundOf(lines[p]) = r
    BY <1>2, <2>1, <2>3 DEF MessageLines, IsMessage, RoundOf
  <2> QED
    BY <2>4 DEF RoundsOf
<1>8. ASSUME closing # <<>> PROVE CLOSING_ROUND \in RoundsOf(lines)
  <2>1. 1 \in DOMAIN closing
    BY <1>1, <1>8
  <2>2. PICK p \in DOMAIN c : c[p] = closing[1]
    BY <1>2, <2>1 DEF Tells
  <2>3. p \in 1 .. n /\ lines[p].kind = "closing_message"
    BY <1>3, <2>2
  <2>4. p \in MessageLines(lines) /\ RoundOf(lines[p]) = CLOSING_ROUND
    BY <1>2, <2>3 DEF MessageLines, IsMessage, RoundOf
  <2> QED
    BY <2>4 DEF RoundsOf
<1>9. RoundsOf(lines) = Spoke \cup {r \in {CLOSING_ROUND} : closing # <<>>}
  <2>1. \A r \in RoundsOf(lines) : r \in Spoke \cup {x \in {CLOSING_ROUND} : closing # <<>>}
    BY <1>6 DEF RoundsOf
  <2> QED
    BY <1>7, <1>8, <2>1
<1> QED
  BY <1>5, <1>9

\* The split of a round is that of what was said in it.
LEMMA RoundsCounted ==
  ASSUME IInv, JInv, ClosingsDiffer, NEW lines, NEW n, NEW setup, LinesTell(lines, n, setup)
  PROVE  /\ DOMAIN RoundMetrics(lines) = RoundsOf(lines)
         /\ \A r \in DOMAIN RoundMetrics(lines), s \in Sides :
              RoundMetrics(lines)[r][s]
                = Cardinality(IF r = CLOSING_ROUND THEN By(closing, s) ELSE ByIn(transcript, s, r))
<1> DEFINE Line(r, s) == {p \in MessageLines(lines) : RoundOf(lines[p]) = r /\ AgentOf(lines[p]) = s}
<1>1. RoundMetrics(lines) = [r \in RoundsOf(lines) |-> [s \in Sides |-> Cardinality(Line(r, s))]]
  BY DEF RoundMetrics, RoundsOf
<1>2. /\ DOMAIN lines = 1 .. n
      /\ \A p \in MessageLines(lines) : /\ AgentOf(lines[p]) = lines[p].about.side
                                       /\ lines[p].about \in Messages
                                       /\ lines[p].about.round # CLOSING_ROUND
  <2>1. DOMAIN lines = 1 .. n
    BY DEF LinesTell, RunLines
  <2>2. ASSUME NEW p \in MessageLines(lines)
        PROVE  AgentOf(lines[p]) = lines[p].about.side /\ lines[p].about \in Messages
    BY <2>1, MessageLine DEF MessageLines, LinesTell, RunLines
  <2>3. \A m \in Messages : m.round # CLOSING_ROUND
    <3>1. \A m \in Messages : m.round \in 1 .. Rounds
      BY DEF Messages
    <3> QED
      BY <3>1, DebateLoopAssumption DEF CLOSING_ROUND
  <2> QED
    BY <2>1, <2>2, <2>3
<1>3. ASSUME NEW s \in Sides, NEW r PROVE Cardinality(Line(r, s))
         = Cardinality(IF r = CLOSING_ROUND THEN By(closing, s) ELSE ByIn(transcript, s, r))
  <2>1. CASE r = CLOSING_ROUND
    <3>1. \A p : p \in ToldBy(lines, "closing_message", s)
               <=> p \in 1 .. n /\ lines[p].kind = "closing_message" /\ lines[p].about \in SideOf(s)
      BY <1>2 DEF ToldBy, TaleOf
    <3>2. \A p : p \in Line(r, s) <=> p \in ToldBy(lines, "closing_message", s)
      BY <1>2, <2>1, <3>1 DEF MessageLines, IsMessage, RoundOf, SideOf
    <3>3. Line(r, s) = ToldBy(lines, "closing_message", s)
      <4> HIDE DEF Line
      <4> QED
        BY <3>2 DEF ToldBy
    <3> QED
      BY <2>1, <3>3, ToldCounts
  <2>2. CASE r # CLOSING_ROUND
    <3>1. \A p : p \in ToldIn(lines, "message", s, r)
               <=> p \in 1 .. n /\ lines[p].kind = "message" /\ lines[p].about \in SideIn(s, r)
      BY <1>2 DEF ToldIn, TaleOf
    <3>2. \A p : p \in Line(r, s) <=> p \in ToldIn(lines, "message", s, r)
      BY <1>2, <2>2, <3>1 DEF MessageLines, IsMessage, RoundOf, SideIn
    <3>3. Line(r, s) = ToldIn(lines, "message", s, r)
      BY <3>2
    <3> QED
      BY <2>2, <3>3, ToldCounts
  <2> QED
    BY <2>1, <2>2
<1> HIDE DEF Line
<1> QED
  BY <1>1, <1>3

LEMMA DatasetHolds ==
  ASSUME IInv, JInv, ClosingsDiffer, StreamInStep
  PROVE  DatasetTellsTheRun
<1> SUFFICES ASSUME NEW setup \in SetupEvents
             PROVE
    LET lines   == setup \o logged
        row     == ParseRun(lines)
        metrics == RoundMetrics(lines)
    IN  /\ row.messages = [s \in Sides |-> Cardinality(By(transcript, s)) + Cardinality(By(closing, s))]
        /\ row.rounds \in Spoke \cup {0} /\ \A r \in Spoke : r <= row.rounds
        /\ row.judged = (verdict # {}) /\ row.topic = (setup # <<>>)
        /\ DOMAIN metrics = Spoke \cup {r \in {CLOSING_ROUND} : closing # <<>>}
        /\ \A r \in DOMAIN metrics, s \in Sides :
             metrics[r][s] = Cardinality(IF r = CLOSING_ROUND THEN By(closing, s)
                                                              ELSE ByIn(transcript, s, r))
        /\ (AggregateRuns(lines) = {row}) = (setup # <<>> \/ verdict # {})
  BY DEF DatasetTellsTheRun
<1> DEFINE lines == setup \o logged
           n == Len(lines)
           row == ParseRun(lines)
           metrics == RoundMetrics(lines)
<1>1. LinesTell(lines, n, setup)
  BY LogTells
<1> HIDE DEF lines, n
<1>2. n \in Nat /\ RunLines(lines, n) /\ DOMAIN lines = 1 .. n
  BY <1>1 DEF LinesTell, RunLines
<1>3. Summed(lines, n, row)
  BY <1>2, RunSummed
<1> HIDE DEF row
<1>4. row \in SummaryRows
  BY <1>3 DEF Summed
<1>5. /\ RoundsOf(lines) = Spoke \cup {r \in {CLOSING_ROUND} : closing # <<>>}
      /\ \A r \in Spoke : r \in Nat /\ r # CLOSING_ROUND
  BY <1>1, SpokenRounds
<1>6. row.messages = [s \in Sides |-> Cardinality(By(transcript, s)) + Cardinality(By(closing, s))]
  <2>1. \A s \in Sides : row.messages[s] = Cardinality(By(transcript, s)) + Cardinality(By(closing, s))
    BY <1>1, <1>3, MessagesCounted DEF Summed
  <2>2. row.messages \in [Sides -> Nat]
    BY <1>4 DEF SummaryRows
  <2> QED
    BY <2>1, <2>2
<1>7. /\ \A p : p \in MessageLines(lines) <=> p \in 1 .. n /\ IsMessage(lines[p])
      /\ CLOSING_ROUND = 0
  BY <1>2 DEF MessageLines, CLOSING_ROUND
<1>8. row.rounds \in Spoke \cup {0}
  <2>1. CASE row.rounds # 0
    <3>1. PICK p \in 1 .. n : IsMessage(lines[p]) /\ row.rounds = RoundOf(lines[p])
      BY <1>3, <2>1 DEF Summed
    <3>2. row.rounds \in RoundsOf(lines)
      BY <1>7, <3>1 DEF RoundsOf
    <3> QED
      BY <1>5, <1>7, <2>1, <3>2
  <2> QED
    BY <2>1
<1>9. \A r \in Spoke : r <= row.rounds
  <2> TAKE r \in Spoke
  <2>1. r \in RoundsOf(lines)
    BY <1>5
  <2>2. PICK p \in MessageLines(lines) : r = RoundOf(lines[p])
    BY <2>1 DEF RoundsOf
  <2> QED
    BY <1>3, <1>7, <2>2 DEF Summed
<1>10. row.judged = (verdict # {}) /\ row.topic = (setup # <<>>)
  <2>1. row.judged \in BOOLEAN /\ row.topic \in BOOLEAN
    BY <1>4 DEF SummaryRows
  <2>2. (row.judged <=> verdict # {}) /\ (row.topic <=> setup # <<>>)
    BY <1>1, <1>3 DEF Summed, LinesTell
  <2> QED
    BY <2>1, <2>2
<1>11. /\ DOMAIN metrics = RoundsOf(lines)
       /\ \A r \in DOMAIN metrics, s \in Sides :
             metrics[r][s] = Cardinality(IF r = CLOSING_ROUND THEN By(closing, s)
                                                              ELSE ByIn(transcript, s, r))
  BY <1>1, RoundsCounted
<1>12. (AggregateRuns(lines) = {row}) = (setup # <<>> \/ verdict # {})
  <2>1. IsDebateRun(lines) <=> setup # <<>> \/ verdict # {}
    BY <1>1, <1>2 DEF IsDebateRun, LinesTell
  <2>2. AggregateRuns(lines) = {row} <=> IsDebateRun(lines)
    <3>1. {row} # {}
      OBVIOUS
    <3> QED
      BY <3>1 DEF AggregateRuns, row
  <2> QED
    BY <2>1, <2>2
<1> HIDE DEF metrics
<1> QED
  BY <1>5, <1>6, <1>8, <1>9, <1>10, <1>11, <1>12 DEF lines, row, metrics

\* For any number of rounds and wherever a run stops, with its set-up logged or
\* not: the row of its dataset and its rounds are what its result has
\* (_parse.py:38-118, analysis.py:106-157).
THEOREM DatasetSafe == Spec => []DatasetTellsTheRun
<1>1. IInv /\ JInv /\ ClosingsDiffer /\ StreamInStep => DatasetTellsTheRun
  BY DatasetHolds
<1>2. IInv /\ RunInTurn /\ ClosingsDiffer /\ [Next]_vars => ClosingsDiffer'
  BY ClosingsKept
<1> QED
  BY <1>1, <1>2, Invariance, RInit, NextRebuts, JInit, NextJudged, StreamStarts, StreamKept,
     ClosingsStart, PTL DEF Spec

\* The corrections are the exception, in every run: a nudge event is the
\* controller's and does not say which side it is about under the name _on_nudge
\* asks for, so that no correction is ever counted (_parse.py:138-144).
NoCorrectionCounted ==
  \A setup \in SetupEvents, s \in Sides : ParseRun(setup \o logged).nudges[s] = 0

THEOREM CorrectionsUncounted == Spec => []NoCorrectionCounted
<1>1. ASSUME IInv, StreamInStep PROVE NoCorrectionCounted
  <2> SUFFICES ASSUME NEW setup \in SetupEvents, NEW s \in Sides
               PROVE  ParseRun(setup \o logged).nudges[s] = 0
    BY DEF NoCorrectionCounted
  <2> DEFINE lines == setup \o logged
             n == Len(lines)
  <2>1. LinesTell(lines, n, setup)
    BY <1>1, LogTells
  <2> HIDE DEF lines, n
  <2>2. Summed(lines, n, ParseRun(lines))
    BY <2>1, RunSummed DEF LinesTell
  <2> QED
    BY <2>2 DEF Summed, lines
<1> QED
  BY <1>1, Invariance, RInit, NextRebuts, JInit, NextJudged, StreamStarts, StreamKept, PTL DEF Spec

-----------------------------------------------------------------------------
(* A run runs out.  Whether its steps come is a matter of fairness; how    *)
(* many there are to come is not.                                          *)

TurnsLeft == 2 * Rounds - AnsweredAt(side, round)

StepsLeft ==
  CASE stage = "turn"    -> 3 * TurnsLeft + 4
    [] stage = "drift"   -> 3 * TurnsLeft + 3
    [] stage = "forward" -> 3 * TurnsLeft + 2
    [] stage = "closing" -> IF side = Pro THEN 3 ELSE 2
    [] stage = "judge"   -> 1
    [] OTHER             -> 0

LEMMA TurnsLeftOver ==
  ASSUME NEW s \in Sides, NEW r \in 1 .. Rounds
  PROVE  /\ AnsweredAt(s, r) \in Nat /\ 2 * Rounds - AnsweredAt(s, r) \in Nat
         /\ 2 * Rounds - AnsweredAt(s, r) >= 1
         /\ s = Pro => AnsweredAt(Con, r) = AnsweredAt(s, r) + 1
         /\ s = Con /\ r # Rounds => r + 1 \in 1 .. Rounds /\ AnsweredAt(Pro, r + 1) = AnsweredAt(s, r) + 1
  BY DebateLoopAssumption, SidesTwo DEF AnsweredAt, Sides

LEMMA StepsLeftTyped == TypeOK => StepsLeft \in Nat
<1> SUFFICES ASSUME TypeOK PROVE StepsLeft \in Nat
  OBVIOUS
<1>1. TurnsLeft \in Nat
  BY TurnsLeftOver DEF TypeOK, TurnsLeft
<1> HIDE DEF TurnsLeft
<1> QED
  BY <1>1 DEF TypeOK, StepsLeft

LEMMA StepsRunOut == ASSUME TypeOK, TypeOK', Next PROVE UNCHANGED vars \/ StepsLeft' < StepsLeft
<1>1. TurnsLeft \in Nat /\ side \in Sides /\ round \in 1 .. Rounds /\ TurnsLeft >= 1
  BY TurnsLeftOver DEF TypeOK, TurnsLeft
<1>2. UNCHANGED <<side, round>> => TurnsLeft' = TurnsLeft
  BY DEF TurnsLeft, AnsweredAt
<1>3. CASE Argue \/ FailArgument \/ LoseArgument
  <2>1. stage = "turn" /\ stage' \in {"drift", "crashed"} /\ UNCHANGED <<side, round>>
    BY <1>3 DEF Argue, FailArgument, LoseArgument
  <2> HIDE DEF TurnsLeft
  <2> QED
    BY <1>1, <1>2, <2>1 DEF StepsLeft
<1>4. CASE DriftCheck \/ DriftRefused
  <2>1. stage = "drift" /\ stage' \in {"forward", "crashed"} /\ UNCHANGED <<side, round>>
    BY <1>4 DEF DriftCheck, DriftRefused
  <2> HIDE DEF TurnsLeft
  <2> QED
    BY <1>1, <1>2, <2>1 DEF StepsLeft
<1>5. CASE Forward
  <2>1. /\ stage = "forward" /\ side' = Opponent(side)
        /\ stage' = IF LastTurn THEN "closing" ELSE "turn"
        /\ round' = IF side = Con /\ ~LastTurn THEN round + 1 ELSE round
    BY <1>5 DEF Forward
  <2>2. CASE LastTurn
    <3>1. StepsLeft' \in {2, 3}
      BY <2>1, <2>2 DEF StepsLeft
    <3>2. StepsLeft = 3 * TurnsLeft + 2
      BY <2>1 DEF StepsLeft
    <3> HIDE DEF TurnsLeft
    <3> QED
      BY <1>1, <3>1, <3>2
  <2>3. CASE ~LastTurn
    <3>1. AnsweredAt(side', round') = AnsweredAt(side, round) + 1
      <4>1. CASE side = Pro
        BY <1>1, <2>1, <2>3, <4>1, TurnsLeftOver, SidesTwo DEF Opponent
      <4>2. CASE side = Con
        BY <1>1, <2>1, <2>3, <4>2, TurnsLeftOver, SidesTwo DEF Opponent, LastTurn
      <4> QED
        BY <1>1, <4>1, <4>2 DEF Sides
    <3>2. TurnsLeft' = TurnsLeft - 1
      BY <1>1, <3>1, TurnsLeftOver, DebateLoopAssumption DEF TurnsLeft
    <3>3. stage' = "turn"
      BY <2>1, <2>3
    <3> HIDE DEF TurnsLeft
    <3> QED
      BY <1>1, <2>1, <3>2, <3>3 DEF StepsLeft
  <2> QED
    BY <2>2, <2>3
<1>6. CASE Close \/ FailClosing \/ LoseClosing
  <2>1. /\ stage = "closing"
        /\ \/ stage' = "crashed"
           \/ stage' = (IF side = Con THEN "judge" ELSE "closing") /\ side' = Opponent(side)
    BY <1>6 DEF Close, FailClosing, LoseClosing, AfterClosing
  <2> QED
    BY <1>1, <2>1, SidesTwo DEF StepsLeft, Opponent, Sides
<1>7. CASE Judge \/ JudgeRefused
  <2>1. stage = "judge" /\ stage' \in {"done", "crashed"}
    BY <1>7 DEF Judge, JudgeRefused
  <2> QED
    BY <2>1 DEF StepsLeft
<1>8. CASE Over
  BY <1>8 DEF Over
<1> QED
  BY <1>3, <1>4, <1>5, <1>6, <1>7, <1>8 DEF Next

\* Every step of a run is one of at most 6 * rounds + 4 it can take: a run that
\* goes on comes to its end, whatever its calls come back with
\* (loop.py:102-148).
DebateRunsOut ==
  /\ [](StepsLeft \in 0 .. (6 * Rounds + 4))
  /\ [][StepsLeft' < StepsLeft]_vars

THEOREM DebateEnds == Spec => DebateRunsOut
<1>1. TypeOK => StepsLeft \in 0 .. (6 * Rounds + 4)
  <2> SUFFICES ASSUME TypeOK PROVE StepsLeft \in 0 .. (6 * Rounds + 4)
    OBVIOUS
  <2>1. TurnsLeft \in Nat /\ TurnsLeft <= 2 * Rounds
    BY TurnsLeftOver, DebateLoopAssumption DEF TypeOK, TurnsLeft
  <2>2. StepsLeft \in Nat
    BY StepsLeftTyped
  <2> HIDE DEF TurnsLeft
  <2>3. StepsLeft <= 3 * TurnsLeft + 4
    BY <2>1 DEF TypeOK, StepsLeft
  <2> QED
    BY <2>1, <2>2, <2>3, DebateLoopAssumption
<1>2. TypeOK /\ TypeOK' /\ [Next]_vars => [StepsLeft' < StepsLeft]_vars
  BY StepsRunOut
<1> QED
  BY <1>1, <1>2, TypeCorrect, PTL DEF Spec, DebateRunsOut
=============================================================================
