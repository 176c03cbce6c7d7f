----------------------------- MODULE BrowserPage -----------------------------
(***************************************************************************)
(* The browser page (ui/static/app.js): the topic form, the POST that      *)
(* starts a debate, the EventSource of each debate started, the verdict's  *)
(* GET and the New debate button.  The page's callbacks run one at a time, *)
(* in whatever order the user and the network bring them: nothing stops a  *)
(* user from starting or resetting while a POST, a stream or a GET of an   *)
(* earlier debate is open, and nothing closes that stream.                 *)
(*                                                                         *)
(* Debates are numbered as they are submitted.  The text of an event is    *)
(* left out: an entry of a panel is the debate and the number of its event. *)
(***************************************************************************)
EXTENDS Integers, Sequences, FiniteSets

CONSTANTS
  MaxRuns,   \* bound: debates submitted
  LastEvent  \* bound: events of a debate

ASSUME BrowserPageAssumption == MaxRuns \in Nat /\ LastEvent \in Nat

Runs == 1 .. MaxRuns
None == 0

Kinds == {"message", "nudge", "system", "verdict"}

\* addEventListener: no listener is there for "verdict".
PanelOf == [message |-> "transcript", nudge |-> "controller", system |-> "system log",
            verdict |-> "nowhere"]
Panels == {"transcript", "controller", "system log"}

VARIABLES
  topic,           \* the input holds a topic
  start_disabled,  \* the Start button
  reset_hidden,    \* the New debate button
  status,          \* the status line
  result,          \* the output under it: "", "news" or, styled as one, an "error"
  panels_hidden,
  panels,          \* panel -> its entries
  verdict,         \* the debate whose verdict is shown, None when hidden
  winner,          \* what it names there: "side", "dash" or, hidden, ""
  submitted,       \* debates submitted
  posts,           \* debates whose POST is under way
  source,          \* debate -> its EventSource: "none", "open" or "closed"
  finished,        \* debate -> its done event has come
  fate,            \* debate -> the status it ended with, "unknown" before that
  feed,            \* debate -> the kinds of the events that have come
  fetching,        \* debates whose verdict is being fetched
  waited           \* history: the user never acted while a debate was under way

formVars == <<topic, start_disabled, reset_hidden>>
viewVars == <<status, result, panels_hidden, panels, verdict, winner>>
runVars == <<submitted, posts, source, finished, fate, feed, fetching>>
vars == <<formVars, viewVars, runVars, waited>>

-----------------------------------------------------------------------------
Open == {k \in Runs : source[k] = "open"}
Busy == posts # {} \/ Open # {} \/ fetching # {}

Empty == [p \in Panels |-> <<>>]

\* Mutant: the button is left as it is.
ButtonLeft == start_disabled

\* syncStartEnabled
Synced == ~topic

(* The user. *)

Type ==
  /\ \E filled \in BOOLEAN : topic' = filled /\ start_disabled' = ~filled
  /\ UNCHANGED <<reset_hidden, viewVars, runVars, waited>>

Acts == waited' = (waited /\ ~Busy)

\* resetDebate() empties the input without an input event, so that the button
\* may be enabled with no topic there.
SubmitNothing ==
  /\ ~start_disabled /\ ~topic
  /\ result' = "error"
  /\ UNCHANGED <<formVars, status, panels_hidden, panels, verdict, winner, runVars, waited>>

Submit ==
  /\ ~start_disabled /\ topic /\ submitted < MaxRuns
  /\ submitted' = submitted + 1
  /\ posts' = posts \cup {submitted + 1}
  /\ start_disabled' = TRUE /\ reset_hidden' = FALSE
  /\ status' = "connecting" /\ result' = "news"
  /\ Acts
  /\ UNCHANGED <<topic, panels_hidden, panels, verdict, winner,
                 source, finished, fate, feed, fetching>>

\* resetDebate(): the EventSource of a debate under way stays open.
Reset ==
  /\ ~reset_hidden
  /\ panels' = Empty /\ panels_hidden' = TRUE /\ verdict' = None /\ winner' = ""
  /\ status' = "idle" /\ result' = ""
  /\ reset_hidden' = TRUE /\ topic' = FALSE
  /\ Acts
  /\ UNCHANGED <<start_disabled, runVars>>

-----------------------------------------------------------------------------
(* The answer to the POST. *)

\* Mutant: the panels are not cleared for a new debate.
PanelsLeft == panels

PanelsCleared == Empty

\* streamTranscript(), and the finally clause of the submit handler.
PostAnswered(k) ==
  /\ k \in posts
  /\ posts' = posts \ {k}
  /\ source' = [source EXCEPT ![k] = "open"]
  /\ panels_hidden' = FALSE /\ panels' = PanelsCleared
  /\ verdict' = None /\ winner' = ""
  /\ status' = "connecting" /\ result' = "news"
  /\ start_disabled' = Synced
  /\ UNCHANGED <<topic, reset_hidden, submitted, finished, fate, feed, fetching, waited>>

\* Mutant: the catch clause leaves the status line alone.
StatusLeft == status

StatusOfFailure == "error"

PostFails(k) ==
  /\ k \in posts
  /\ posts' = posts \ {k}
  /\ status' = StatusOfFailure /\ result' = "error"
  /\ start_disabled' = Synced
  /\ UNCHANGED <<topic, reset_hidden, panels_hidden, panels, verdict, winner,
                 submitted, source, finished, fate, feed, fetching, waited>>

-----------------------------------------------------------------------------
(* The listeners of streamTranscript(k). *)

Receive(k, kind) ==
  /\ source[k] = "open" /\ Len(feed[k]) < LastEvent
  /\ feed' = [feed EXCEPT ![k] = Append(@, kind)]
  /\ panels' = [p \in Panels |->
                  IF PanelOf[kind] = p THEN Append(panels[p], <<k, Len(feed[k]) + 1>>)
                  ELSE panels[p]]
  /\ status' = IF kind = "message" THEN "debating" ELSE status
  /\ UNCHANGED <<formVars, result, panels_hidden, verdict, winner,
                 submitted, posts, source, finished, fate, fetching, waited>>

Closed == "closed"

Endings == {"done", "failed"}

\* The done record carries the status the debate ended with: nobody reads it.
Done(k) ==
  /\ source[k] = "open"
  /\ \E ending \in Endings : fate' = [fate EXCEPT ![k] = ending]
  /\ finished' = [finished EXCEPT ![k] = TRUE]
  /\ source' = [source EXCEPT ![k] = Closed]
  /\ status' = "complete"
  /\ fetching' = fetching \cup {k}
  /\ UNCHANGED <<formVars, result, panels_hidden, panels, verdict, winner,
                 submitted, posts, feed, waited>>

\* Mutant: a lost stream is closed silently.
LostSilently(k) ==
  /\ source[k] = "open"
  /\ source' = [source EXCEPT ![k] = "closed"]
  /\ UNCHANGED <<formVars, viewVars, submitted, posts, finished, fate, feed, fetching, waited>>

\* The connection drops: it is closed for good, there is no second attempt.
Lost(k) ==
  /\ source[k] = "open"
  /\ source' = [source EXCEPT ![k] = "closed"]
  /\ IF finished[k] THEN UNCHANGED <<status, result>>
     ELSE status' = "error" /\ result' = "error"
  /\ UNCHANGED <<formVars, panels_hidden, panels, verdict, winner,
                 submitted, posts, finished, fate, feed, fetching, waited>>

\* A failed debate has no result, hence no winner.
winnerLabel(k) == IF fate[k] = "done" THEN "side" ELSE "dash"

\* showVerdict(k): whatever is on the page by then.
VerdictArrives(k) ==
  /\ k \in fetching
  /\ fetching' = fetching \ {k}
  /\ verdict' = k /\ winner' = winnerLabel(k)
  /\ UNCHANGED <<formVars, status, result, panels_hidden, panels,
                 submitted, posts, source, finished, fate, feed, waited>>

VerdictFails(k) ==
  /\ k \in fetching
  /\ fetching' = fetching \ {k}
  /\ UNCHANGED <<formVars, viewVars, submitted, posts, source, finished, fate, feed, waited>>

-----------------------------------------------------------------------------
Init ==
  /\ topic = FALSE /\ start_disabled = TRUE /\ reset_hidden = TRUE
  /\ status = "idle" /\ result = ""
  /\ panels_hidden = TRUE /\ panels = Empty /\ verdict = None /\ winner = ""
  /\ submitted = 0 /\ posts = {} /\ fetching = {}
  /\ source = [k \in Runs |-> "none"]
  /\ finished = [k \in Runs |-> FALSE]
  /\ fate = [k \in Runs |-> "unknown"]
  /\ feed = [k \in Runs |-> <<>>]
  /\ waited = TRUE

User == Type \/ SubmitNothing \/ Submit \/ Reset

Network ==
  \E k \in Runs :
    \/ PostAnswered(k) \/ PostFails(k)
    \/ (\E kind \in Kinds : Receive(k, kind)) \/ Done(k) \/ Lost(k)
    \/ VerdictArrives(k) \/ VerdictFails(k)

Next == User \/ Network

\* Every request is answered or fails and every stream ends or drops (a run
\* and its readers come to an end, see DebateApi); the user owes nothing.
Spec == Init /\ [][Next]_vars /\ WF_vars(Network)

-----------------------------------------------------------------------------
Live == {"connecting", "debating"}

\* Every variable has its type, and a debate that is done has no stream left.
TypeOK ==
  /\ topic \in BOOLEAN /\ start_disabled \in BOOLEAN /\ reset_hidden \in BOOLEAN
  /\ status \in Live \cup {"idle", "complete", "error"}
  /\ result \in {"", "news", "error"}
  /\ panels_hidden \in BOOLEAN /\ panels \in [Panels -> Seq(Runs \X (1 .. LastEvent))]
  /\ verdict \in Runs \cup {None} /\ winner \in {"", "side", "dash"} /\ submitted \in 0 .. MaxRuns
  /\ posts \subseteq Runs /\ fetching \subseteq Runs
  /\ source \in [Runs -> {"none", "open", "closed"}]
  /\ finished \in [Runs -> BOOLEAN] /\ fate \in [Runs -> Endings \cup {"unknown"}]
  /\ feed \in [Runs -> Seq(Kinds)]
  /\ waited \in BOOLEAN
  /\ \A k \in Runs : finished[k] => source[k] = "closed"

\* The live dot never pulses over nothing: while the page says Connecting or
\* Debating, a POST or a stream is open, however many debates were started
\* and reset on top of each other (app.js:67-84, 298-316).
LiveMeansLive == status \in Live => posts # {} \/ Open # {}

\* Whatever the user did and whatever failed: with a topic typed, Start is
\* disabled only over a debate under way, whose end enables it (app.js:361-393).
\* The code is quicker: the answer to the POST enables it, though docs/UI.md:78-79
\* and ui/tests/test_ui_usability.py:11 have it disabled while a debate runs.
NeverTrapped == start_disabled => ~topic \/ posts # {} \/ Open # {}

\* The status line and the button tell what is under way (the two above).
PageIsHonest == LiveMeansLive /\ NeverTrapped

\* The debates that have a stream; the last of them is the one on the page.
Streamed == {k \in Runs : source[k] # "none"}
OnPage == CHOOSE k \in Streamed : \A j \in Streamed : j <= k

\* A panel lists the events of debate k that belong in it, in their order.
Lists(entries, k, kinds, p) ==
  /\ {entries[i] : i \in DOMAIN entries} =
       {<<k, n>> : n \in {m \in DOMAIN kinds : PanelOf[kinds[m]] = p}}
  /\ \A i, j \in DOMAIN entries : i < j => entries[i][2] < entries[j][2]

PanelsExact ==
  ~panels_hidden => \A p \in Panels : Lists(panels[p], OnPage, feed[OnPage], p)

\* Complete says that the stream was brought to its end, not that the debate was:
\* a failed one is Complete as well (app.js:298-303).
StatusOfTheStream ==
  /\ posts # {} => status = "connecting"
  /\ posts = {} /\ Open # {} =>
       status = (IF \E i \in DOMAIN feed[OnPage] : feed[OnPage][i] = "message"
                   THEN "debating" ELSE "connecting")
  /\ status = "complete" => finished[submitted]
  /\ status = "error" => ~finished[submitted]

VerdictOfThePage ==
  verdict # None =>
    /\ verdict = OnPage /\ finished[verdict]
    /\ winner = "dash" <=> fate[verdict] = "failed"

ResetAtHand == ~panels_hidden \/ verdict # None => ~reset_hidden

\* A user who lets each debate come to its end before starting or resetting
\* sees that debate: its events, each in its panel, in order, none missing or
\* of another debate; whether its stream is starting, under way, at its end or
\* lost; the verdict view of that debate; and the way out.  That the debate failed
\* is seen only there, by "Winner: -" (app.js:190-191, 248), although docs/UI.md:111
\* calls the status line always honest.
PatientUserSeesTheRun ==
  waited => PanelsExact /\ StatusOfTheStream /\ VerdictOfThePage /\ ResetAtHand

\* The page never stays Connecting or Debating: the last word is Complete,
\* Error or the user's reset.
LiveEnds == status \in Live ~> status \notin Live
=============================================================================
