-------------------------- MODULE BrowserPageProofs --------------------------
(***************************************************************************)
(* For any number of debates and events: the page's types, that its status *)
(* line and its Start button tell what is under way, and that a user who   *)
(* waits for the end of a debate sees that debate and no other.            *)
(*                                                                         *)
(* The argument: every callback that ends a request or a stream also sets  *)
(* the status line, but for an error on a stream that was done, and a done *)
(* stream is closed, so that no error comes from it.  A user who waits has *)
(* one debate under way at a time, so that no callback is of another one.  *)
(***************************************************************************)
EXTENDS BrowserPage, TLAPS

\* A debate has no stream before its POST is answered.
PostsComeFirst ==
  \A k \in Runs :
    /\ k \in posts \/ k > submitted => source[k] = "none" /\ ~finished[k]
    /\ k \in posts => k <= submitted

\* Stronger than what a user needs of it: the answer to the POST is enough.
StartReenabled == start_disabled => ~topic \/ posts # {}

IInv == TypeOK /\ LiveMeansLive /\ StartReenabled /\ PostsComeFirst

Entries == Runs \X (1 .. LastEvent)

LEMMA EmptyView == Empty \in [Panels -> Seq(Entries)]
<1>1. <<>> \in Seq(Entries)
  OBVIOUS
<1> QED
  BY <1>1 DEF Empty

LEMMA Types ==
  ASSUME IInv
  PROVE  /\ submitted \in 0 .. MaxRuns /\ MaxRuns \in Nat /\ LastEvent \in Nat
         /\ panels \in [Panels -> Seq(Entries)] /\ feed \in [Runs -> Seq(Kinds)]
         /\ source \in [Runs -> {"none", "open", "closed"}]
         /\ \A k \in Runs : finished[k] => source[k] = "closed"
         /\ finished \in [Runs -> BOOLEAN] /\ PostsComeFirst
         /\ fate \in [Runs -> Endings \cup {"unknown"}]
  BY BrowserPageAssumption DEF IInv, TypeOK, Entries

LEMMA TypeKeeps == ASSUME IInv, Type PROVE IInv'
<1>1. PICK filled \in BOOLEAN : topic' = filled /\ start_disabled' = ~filled
  BY DEF Type
<1>2. TypeOK'
  BY <1>1 DEF Type, IInv, TypeOK, Open, viewVars, runVars
<1>3. LiveMeansLive'
  BY DEF Type, IInv, LiveMeansLive, Open, Live, viewVars, runVars
<1>4. StartReenabled'
  BY <1>1 DEF StartReenabled
<1>5. PostsComeFirst'
  BY Types DEF Type, runVars, PostsComeFirst
<1> QED
  BY <1>2, <1>3, <1>4, <1>5 DEF IInv

LEMMA SubmitNothingKeeps == ASSUME IInv, SubmitNothing PROVE IInv'
<1>1. TypeOK'
  BY DEF SubmitNothing, IInv, TypeOK, formVars, runVars
<1>2. LiveMeansLive'
  BY DEF SubmitNothing, IInv, LiveMeansLive, Open, runVars
<1>3. StartReenabled'
  BY DEF SubmitNothing, IInv, StartReenabled, formVars, runVars
<1>4. PostsComeFirst'
  BY Types DEF SubmitNothing, runVars, PostsComeFirst
<1> QED
  BY <1>1, <1>2, <1>3, <1>4 DEF IInv

LEMMA SubmitKeeps == ASSUME IInv, Submit PROVE IInv'
<1>1. waited' \in BOOLEAN
  BY DEF Submit, Acts, IInv, TypeOK
<1>2. submitted + 1 \in Runs /\ submitted' \in 0 .. MaxRuns
  BY Types DEF Submit, Runs
<1>3. TypeOK'
  BY <1>1, <1>2 DEF Submit, IInv, TypeOK, Live
<1>4. LiveMeansLive'
  BY <1>2 DEF Submit, LiveMeansLive
<1>5. StartReenabled'
  BY <1>2 DEF Submit, StartReenabled
<1>6. PostsComeFirst'
  <2>1. ASSUME NEW k \in Runs, k \in posts' \/ k > submitted'
        PROVE  /\ k \in posts \/ k > submitted
               /\ k \in posts' => k <= submitted'
    BY <2>1, <1>2, Types DEF Submit, PostsComeFirst, Runs
  <2> QED
    BY <2>1, <1>2, Types DEF Submit, PostsComeFirst
<1> QED
  BY <1>3, <1>4, <1>5, <1>6 DEF IInv

LEMMA ResetKeeps == ASSUME IInv, Reset PROVE IInv'
<1>1. waited' \in BOOLEAN
  BY DEF Reset, Acts, IInv, TypeOK
<1>2. panels' \in [Panels -> Seq(Runs \X (1 .. LastEvent))]
  BY EmptyView DEF Reset, Entries
<1>3. TypeOK'
  BY <1>1, <1>2 DEF Reset, IInv, TypeOK, runVars
<1>4. LiveMeansLive'
  BY DEF Reset, LiveMeansLive, Live
<1>5. StartReenabled'
  BY DEF Reset, StartReenabled
<1>6. PostsComeFirst'
  BY Types DEF Reset, runVars, PostsComeFirst
<1> QED
  BY <1>3, <1>4, <1>5, <1>6 DEF IInv

LEMMA PostAnsweredKeeps == ASSUME IInv, NEW k \in Runs, PostAnswered(k) PROVE IInv'
<1>1. start_disabled' \in BOOLEAN
  BY DEF PostAnswered, Synced
<1>2. panels' \in [Panels -> Seq(Runs \X (1 .. LastEvent))]
  BY EmptyView DEF PostAnswered, PanelsCleared, Entries
<1>3. source' \in [Runs -> {"none", "open", "closed"}]
  BY Types DEF PostAnswered
<1>4. \A j \in Runs : finished'[j] => source'[j] = "closed"
  BY Types DEF PostAnswered, PostsComeFirst
<1>5. TypeOK'
  BY <1>1, <1>2, <1>3, <1>4 DEF PostAnswered, IInv, TypeOK, Live, None
<1>6. LiveMeansLive'
  BY DEF PostAnswered, IInv, TypeOK, LiveMeansLive, Open
<1>7. StartReenabled'
  BY DEF PostAnswered, Synced, StartReenabled
<1>8. PostsComeFirst'
  <2>1. /\ UNCHANGED <<submitted, finished>> /\ k \in posts /\ posts' = posts \ {k}
        /\ \A j \in Runs \ {k} : source'[j] = source[j]
    BY Types DEF PostAnswered
  <2>2. k <= submitted /\ submitted \in Nat
    BY <2>1, Types DEF PostsComeFirst
  <2> QED
    BY <2>1, <2>2, Types DEF PostsComeFirst, Runs
<1> QED
  BY <1>5, <1>6, <1>7, <1>8 DEF IInv

LEMMA PostFailsKeeps == ASSUME IInv, NEW k \in Runs, PostFails(k) PROVE IInv'
<1>1. TypeOK'
  BY DEF PostFails, StatusOfFailure, Synced, IInv, TypeOK, Live
<1>2. LiveMeansLive'
  BY DEF PostFails, StatusOfFailure, Synced, IInv, TypeOK, LiveMeansLive,
     Open, Live
<1>3. StartReenabled'
  BY DEF PostFails, Synced, IInv, StartReenabled
<1>4. PostsComeFirst'
  BY Types DEF PostFails, PostsComeFirst
<1> QED
  BY <1>1, <1>2, <1>3, <1>4 DEF IInv

LEMMA ReceiveKeeps ==
  ASSUME IInv, NEW k \in Runs, NEW kind \in Kinds, Receive(k, kind) PROVE IInv'
<1>1. Len(feed[k]) + 1 \in 1 .. LastEvent /\ feed[k] \in Seq(Kinds)
  <2>1. feed[k] \in Seq(Kinds) /\ Len(feed[k]) < LastEvent
    BY Types DEF Receive
  <2>2. Len(feed[k]) \in Nat
    BY <2>1
  <2> QED
    BY <2>1, <2>2, Types
<1>2. feed' \in [Runs -> Seq(Kinds)]
  <2>1. Append(feed[k], kind) \in Seq(Kinds)
    BY <1>1
  <2> QED
    BY <2>1, Types DEF Receive
<1>3. panels' \in [Panels -> Seq(Runs \X (1 .. LastEvent))]
  <2> DEFINE e == <<k, Len(feed[k]) + 1>>
  <2>1. e \in Entries
    BY <1>1 DEF Entries
  <2>2. panels' = [p \in Panels |->
                     IF PanelOf[kind] = p THEN Append(panels[p], e) ELSE panels[p]]
    BY DEF Receive
  <2> HIDE DEF e
  <2>3. \A p \in Panels : Append(panels[p], e) \in Seq(Entries)
    BY <2>1, Types
  <2>4. panels' \in [Panels -> Seq(Entries)]
    BY <2>2, <2>3, Types
  <2> QED
    BY <2>4 DEF Entries
<1>4. TypeOK'
  BY <1>2, <1>3 DEF Receive, IInv, TypeOK, Live, formVars
<1>5. LiveMeansLive'
  BY DEF Receive, LiveMeansLive, Open
<1>6. StartReenabled'
  BY DEF Receive, IInv, StartReenabled, formVars
<1>7. PostsComeFirst'
  BY Types DEF Receive, PostsComeFirst
<1> QED
  BY <1>4, <1>5, <1>6, <1>7 DEF IInv

LEMMA DoneKeeps == ASSUME IInv, NEW k \in Runs, Done(k) PROVE IInv'
<1>1. TypeOK'
  BY DEF Done, Closed, Endings, IInv, TypeOK, Live, formVars
<1>2. LiveMeansLive'
  BY DEF Done, Closed, Endings, IInv, TypeOK, LiveMeansLive, Open, Live
<1>3. StartReenabled'
  BY DEF Done, IInv, StartReenabled, formVars
<1>4. PostsComeFirst'
  BY Types DEF Done, Closed, PostsComeFirst
<1> QED
  BY <1>1, <1>2, <1>3, <1>4 DEF IInv

LEMMA LostKeeps == ASSUME IInv, NEW k \in Runs, Lost(k) PROVE IInv'
<1>1. TypeOK'
  BY DEF Lost, IInv, TypeOK, Live, formVars
<1>2. LiveMeansLive'
  BY DEF Lost, IInv, TypeOK, LiveMeansLive, Open, Live
<1>3. StartReenabled'
  BY DEF Lost, IInv, StartReenabled, formVars
<1>4. PostsComeFirst'
  BY Types DEF Lost, PostsComeFirst
<1> QED
  BY <1>1, <1>2, <1>3, <1>4 DEF IInv

LEMMA VerdictArrivesKeeps == ASSUME IInv, NEW k \in Runs, VerdictArrives(k) PROVE IInv'
<1>1. TypeOK'
  BY DEF VerdictArrives, winnerLabel, IInv, TypeOK, formVars
<1>2. LiveMeansLive'
  BY DEF VerdictArrives, IInv, LiveMeansLive, Open
<1>3. StartReenabled'
  BY DEF VerdictArrives, IInv, StartReenabled, formVars
<1>4. PostsComeFirst'
  BY Types DEF VerdictArrives, PostsComeFirst
<1> QED
  BY <1>1, <1>2, <1>3, <1>4 DEF IInv

LEMMA VerdictFailsKeeps == ASSUME IInv, NEW k \in Runs, VerdictFails(k) PROVE IInv'
<1>1. TypeOK'
  BY DEF VerdictFails, IInv, TypeOK, formVars, viewVars
<1>2. LiveMeansLive'
  BY DEF VerdictFails, IInv, LiveMeansLive, Open, viewVars
<1>3. StartReenabled'
  BY DEF VerdictFails, IInv, StartReenabled, formVars
<1>4. PostsComeFirst'
  BY Types DEF VerdictFails, PostsComeFirst
<1> QED
  BY <1>1, <1>2, <1>3, <1>4 DEF IInv

-----------------------------------------------------------------------------
LEMMA InitEstablishes == Init => IInv
<1> SUFFICES ASSUME Init PROVE IInv
  OBVIOUS
<1>1. panels \in [Panels -> Seq(Runs \X (1 .. LastEvent))]
  BY EmptyView DEF Init, Entries
<1>2. topic \in BOOLEAN /\ start_disabled \in BOOLEAN /\ reset_hidden \in BOOLEAN
  BY DEF Init
<1>3. panels_hidden \in BOOLEAN /\ waited \in BOOLEAN
  BY DEF Init
<1>4. finished \in [Runs -> BOOLEAN] /\ \A k \in Runs : ~finished[k]
  BY DEF Init
<1>5. source \in [Runs -> {"none", "open", "closed"}] /\ feed \in [Runs -> Seq(Kinds)]
  <2>1. <<>> \in Seq(Kinds)
    OBVIOUS
  <2> QED
    BY <2>1 DEF Init
<1>6. TypeOK
  <2>1. /\ verdict \in Runs \cup {None} /\ submitted \in 0 .. MaxRuns
        /\ posts \subseteq Runs /\ fetching \subseteq Runs
    <3>1. verdict = None /\ submitted = 0 /\ posts = {} /\ fetching = {}
      BY Zenon DEF Init
    <3> QED
      BY <3>1, BrowserPageAssumption
  <2>2. /\ status \in Live \cup {"idle", "complete", "error"}
        /\ result \in {"", "news", "error"} /\ winner \in {"", "side", "dash"}
        /\ fate \in [Runs -> Endings \cup {"unknown"}]
    BY DEF Init
  <2> QED
    BY <1>1, <1>2, <1>3, <1>4, <1>5, <2>1, <2>2, Zenon DEF TypeOK
<1>7. LiveMeansLive /\ StartReenabled
  BY DEF Init, LiveMeansLive, StartReenabled, Live
<1>8. PostsComeFirst
  BY DEF Init, PostsComeFirst
<1> QED
  BY <1>6, <1>7, <1>8 DEF IInv

LEMMA NextKeeps == IInv /\ [Next]_vars => IInv'
<1> SUFFICES ASSUME IInv, [Next]_vars PROVE IInv'
  OBVIOUS
<1>1. CASE User
  BY <1>1, TypeKeeps, SubmitNothingKeeps, SubmitKeeps, ResetKeeps DEF User
<1>2. CASE Network
  BY <1>2, PostAnsweredKeeps, PostFailsKeeps, ReceiveKeeps, DoneKeeps, LostKeeps,
     VerdictArrivesKeeps, VerdictFailsKeeps DEF Network
<1>3. CASE UNCHANGED vars
  <2>1. UNCHANGED <<topic, start_disabled, reset_hidden, status, result, panels_hidden, panels,
                    verdict, winner, submitted, posts, source, finished, fate, feed, fetching, waited>>
    BY <1>3 DEF vars, formVars, viewVars, runVars
  <2>2. TypeOK'
    BY <2>1 DEF IInv, TypeOK
  <2>3. LiveMeansLive' /\ StartReenabled' /\ PostsComeFirst'
    BY <2>1 DEF IInv, LiveMeansLive, StartReenabled, Open, PostsComeFirst
  <2> QED
    BY <2>2, <2>3 DEF IInv
<1> QED
  BY <1>1, <1>2, <1>3 DEF Next

LEMMA Invariance == Spec => []IInv
  BY InitEstablishes, NextKeeps, PTL DEF Spec

\* The form, the view, the streams and the requests stay in their types, and a
\* debate that is done has no stream left (app.js:298-316).
THEOREM TypeCorrect == Spec => []TypeOK
  BY Invariance, PTL DEF IInv

\* The page says Connecting or Debating only over an open POST or stream, and
\* with a topic typed Start is disabled only over one (app.js:67-84, 361-393).
THEOREM PageSafe == Spec => []PageIsHonest
<1>1. IInv => PageIsHonest
  BY DEF IInv, StartReenabled, PageIsHonest, NeverTrapped
<1> QED
  BY <1>1, Invariance, PTL

-----------------------------------------------------------------------------
(* A patient user sees the run: while the user waits, one debate at most   *)
(* has a POST, a stream or a GET, the last one submitted, and it is the    *)
(* one on the page.                                                        *)

\* A user who waits has one debate under way, the last one, and the way out.
OneAtATime ==
  waited =>
    /\ posts \cup Open \cup fetching \subseteq {submitted}
    /\ posts # {} => Open = {} /\ fetching = {}
    /\ Busy => ~reset_hidden

\* Events come through a stream, a verdict is fetched when it is done, and the
\* panels are shown with the first stream.
FeedsAreOfStreams ==
  /\ \A k \in Runs : source[k] = "none" => feed[k] = <<>>
  /\ \A k \in fetching : finished[k]
  /\ \A k \in Runs : finished[k] => fate[k] \in Endings
  /\ ~panels_hidden => Streamed # {}

PInv == OneAtATime /\ FeedsAreOfStreams /\ PatientUserSeesTheRun

LEMMA Facts ==
  ASSUME IInv
  PROVE  /\ posts \subseteq Runs /\ fetching \subseteq Runs
         /\ \A k \in Runs : finished[k] => source[k] = "closed"
         /\ \A k \in Runs : k \in posts \/ k > submitted => source[k] = "none" /\ ~finished[k]
         /\ \A k \in Runs : finished[k] \in BOOLEAN
         /\ \A k \in posts : k <= submitted
         /\ \A k \in Streamed : k \in Runs /\ k <= submitted
         /\ submitted \in Nat /\ Runs \subseteq Nat
<1>1. submitted \in Nat /\ Runs \subseteq Nat
  BY Types DEF Runs
<1>2. posts \subseteq Runs /\ fetching \subseteq Runs
  BY DEF IInv, TypeOK
<1> QED
  BY <1>1, <1>2, Types DEF PostsComeFirst, Streamed

LEMMA LastOf ==
  ASSUME NEW S, S \subseteq Nat, NEW n \in S, \A j \in S : j <= n
  PROVE  (CHOOSE k \in S : \A j \in S : j <= k) = n
<1>1. \A k \in S : (\A j \in S : j <= k) => k = n
  OBVIOUS
<1> QED
  BY <1>1

\* The debate on the page is the last one that has a stream.
LEMMA LastIsOnPage ==
  ASSUME IInv, submitted \in Streamed
  PROVE  OnPage = submitted
<1>1. Streamed \subseteq Nat /\ \A j \in Streamed : j <= submitted
  BY Facts
<1> QED
  BY <1>1, LastOf DEF OnPage

LEMMA PageKept ==
  ASSUME Streamed' = Streamed
  PROVE  OnPage' = OnPage
  BY DEF OnPage

LEMMA NothingListed ==
  ASSUME NEW k, NEW p
  PROVE  Lists(<<>>, k, <<>>, p)
  BY DEF Lists

\* An event goes to the end of the panel it belongs in, and of no other.
LEMMA EventListed ==
  ASSUME NEW s \in Seq(Entries), NEW k \in Runs, NEW f \in Seq(Kinds), NEW kind \in Kinds,
         NEW p \in Panels, Lists(s, k, f, p)
  PROVE  Lists(IF PanelOf[kind] = p THEN Append(s, <<k, Len(f) + 1>>) ELSE s,
               k, Append(f, kind), p)
<1> DEFINE g == Append(f, kind)
           e == <<k, Len(f) + 1>>
           t == Append(s, e)
           Of(h) == {m \in DOMAIN h : PanelOf[h[m]] = p}
<1>1. /\ Len(f) \in Nat /\ DOMAIN f = 1 .. Len(f) /\ DOMAIN g = 1 .. Len(f) + 1
      /\ g[Len(f) + 1] = kind /\ \A m \in 1 .. Len(f) : g[m] = f[m]
  OBVIOUS
<1>2. /\ Len(s) \in Nat /\ DOMAIN s = 1 .. Len(s) /\ DOMAIN t = 1 .. Len(s) + 1
      /\ t[Len(s) + 1] = e /\ \A i \in 1 .. Len(s) : t[i] = s[i]
  OBVIOUS
<1> HIDE DEF g, t
<1>3. Of(g) = IF PanelOf[kind] = p THEN Of(f) \cup {Len(f) + 1} ELSE Of(f)
  BY <1>1
<1>4. {s[i] : i \in DOMAIN s} = {<<k, n>> : n \in Of(f)}
      /\ \A i, j \in DOMAIN s : i < j => s[i][2] < s[j][2]
  BY DEF Lists
<1>5. {<<k, n>> : n \in Of(g)} =
        IF PanelOf[kind] = p THEN {<<k, n>> : n \in Of(f)} \cup {e} ELSE {<<k, n>> : n \in Of(f)}
  BY <1>3
<1>6. CASE PanelOf[kind] # p
  BY <1>4, <1>5, <1>6 DEF Lists, g
<1>7. CASE PanelOf[kind] = p
  <2>1. {t[i] : i \in DOMAIN t} = {s[i] : i \in DOMAIN s} \cup {e}
    <3>1. DOMAIN t = DOMAIN s \cup {Len(s) + 1} /\ \A i \in DOMAIN s : t[i] = s[i]
      BY <1>2
    <3> HIDE DEF e
    <3> QED
      BY <1>2, <3>1
  <2>2. {t[i] : i \in DOMAIN t} = {<<k, n>> : n \in Of(g)}
    BY <1>4, <1>5, <1>7, <2>1
  <2>3. \A i \in DOMAIN s : s[i][2] \in 1 .. Len(f)
    <3>1. ASSUME NEW i \in DOMAIN s PROVE s[i][2] \in 1 .. Len(f)
      <4>1. PICK n \in Of(f) : s[i] = <<k, n>>
        BY <1>4
      <4> QED
        BY <4>1, <1>1
    <3> QED
      BY <3>1
  <2>4. ASSUME NEW i \in DOMAIN t, NEW j \in DOMAIN t, i < j PROVE t[i][2] < t[j][2]
    <3>1. CASE j \in DOMAIN s
      BY <1>2, <1>4, <2>4, <3>1
    <3>2. CASE j = Len(s) + 1
      BY <1>1, <1>2, <2>3, <2>4, <3>2
    <3> QED
      BY <1>2, <3>1, <3>2
  <2> QED
    BY <1>7, <2>2, <2>4 DEF Lists, g, t
<1> QED
  BY <1>6, <1>7

LEMMA PInit == Init => PInv
<1> SUFFICES ASSUME Init PROVE PInv
  OBVIOUS
<1>1. Open = {} /\ ~Busy /\ posts = {} /\ fetching = {}
  BY DEF Init, Open, Busy
<1>2. panels_hidden /\ verdict = None /\ status = "idle"
  BY DEF Init
<1>3. \A k \in Runs : feed[k] = <<>> /\ ~finished[k]
  BY DEF Init
<1> QED
  BY <1>1, <1>2, <1>3
  DEF PInv, OneAtATime, FeedsAreOfStreams, PatientUserSeesTheRun, PanelsExact, StatusOfTheStream,
      VerdictOfThePage, ResetAtHand

\* Steps that leave the streams and their events alone keep the panels exact.
LEMMA PanelsKept ==
  ASSUME UNCHANGED <<panels_hidden, panels, feed>>, Streamed' = Streamed, PanelsExact
  PROVE  PanelsExact'
<1>1. OnPage' = OnPage
  BY PageKept
<1> QED
  BY <1>1 DEF PanelsExact, Lists

LEMMA UserPatient ==
  ASSUME IInv, PInv, Type \/ SubmitNothing \/ UNCHANGED vars
  PROVE  PInv'
<1>1. /\ UNCHANGED <<status, panels_hidden, panels, verdict, winner, submitted, posts, source, finished, fate,
                     feed, fetching, waited, reset_hidden>>
  BY DEF Type, SubmitNothing, vars, formVars, viewVars, runVars
<1>2. Open' = Open /\ Streamed' = Streamed /\ Busy' = Busy
  BY <1>1 DEF Open, Streamed, Busy
<1>3. OnPage' = OnPage
  BY <1>2, PageKept
<1>4. OneAtATime' /\ FeedsAreOfStreams'
  BY <1>1, <1>2 DEF PInv, OneAtATime, FeedsAreOfStreams
<1>5. PatientUserSeesTheRun'
  BY <1>1, <1>2, <1>3, PanelsKept
  DEF PInv, PatientUserSeesTheRun, StatusOfTheStream, VerdictOfThePage, ResetAtHand
<1> QED
  BY <1>4, <1>5 DEF PInv

LEMMA SubmitPatient == ASSUME IInv, PInv, Submit PROVE PInv'
<1>1. /\ UNCHANGED <<panels_hidden, panels, verdict, winner, source, finished, fate, feed, fetching>>
      /\ submitted' = submitted + 1 /\ posts' = posts \cup {submitted + 1}
      /\ ~reset_hidden' /\ status' = "connecting"
      /\ waited' = (waited /\ ~Busy)
  BY DEF Submit, Acts
<1>2. Open' = Open /\ Streamed' = Streamed
  BY <1>1 DEF Open, Streamed
<1>3. OnPage' = OnPage
  BY <1>2, PageKept
<1>4. FeedsAreOfStreams'
  BY <1>1, <1>2 DEF PInv, FeedsAreOfStreams
<1>5. ASSUME waited' PROVE waited /\ posts = {} /\ Open = {} /\ fetching = {}
  BY <1>1, <1>5 DEF Busy
<1>6. OneAtATime'
  BY <1>1, <1>2, <1>5 DEF OneAtATime
<1>7. PatientUserSeesTheRun'
  <2>1. waited' => PanelsExact'
    BY <1>1, <1>2, <1>5, PanelsKept DEF PInv, PatientUserSeesTheRun
  <2> QED
    BY <1>1, <1>2, <1>3, <1>5, <2>1
    DEF PInv, PatientUserSeesTheRun, StatusOfTheStream, VerdictOfThePage, ResetAtHand
<1> QED
  BY <1>4, <1>6, <1>7 DEF PInv

LEMMA ResetPatient == ASSUME IInv, PInv, Reset PROVE PInv'
<1>1. /\ UNCHANGED <<submitted, posts, source, finished, fate, feed, fetching>>
      /\ panels_hidden' = TRUE /\ verdict' = None /\ status' = "idle"
      /\ waited' = (waited /\ ~Busy)
  BY DEF Reset, Acts, runVars
<1>2. Open' = Open /\ Streamed' = Streamed /\ Busy' = Busy
  BY <1>1 DEF Open, Streamed, Busy
<1>3. ASSUME waited' PROVE posts' = {} /\ Open' = {} /\ fetching' = {} /\ ~Busy'
  BY <1>1, <1>2, <1>3 DEF Busy
<1> QED
  BY <1>1, <1>2, <1>3
  DEF PInv, OneAtATime, FeedsAreOfStreams, PatientUserSeesTheRun, PanelsExact, StatusOfTheStream,
      VerdictOfThePage, ResetAtHand

LEMMA PostAnsweredPatient == ASSUME IInv, PInv, NEW k \in Runs, PostAnswered(k) PROVE PInv'
<1>1. /\ UNCHANGED <<submitted, finished, fate, feed, fetching, waited, reset_hidden>>
      /\ k \in posts /\ posts' = posts \ {k} /\ source' = [source EXCEPT ![k] = "open"]
      /\ ~panels_hidden' /\ panels' = Empty /\ verdict' = None /\ status' = "connecting"
  BY DEF PostAnswered, PanelsCleared
<1>2. source[k] = "none" /\ feed[k] = <<>> /\ DOMAIN source = Runs
  BY <1>1, Facts, Types DEF PInv, FeedsAreOfStreams
<1>3. Open' = Open \cup {k} /\ Streamed' = Streamed \cup {k} /\ Busy
  BY <1>1, <1>2 DEF Open, Streamed, Busy
<1>4. FeedsAreOfStreams'
  BY <1>1, <1>2, <1>3 DEF PInv, FeedsAreOfStreams
<1>5. ASSUME waited'
      PROVE k = submitted /\ Open' = {k} /\ posts' = {} /\ fetching' = {} /\ ~reset_hidden'
  BY <1>1, <1>3, <1>5 DEF PInv, OneAtATime
<1>6. OneAtATime'
  BY <1>1, <1>5 DEF OneAtATime
<1>7. waited' => OnPage' = k
  <2>1. Streamed' \subseteq Nat /\ k \in Streamed'
    BY <1>3, Facts
  <2>2. k = submitted => \A j \in Streamed' : j <= k
    BY <1>3, Facts
  <2> QED
    BY <1>5, <2>1, <2>2, LastOf DEF OnPage
<1>8. PatientUserSeesTheRun'
  <2>1. waited' => PanelsExact'
    <3>1. \A p \in Panels : panels'[p] = <<>>
      BY <1>1 DEF Empty
    <3> QED
      BY <1>1, <1>2, <1>7, <3>1, NothingListed DEF PanelsExact
  <2>2. waited' => StatusOfTheStream'
    BY <1>1, <1>2, <1>5, <1>7 DEF StatusOfTheStream
  <2> QED
    BY <1>1, <1>5, <2>1, <2>2 DEF PatientUserSeesTheRun, VerdictOfThePage, ResetAtHand
<1> QED
  BY <1>4, <1>6, <1>8 DEF PInv

LEMMA PostFailsPatient == ASSUME IInv, PInv, NEW k \in Runs, PostFails(k) PROVE PInv'
<1>1. /\ UNCHANGED <<submitted, source, finished, fate, feed, fetching, waited, reset_hidden,
                     panels_hidden, panels, verdict, winner>>
      /\ k \in posts /\ posts' = posts \ {k} /\ status' = "error"
  BY DEF PostFails, StatusOfFailure
<1>2. Open' = Open /\ Streamed' = Streamed /\ Busy
  BY <1>1 DEF Open, Streamed, Busy
<1>3. OnPage' = OnPage
  BY <1>2, PageKept
<1>4. OneAtATime' /\ FeedsAreOfStreams'
  BY <1>1, <1>2 DEF PInv, OneAtATime, FeedsAreOfStreams, Busy
<1>5. waited => k = submitted /\ Open = {} /\ ~finished[k]
  BY <1>1, Facts DEF PInv, OneAtATime
<1>6. waited => StatusOfTheStream'
  BY <1>1, <1>2, <1>5 DEF PInv, OneAtATime, StatusOfTheStream
<1>7. PatientUserSeesTheRun'
  BY <1>1, <1>2, <1>3, <1>6, PanelsKept
  DEF PInv, PatientUserSeesTheRun, VerdictOfThePage, ResetAtHand
<1> QED
  BY <1>4, <1>7 DEF PInv

LEMMA ReceivePatient ==
  ASSUME IInv, PInv, NEW k \in Runs, NEW kind \in Kinds, Receive(k, kind) PROVE PInv'
<1>1. /\ UNCHANGED <<submitted, source, finished, fate, posts, fetching, waited, reset_hidden,
                     panels_hidden, verdict, winner>>
      /\ source[k] = "open"
      /\ feed' = [feed EXCEPT ![k] = Append(@, kind)]
      /\ status' = IF kind = "message" THEN "debating" ELSE status
      /\ panels' = [p \in Panels |->
                      IF PanelOf[kind] = p THEN Append(panels[p], <<k, Len(feed[k]) + 1>>)
                      ELSE panels[p]]
  BY DEF Receive, formVars
<1>2. /\ feed[k] \in Seq(Kinds) /\ feed'[k] = Append(feed[k], kind)
      /\ \A j \in Runs : j # k => feed'[j] = feed[j]
  BY <1>1, Types
<1>3. Open' = Open /\ Streamed' = Streamed /\ Busy' = Busy /\ k \in Open /\ k \in Streamed
  BY <1>1 DEF Open, Streamed, Busy
<1>4. OneAtATime' /\ FeedsAreOfStreams'
  BY <1>1, <1>2, <1>3 DEF PInv, OneAtATime, FeedsAreOfStreams
<1>5. waited => k = submitted /\ posts = {} /\ OnPage = k /\ OnPage' = k
  <2>1. waited => k = submitted /\ posts = {}
    BY <1>3 DEF PInv, OneAtATime
  <2> QED
    BY <1>3, <2>1, LastIsOnPage, PageKept
<1>6. waited => PanelsExact'
  <2> SUFFICES ASSUME waited, ~panels_hidden, NEW p \in Panels
               PROVE  Lists(panels'[p], k, feed'[k], p)
    BY <1>1, <1>5 DEF PanelsExact, Lists
  <2>1. Lists(panels[p], k, feed[k], p)
    BY <1>5 DEF PInv, PatientUserSeesTheRun, PanelsExact
  <2>2. panels[p] \in Seq(Entries)
    BY Types
  <2>3. panels'[p] = IF PanelOf[kind] = p THEN Append(panels[p], <<k, Len(feed[k]) + 1>>)
                     ELSE panels[p]
    BY <1>1
  <2> QED
    BY <1>2, <2>1, <2>2, <2>3, EventListed
<1>7. waited => StatusOfTheStream'
  <2>1. DOMAIN feed'[k] = DOMAIN feed[k] \cup {Len(feed[k]) + 1}
        /\ feed'[k][Len(feed[k]) + 1] = kind
        /\ \A i \in DOMAIN feed[k] : feed'[k][i] = feed[k][i]
    BY <1>2
  <2>2. (\E i \in DOMAIN feed'[k] : feed'[k][i] = "message")
          <=> kind = "message" \/ \E i \in DOMAIN feed[k] : feed[k][i] = "message"
    BY <2>1
  <2>3. waited => status = IF \E i \in DOMAIN feed[k] : feed[k][i] = "message"
                             THEN "debating" ELSE "connecting"
    BY <1>3, <1>5 DEF PInv, PatientUserSeesTheRun, StatusOfTheStream
  <2>4. waited => status' = IF \E i \in DOMAIN feed'[k] : feed'[k][i] = "message"
                             THEN "debating" ELSE "connecting"
    BY <1>1, <2>2, <2>3
  <2> QED
    BY <1>1, <1>5, <2>4 DEF StatusOfTheStream
<1>8. PatientUserSeesTheRun'
  BY <1>1, <1>5, <1>6, <1>7 DEF PInv, PatientUserSeesTheRun, VerdictOfThePage, ResetAtHand
<1> QED
  BY <1>4, <1>8 DEF PInv

LEMMA DonePatient == ASSUME IInv, PInv, NEW k \in Runs, Done(k) PROVE PInv'
<1>1. /\ UNCHANGED <<submitted, feed, posts, waited, reset_hidden, panels_hidden, panels,
                     verdict, winner>>
      /\ source[k] = "open" /\ source' = [source EXCEPT ![k] = "closed"]
      /\ finished' = [finished EXCEPT ![k] = TRUE]
      /\ fate'[k] \in Endings /\ \A j \in Runs \ {k} : fate'[j] = fate[j]
      /\ status' = "complete" /\ fetching' = fetching \cup {k}
  BY Types DEF Done, Closed, formVars
<1>2. /\ Open' = Open \ {k} /\ Streamed' = Streamed /\ k \in Open /\ Busy
      /\ \A j \in Runs : finished'[j] = (finished[j] \/ j = k)
  BY <1>1, Types DEF Open, Streamed, Busy
<1>3. OnPage' = OnPage
  BY <1>2, PageKept
<1>4. FeedsAreOfStreams'
  <2>1. \A j \in fetching' : finished'[j]
    BY <1>1, <1>2, Facts DEF PInv, FeedsAreOfStreams
  <2>2. \A j \in Runs : source'[j] = "none" => feed'[j] = <<>>
    BY <1>1, Types DEF PInv, FeedsAreOfStreams
  <2>3. \A j \in Runs : finished'[j] => fate'[j] \in Endings
    BY <1>1, <1>2 DEF PInv, FeedsAreOfStreams
  <2> QED
    BY <1>1, <1>2, <2>1, <2>2, <2>3 DEF PInv, FeedsAreOfStreams
<1>5. waited => k = submitted /\ posts = {} /\ Open' = {} /\ fetching' = {k} /\ ~reset_hidden
  BY <1>1, <1>2 DEF PInv, OneAtATime
<1>6. OneAtATime'
  BY <1>1, <1>5 DEF OneAtATime
<1>7. waited => StatusOfTheStream'
  BY <1>1, <1>2, <1>5 DEF StatusOfTheStream
<1>8. PatientUserSeesTheRun'
  <2>1. waited => VerdictOfThePage'
    BY <1>1, <1>2, <1>3, Types
    DEF PInv, PatientUserSeesTheRun, VerdictOfThePage, IInv, TypeOK, None
  <2> QED
    BY <1>1, <1>2, <1>7, <2>1, PanelsKept DEF PInv, PatientUserSeesTheRun, ResetAtHand
<1> QED
  BY <1>4, <1>6, <1>8 DEF PInv

LEMMA LostPatient == ASSUME IInv, PInv, NEW k \in Runs, Lost(k) PROVE PInv'
<1>1. /\ UNCHANGED <<submitted, feed, posts, waited, reset_hidden, panels_hidden, panels,
                     verdict, winner, finished, fate, fetching>>
      /\ source[k] = "open" /\ source' = [source EXCEPT ![k] = "closed"]
      /\ ~finished[k] /\ status' = "error"
  BY Facts DEF Lost, formVars
<1>2. /\ Open' = Open \ {k} /\ Streamed' = Streamed /\ k \in Open /\ Busy
  BY <1>1, Types DEF Open, Streamed, Busy
<1>3. OnPage' = OnPage
  BY <1>2, PageKept
<1>4. FeedsAreOfStreams'
  BY <1>1, <1>2, Types DEF PInv, FeedsAreOfStreams
<1>5. waited => k = submitted /\ posts = {} /\ Open' = {} /\ ~reset_hidden
  BY <1>1, <1>2 DEF PInv, OneAtATime
<1>6. OneAtATime'
  BY <1>1, <1>5 DEF PInv, OneAtATime
<1>7. waited => StatusOfTheStream'
  BY <1>1, <1>5 DEF StatusOfTheStream
<1>8. PatientUserSeesTheRun'
  BY <1>1, <1>2, <1>3, <1>7, PanelsKept
  DEF PInv, PatientUserSeesTheRun, VerdictOfThePage, ResetAtHand
<1> QED
  BY <1>4, <1>6, <1>8 DEF PInv

LEMMA VerdictPatient ==
  ASSUME IInv, PInv, NEW k \in Runs, VerdictArrives(k) \/ VerdictFails(k) PROVE PInv'
<1>1. /\ UNCHANGED <<submitted, feed, posts, waited, reset_hidden, panels_hidden, panels,
                     finished, fate, source, status>>
      /\ k \in fetching /\ fetching' = fetching \ {k}
      /\ \/ UNCHANGED <<verdict, winner>>
         \/ verdict' = k /\ winner' = IF fate[k] = "done" THEN "side" ELSE "dash"
  BY DEF VerdictArrives, VerdictFails, winnerLabel, formVars, viewVars
<1>2. Open' = Open /\ Streamed' = Streamed /\ Busy /\ finished[k] /\ k \in Streamed
  BY <1>1, Facts DEF Open, Streamed, Busy, PInv, FeedsAreOfStreams
<1>3. OnPage' = OnPage
  BY <1>2, PageKept
<1>4. FeedsAreOfStreams'
  BY <1>1, <1>2 DEF PInv, FeedsAreOfStreams
<1>5. waited => k = submitted /\ posts = {} /\ ~reset_hidden /\ OnPage = k
  BY <1>1, <1>2, LastIsOnPage DEF PInv, OneAtATime
<1>6. OneAtATime'
  BY <1>1, <1>2, <1>5 DEF PInv, OneAtATime
<1>7. fate[k] = "done" \/ fate[k] = "failed"
  BY <1>2 DEF PInv, FeedsAreOfStreams, Endings
<1>8. waited => VerdictOfThePage'
  BY <1>1, <1>2, <1>3, <1>5, <1>7 DEF PInv, PatientUserSeesTheRun, VerdictOfThePage
<1>9. waited => StatusOfTheStream' /\ ResetAtHand'
  BY <1>1, <1>2, <1>3, <1>5 DEF PInv, PatientUserSeesTheRun, StatusOfTheStream, ResetAtHand
<1>10. PatientUserSeesTheRun'
  BY <1>1, <1>2, <1>8, <1>9, PanelsKept DEF PInv, PatientUserSeesTheRun
<1> QED
  BY <1>4, <1>6, <1>10 DEF PInv

LEMMA NextPatient == IInv /\ PInv /\ [Next]_vars => PInv'
<1> SUFFICES ASSUME IInv, PInv, [Next]_vars PROVE PInv'
  OBVIOUS
<1>1. CASE User \/ UNCHANGED vars
  BY <1>1, UserPatient, SubmitPatient, ResetPatient DEF User
<1>2. CASE Network
  BY <1>2, PostAnsweredPatient, PostFailsPatient, ReceivePatient, DonePatient, LostPatient,
     VerdictPatient DEF Network
<1> QED
  BY <1>1, <1>2 DEF Next

\* A user who lets each debate come to its end before starting or resetting sees
\* that debate, however many came before it and however they ended: its events,
\* each in its panel, in order, none missing; its status, its verdict and the
\* way out (app.js:258-316, 361-393).
THEOREM PatientUserSafe == Spec => []PatientUserSeesTheRun
  BY Invariance, PInit, NextPatient, PTL DEF Spec, PInv

-----------------------------------------------------------------------------
(* The callbacks run out, and only the user brings new ones: with a        *)
(* network that answers or fails this is why the page comes to rest.       *)

\* Callbacks a debate may still make: the answer to its POST, its events, the
\* end of its stream and its verdict.
CallbacksLeft ==
  [k \in Runs |-> CASE k \in posts -> LastEvent + 3
                    [] k \notin posts /\ source[k] = "open" -> LastEvent - Len(feed[k]) + 2
                    [] k \notin posts /\ source[k] # "open" /\ k \in fetching -> 1
                    [] OTHER -> 0]

\* A stream has at most its events, and a verdict is fetched of a closed one.
FetchedLast ==
  /\ \A k \in Runs : Len(feed[k]) <= LastEvent
  /\ \A k \in fetching : source[k] = "closed"

LEMMA FetchedKept == ASSUME IInv, FetchedLast, [Next]_vars PROVE FetchedLast'
<1> USE Types
<1>1. fetching \subseteq Runs
  BY DEF IInv, TypeOK
<1>2. CASE UNCHANGED vars \/ Type \/ SubmitNothing \/ Submit \/ Reset
  BY <1>2 DEF vars, Type, SubmitNothing, Submit, Reset, runVars, FetchedLast
<1>3. ASSUME NEW k \in Runs, PostAnswered(k)
      PROVE  FetchedLast'
  <2>1. source[k] = "none" /\ UNCHANGED <<feed, fetching>> /\ source' = [source EXCEPT ![k] = "open"]
    BY <1>3 DEF PostAnswered, PostsComeFirst
  <2> QED
    BY <1>1, <2>1 DEF FetchedLast
<1>4. ASSUME NEW k \in Runs, Done(k)
      PROVE  FetchedLast'
  <2>1. /\ UNCHANGED feed /\ fetching' = fetching \cup {k}
        /\ source' = [source EXCEPT ![k] = "closed"]
    BY <1>4 DEF Done, Closed
  <2> QED
    BY <1>1, <2>1 DEF FetchedLast
<1>5. ASSUME NEW k \in Runs, Lost(k)
      PROVE  FetchedLast'
  <2>1. UNCHANGED <<feed, fetching>> /\ source' = [source EXCEPT ![k] = "closed"]
    BY <1>5 DEF Lost
  <2> QED
    BY <1>1, <2>1 DEF FetchedLast
<1>6. ASSUME NEW k \in Runs, PostFails(k) \/ VerdictArrives(k) \/ VerdictFails(k)
      PROVE  FetchedLast'
  <2>1. UNCHANGED <<feed, source>> /\ fetching' \subseteq fetching
    BY <1>6 DEF PostFails, VerdictArrives, VerdictFails
  <2> QED
    BY <2>1 DEF FetchedLast
<1>7. ASSUME NEW k \in Runs, NEW kind \in Kinds, Receive(k, kind)
      PROVE  FetchedLast'
  <2>1. /\ feed' = [feed EXCEPT ![k] = Append(@, kind)] /\ Len(feed[k]) < LastEvent
        /\ UNCHANGED <<source, fetching>>
    BY <1>7 DEF Receive
  <2>2. \A j \in Runs : Len(feed'[j]) = IF j = k THEN Len(feed[k]) + 1 ELSE Len(feed[j])
    BY <2>1
  <2>3. Len(feed[k]) \in Nat
    OBVIOUS
  <2> QED
    BY <2>1, <2>2, <2>3 DEF FetchedLast
<1> QED
  BY <1>2, <1>3, <1>4, <1>5, <1>6, <1>7 DEF Next, User, Network

LEMMA CallbacksTyped ==
  ASSUME IInv, FetchedLast, NEW k \in Runs
  PROVE  CallbacksLeft[k] \in 0 .. LastEvent + 3
  BY Types DEF CallbacksLeft, FetchedLast

\* What another debate has left does not change.
LEMMA OthersCallbacks ==
  ASSUME NEW k \in Runs, NEW j \in Runs \ {k},
         j \in posts' <=> j \in posts, j \in fetching' <=> j \in fetching,
         source'[j] = source[j], feed'[j] = feed[j]
  PROVE  CallbacksLeft'[j] = CallbacksLeft[j]
  BY DEF CallbacksLeft

LEMMA CallbackCounts ==
  ASSUME IInv, FetchedLast, Network
  PROVE  \E k \in Runs : /\ CallbacksLeft'[k] < CallbacksLeft[k]
                         /\ \A j \in Runs \ {k} : CallbacksLeft'[j] = CallbacksLeft[j]
<1> USE Types
<1>1. PICK k \in Runs : \/ PostAnswered(k) \/ PostFails(k)
                        \/ (\E kind \in Kinds : Receive(k, kind)) \/ Done(k) \/ Lost(k)
                        \/ VerdictArrives(k) \/ VerdictFails(k)
  BY DEF Network
<1>2. fetching \subseteq Runs /\ posts \subseteq Runs
  BY DEF IInv, TypeOK
<1>3. \A j \in Runs \ {k} : /\ j \in posts' <=> j \in posts
                            /\ j \in fetching' <=> j \in fetching
                            /\ source'[j] = source[j] /\ feed'[j] = feed[j]
  BY <1>1 DEF PostAnswered, PostFails, Receive, Done, Lost, VerdictArrives, VerdictFails
<1>4. \A j \in Runs \ {k} : CallbacksLeft'[j] = CallbacksLeft[j]
  BY <1>3, OthersCallbacks
<1>5. Len(feed[k]) \in Nat /\ Len(feed[k]) <= LastEvent
  BY DEF FetchedLast
<1>6. CallbacksLeft'[k] < CallbacksLeft[k]
  <2>1. CASE PostAnswered(k)
    <3>1. k \in posts /\ k \notin posts' /\ source'[k] = "open" /\ feed' = feed
      BY <2>1 DEF PostAnswered
    <3> QED
      BY <1>5, <3>1 DEF CallbacksLeft
  <2>2. CASE PostFails(k)
    <3>1. k \in posts /\ k \notin posts' /\ source[k] = "none" /\ source' = source
      BY <2>2 DEF PostFails, PostsComeFirst
    <3> QED
      BY <3>1 DEF CallbacksLeft
  <2>3. ASSUME NEW kind \in Kinds, Receive(k, kind)
        PROVE  CallbacksLeft'[k] < CallbacksLeft[k]
    <3>1. /\ k \notin posts /\ source[k] = "open" /\ UNCHANGED <<posts, source>>
          /\ Len(feed'[k]) = Len(feed[k]) + 1
      BY <2>3 DEF Receive, PostsComeFirst
    <3> QED
      BY <1>5, <3>1 DEF CallbacksLeft
  <2>4. CASE Done(k) \/ Lost(k)
    <3>1. k \notin posts /\ source[k] = "open" /\ UNCHANGED posts /\ source'[k] = "closed"
      BY <2>4 DEF Done, Lost, Closed, PostsComeFirst
    <3>2. CallbacksLeft'[k] \in {0, 1}
      BY <3>1 DEF CallbacksLeft
    <3>3. CallbacksLeft[k] = LastEvent - Len(feed[k]) + 2
      BY <3>1 DEF CallbacksLeft
    <3> QED
      BY <1>5, <3>2, <3>3
  <2>5. CASE VerdictArrives(k) \/ VerdictFails(k)
    <3>1. k \in fetching /\ k \notin fetching' /\ UNCHANGED <<posts, source>>
      BY <2>5 DEF VerdictArrives, VerdictFails
    <3>2. source[k] = "closed" /\ k \notin posts
      BY <3>1 DEF FetchedLast, PostsComeFirst
    <3> QED
      BY <3>1, <3>2 DEF CallbacksLeft
  <2> QED
    BY <1>1, <2>1, <2>2, <2>3, <2>4, <2>5
<1> QED
  BY <1>4, <1>6

LEMMA UserAsks ==
  ASSUME IInv, User, NEW k \in Runs, k # submitted + 1 \/ ~Submit
  PROVE  CallbacksLeft'[k] = CallbacksLeft[k]
<1>1. CASE Submit
  BY <1>1 DEF Submit, CallbacksLeft
<1>2. CASE Type \/ SubmitNothing \/ Reset
  BY <1>2 DEF Type, SubmitNothing, Reset, runVars, CallbacksLeft
<1> QED
  BY <1>1, <1>2 DEF User

\* A debate has at most as many callbacks as events and three more, each of
\* which uses up one of its own debate's and touches no other's; a user who
\* types or resets takes and adds none, and one who submits adds those of one
\* debate that had none (app.js:257-320, 361-393).
CallbacksRunOut ==
  /\ [](\A k \in Runs : CallbacksLeft[k] \in 0 .. LastEvent + 3)
  /\ [][/\ Network => \E k \in Runs : /\ CallbacksLeft'[k] < CallbacksLeft[k]
                                      /\ \A j \in Runs \ {k} : CallbacksLeft'[j] = CallbacksLeft[j]
        /\ User => \A k \in Runs : \/ CallbacksLeft'[k] = CallbacksLeft[k]
                                   \/ Submit /\ k = submitted']_vars

THEOREM PageComesToRest == Spec => CallbacksRunOut
<1>1. Init => FetchedLast
  <2> SUFFICES ASSUME Init PROVE FetchedLast
    OBVIOUS
  <2>1. fetching = {} /\ \A k \in Runs : feed[k] = <<>>
    BY DEF Init
  <2>2. Len(<<>>) <= LastEvent
    BY BrowserPageAssumption
  <2> QED
    BY <2>1, <2>2 DEF FetchedLast
<1>2. IInv /\ FetchedLast /\ [Next]_vars => FetchedLast'
  BY FetchedKept
<1>3. IInv /\ FetchedLast => \A k \in Runs : CallbacksLeft[k] \in 0 .. LastEvent + 3
  BY CallbacksTyped
<1>4. ASSUME IInv, FetchedLast, [Next]_vars
      PROVE  [/\ Network => \E k \in Runs : /\ CallbacksLeft'[k] < CallbacksLeft[k]
                                            /\ \A j \in Runs \ {k} : CallbacksLeft'[j] = CallbacksLeft[j]
              /\ User => \A k \in Runs : \/ CallbacksLeft'[k] = CallbacksLeft[k]
                                         \/ Submit /\ k = submitted']_vars
  <2>1. Submit => submitted' = submitted + 1
    BY DEF Submit
  <2> QED
    BY <1>4, <2>1, CallbackCounts, UserAsks
<1> QED
  BY <1>1, <1>2, <1>3, <1>4, Invariance, PTL DEF Spec, CallbacksRunOut
=============================================================================
