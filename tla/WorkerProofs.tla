----------------------------- MODULE WorkerProofs -----------------------------
(***************************************************************************)
(* Two components that look after workers which may hang.                  *)
(*                                                                         *)
(* The watchdog, for every interval, window, delay and budget: its types,  *)
(* that it never kills a worker that beats in time while its own checks    *)
(* are no later than the window allows, that it finds a fallen one in      *)
(* time, and that what it logged tells when the worker fell.  The argument *)
(* ties the time a step is due to the last beat of the worker: how late    *)
(* the watchdog looks never depends on the worker.                         *)
(*                                                                         *)
(* The web search, for every number of callers, retries and slots: its     *)
(* types, whose results it returns, what it costs, why it is empty, what   *)
(* its log says, and that each of its steps is one of SearchPromise.  The  *)
(* argument follows each attempt's worker from its start to the cells it   *)
(* leaves, and ties what was logged and returned to the last of them.      *)
(***************************************************************************)
EXTENDS Watchdog, SearchCall, FiniteSetTheorems, SequenceTheorems, TLAPS

\* What a step is due by, counted from the worker's last beat.
DueInTime ==
  /\ at = "sleeping" => due <= last_beat + Timeout + Interval
  /\ at = "asking" => due <= last_beat + Timeout + Interval + Delay
  /\ at = "judging" => due <= last_beat + Timeout + Interval + 2 * Delay

\* What was read is no newer than what is there, and was fresh when it was
\* read from a worker that still beats.
SeenIsPast ==
  /\ seen <= last_beat
  /\ at = "judging" /\ worker = "beating" => due <= seen + BeatEvery

\* The worker beats in time or has fallen after its last beat.
WorkerInTime ==
  /\ worker = "beating" => now <= last_beat + BeatEvery
  /\ worker \in {"hung", "gone"} => Len(falls) > 0 /\ last_beat <= falls[Len(falls)]
  /\ at = "starting" => worker = "off"
  /\ at = "sleeping" => tick < MaxTicks

IInv ==
  /\ TypeOK
  /\ DueInTime
  /\ SeenIsPast
  /\ WorkerInTime
  /\ HealthyNeverKilled

-----------------------------------------------------------------------------
\* The falls recorded stay in the past as the clock goes on.
LEMMA PastStaysPast ==
  ASSUME NEW n \in Nat, NEW s \in Seq(0 .. n)
  PROVE  s \in Seq(0 .. n + 1)
<1>1. s \in [1 .. Len(s) -> 0 .. n] /\ Len(s) \in Nat
  OBVIOUS
<1>2. s \in [1 .. Len(s) -> 0 .. n + 1]
  BY <1>1, 0 .. n \subseteq 0 .. n + 1
<1> QED
  BY <1>1, <1>2

LEMMA InitEstablishes == Init => IInv
<1> SUFFICES ASSUME Init PROVE IInv
  OBVIOUS
<1>1. actions \in Seq({"detect", "kill", "restart", "give_up"}) /\ falls \in Seq(0 .. now)
  BY DEF Init
<1>2. TypeOK
  <2>1. now = 0 /\ last_beat = 0 /\ seen = 0 /\ due = 0
    BY DEF Init
  <2>4. now \in Nat /\ last_beat \in 0 .. now /\ seen \in 0 .. now /\ due \in Nat
    BY <2>1
  <2>5. now <= due + Delay
    BY <2>1, WatchdogAssumption
  <2>2. tick \in 0 .. MaxTicks /\ restarts \in 0 .. MaxRestarts
    <3>1. tick = 0 /\ restarts = 0
      BY DEF Init
    <3> QED
      BY <3>1, WatchdogAssumption
  <2>6. fell \in BOOLEAN
    BY DEF Init
  <2>3. worker \in {"off", "beating", "hung", "gone"}
        /\ at \in {"starting", "sleeping", "asking", "judging", "fallen", "ended"}
    BY DEF Init
  <2> QED
    BY <1>1, <2>2, <2>3, <2>4, <2>5, <2>6 DEF TypeOK
<1>3. DueInTime /\ SeenIsPast /\ WorkerInTime /\ HealthyNeverKilled
  BY DEF Init, DueInTime, SeenIsPast, WorkerInTime, HealthyNeverKilled
<1> QED
  BY <1>2, <1>3 DEF IInv

LEMMA StartKeeps == IInv /\ Start => IInv'
  BY WatchdogAssumption
  DEF Start, Goes, IInv, TypeOK, DueInTime, SeenIsPast, WorkerInTime, HealthyNeverKilled

LEMMA CheckKeeps == IInv /\ Check => IInv'
  BY WatchdogAssumption
  DEF Check, Goes, workerVars, IInv, TypeOK, DueInTime, SeenIsPast, WorkerInTime,
      HealthyNeverKilled

LEMMA AskKeeps == IInv /\ Ask => IInv'
  BY WatchdogAssumption
  DEF Ask, Goes, workerVars, IInv, TypeOK, DueInTime, SeenIsPast, WorkerInTime,
      HealthyNeverKilled

LEMMA JudgeKeeps == IInv /\ Judge => IInv'
  BY WatchdogAssumption
  DEF Judge, Recent, Goes, workerVars, IInv, TypeOK, DueInTime, SeenIsPast, WorkerInTime,
      HealthyNeverKilled

LEMMA KillKeeps == IInv /\ Kill => IInv'
<1> SUFFICES ASSUME IInv, Kill PROVE IInv'
  OBVIOUS
<1>1. actions' \in Seq({"detect", "kill", "restart", "give_up"})
  <2>1. actions \in Seq({"detect", "kill", "restart", "give_up"})
    BY DEF IInv, TypeOK
  <2>2. <<"detect", "kill">> \in Seq({"detect", "kill", "restart", "give_up"})
        /\ <<"detect", "kill", "give_up">> \in Seq({"detect", "kill", "restart", "give_up"})
    OBVIOUS
  <2>3. CASE RestartsLeft
    BY <2>1, <2>2, <2>3 DEF Kill
  <2>4. CASE ~RestartsLeft
    BY <2>1, <2>2, <2>4 DEF Kill
  <2> QED
    BY <2>3, <2>4
<1>2. fell' \in BOOLEAN
  BY DEF Kill, IInv, TypeOK
<1>3. /\ at = "fallen" /\ worker' = "off" /\ at' \in {"starting", "ended"} /\ due' = now
      /\ now' = now /\ last_beat' = last_beat /\ falls' = falls /\ seen' = seen /\ tick' = tick
  BY DEF Kill, Goes
<1>4. restarts' \in 0 .. MaxRestarts
  <2>1. restarts \in 0 .. MaxRestarts
    BY DEF IInv, TypeOK
  <2>2. CASE RestartsLeft
    BY <2>1, <2>2, WatchdogAssumption DEF Kill, RestartsLeft
  <2>3. CASE ~RestartsLeft
    BY <2>1, <2>3 DEF Kill
  <2> QED
    BY <2>2, <2>3
<1>5. TypeOK'
  <2>1. now' <= due' + Delay /\ due' \in Nat
    BY <1>3, WatchdogAssumption DEF IInv, TypeOK
  <2> QED
    BY <1>1, <1>2, <1>3, <1>4, <2>1 DEF IInv, TypeOK
<1>6. DueInTime' /\ SeenIsPast' /\ WorkerInTime' /\ HealthyNeverKilled'
  BY <1>3 DEF IInv, DueInTime, SeenIsPast, WorkerInTime, HealthyNeverKilled
<1> QED
  BY <1>5, <1>6 DEF IInv

LEMMA BeatKeeps == IInv /\ Beat => IInv'
  BY WatchdogAssumption
  DEF Beat, IInv, TypeOK, DueInTime, SeenIsPast, WorkerInTime, HealthyNeverKilled

LEMMA FallKeeps == IInv /\ Fall => IInv'
<1> SUFFICES ASSUME IInv, Fall PROVE IInv'
  OBVIOUS
<1>1. now \in Nat /\ now' = now /\ falls \in Seq(0 .. now) /\ falls' = Append(falls, now)
  BY DEF Fall, IInv, TypeOK
<1>2. falls' \in Seq(0 .. now') /\ Len(falls') > 0 /\ falls'[Len(falls')] = now
  BY <1>1
<1>3. worker' \in {"hung", "gone"} /\ worker = "beating"
  BY DEF Fall
<1>4. TypeOK'
  <2>1. now' = now /\ last_beat' = last_beat /\ seen' = seen /\ at' = at /\ due' = due
        /\ tick' = tick /\ restarts' = restarts /\ fell' = fell /\ actions' = actions
    BY DEF Fall
  <2> QED
    BY <1>2, <1>3, <2>1 DEF IInv, TypeOK
<1>5. DueInTime' /\ SeenIsPast' /\ HealthyNeverKilled'
  BY <1>3 DEF Fall, IInv, DueInTime, SeenIsPast, HealthyNeverKilled
<1>6. WorkerInTime'
  BY <1>2, <1>3 DEF Fall, IInv, TypeOK, WorkerInTime
<1> QED
  BY <1>4, <1>5, <1>6 DEF IInv

LEMMA PassKeeps == IInv /\ Pass => IInv'
<1> SUFFICES ASSUME IInv, Pass PROVE IInv'
  OBVIOUS
<1>1. falls' \in Seq(0 .. now')
  BY PastStaysPast DEF Pass, workerVars, IInv, TypeOK
<1> QED
  BY <1>1, WatchdogAssumption
  DEF Pass, workerVars, IInv, TypeOK, DueInTime, SeenIsPast, WorkerInTime, HealthyNeverKilled

\* The invariant is inductive.
LEMMA NextKeeps == IInv /\ [Next]_vars => IInv'
<1> SUFFICES ASSUME IInv, [Next]_vars PROVE IInv'
  OBVIOUS
<1>1. CASE UNCHANGED vars
  BY <1>1 DEF vars, workerVars, IInv, TypeOK, DueInTime, SeenIsPast, WorkerInTime,
              HealthyNeverKilled
<1>2. CASE Over
  BY <1>1, <1>2 DEF Over
<1> QED
  BY <1>1, <1>2, StartKeeps, CheckKeeps, AskKeeps, JudgeKeeps, KillKeeps, BeatKeeps,
     FallKeeps, PassKeeps DEF Next, Supervise

LEMMA Invariance == Spec => []IInv
  BY InitEstablishes, NextKeeps, PTL DEF Spec

-----------------------------------------------------------------------------
\* Clock, beats, falls and budgets keep their types (_watchdog.py:98-142).
THEOREM TypeCorrect == Spec => []TypeOK
<1>1. IInv => TypeOK
  BY DEF IInv
<1> QED
  BY <1>1, Invariance, PTL

\* A worker that beats in time is never killed, for every beat interval and
\* every bound on a check's delay that together fit the liveness window: a
\* check kept waiting longer, between the heartbeat and the clock it reads, is
\* outside what is claimed (_watchdog.py:138-142).
THEOREM HealthySafe == Spec => []HealthyNeverKilled
<1>1. IInv => HealthyNeverKilled
  BY DEF IInv
<1> QED
  BY <1>1, Invariance, PTL

\* A fall is found out within the window, one interval and the delays of one
\* check (_watchdog.py:114-118).
THEOREM FallFound == Spec => []FallFoundInTime
<1>1. IInv => FallFoundInTime
  BY WatchdogAssumption
  DEF IInv, TypeOK, DueInTime, WorkerInTime, FallFoundInTime
<1> QED
  BY <1>1, Invariance, PTL

-----------------------------------------------------------------------------
(* Every kill answers a fall: the log, the restarts and the falls are      *)
(* counted together, and it is the budget that says when the watchdog      *)
(* gives up.                                                               *)

ActionNames == {"detect", "kill", "restart", "give_up"}

Count(s, a) == Cardinality({i \in DOMAIN s : s[i] = a})

\* The log tells each fall that was answered, and the last one once it gave up;
\* a restart is logged when the worker is started again, not when it is decided.
LogInStep ==
  /\ Occurrences("detect") = Occurrences("kill")
  /\ Occurrences("kill") = restarts + (IF fell THEN 1 ELSE 0)
  /\ Occurrences("restart") = restarts - (IF at = "starting" /\ tick > 0 THEN 1 ELSE 0)
  /\ Occurrences("give_up") = (IF fell THEN 1 ELSE 0)

\* Where run() is: it has checked before it finds a fall, it gives up out of
\* restarts, and it checks on a worker it has started.
RunInStep ==
  /\ tick = 0 => restarts = 0
  /\ at \in {"asking", "judging", "fallen"} => tick > 0
  /\ fell => at = "ended" /\ worker = "off" /\ restarts = MaxRestarts
  /\ at \notin {"starting", "ended"} => worker # "off"

KillsAnswerFalls ==
  BeatEvery + Delay <= Timeout =>
    Occurrences("kill") + (IF worker \in {"hung", "gone"} THEN 1 ELSE 0) = Len(falls)

LInv == LogInStep /\ RunInStep /\ KillsAnswerFalls

LEMMA CountAppended ==
  ASSUME NEW S, NEW s \in Seq(S), NEW e \in S, NEW a
  PROVE  /\ Count(s, a) \in Nat
         /\ Count(Append(s, e), a) = Count(s, a) + (IF e = a THEN 1 ELSE 0)
<1> DEFINE t == Append(s, e)
           A == {i \in DOMAIN s : s[i] = a}
           B == {i \in DOMAIN t : t[i] = a}
<1>1. /\ Len(s) \in Nat /\ DOMAIN s = 1 .. Len(s) /\ DOMAIN t = 1 .. Len(s) + 1
      /\ t[Len(s) + 1] = e /\ \A i \in 1 .. Len(s) : t[i] = s[i]
  OBVIOUS
<1> HIDE DEF t
<1>2. IsFiniteSet(A) /\ Cardinality(A) \in Nat /\ Len(s) + 1 \notin A
  <2>1. IsFiniteSet(1 .. Len(s)) /\ A \subseteq 1 .. Len(s)
    BY <1>1, FS_Interval
  <2> QED
    BY <1>1, <2>1, FS_Subset, FS_CardinalityType
<1>3. B = (IF e = a THEN A \cup {Len(s) + 1} ELSE A)
  BY <1>1
<1> HIDE DEF A, B
<1>4. Cardinality(B) = Cardinality(A) + (IF e = a THEN 1 ELSE 0)
  <2>1. CASE e = a
    <3>1. Cardinality(A \cup {Len(s) + 1}) = Cardinality(A) + 1
      BY <1>2, FS_AddElement
    <3> QED
      BY <1>3, <2>1, <3>1
  <2>2. CASE e # a
    BY <1>2, <1>3, <2>2
  <2> QED
    BY <2>1, <2>2
<1> QED
  BY <1>2, <1>4 DEF Count, A, B, t

LEMMA CountsOf ==
  ASSUME IInv
  PROVE  \A a : Occurrences(a) = Count(actions, a) /\ Occurrences(a) \in Nat
<1>1. actions \in Seq(ActionNames) /\ "kill" \in ActionNames
  BY DEF IInv, TypeOK, ActionNames
<1>2. \A a : Count(actions, a) \in Nat
  BY <1>1, CountAppended
<1> QED
  BY <1>2 DEF Occurrences, Count

LEMMA LInit == Init => LInv
<1> SUFFICES ASSUME Init PROVE LInv
  OBVIOUS
<1>1. \A a : Occurrences(a) = 0
  <2>1. ASSUME NEW a PROVE Occurrences(a) = 0
    <3>1. {i \in DOMAIN actions : actions[i] = a} = {}
      BY DEF Init
    <3> QED
      BY <3>1, FS_EmptySet DEF Occurrences
  <2> QED
    BY <2>1
<1> QED
  BY <1>1 DEF Init, LInv, LogInStep, RunInStep, KillsAnswerFalls

\* Steps that log nothing.
LEMMA LogKept ==
  ASSUME UNCHANGED actions
  PROVE  \A a : Occurrences(a)' = Occurrences(a)
  BY DEF Occurrences

LEMMA NextLog == IInv /\ LInv /\ [Next]_vars => LInv'
<1> SUFFICES ASSUME IInv, LInv, [Next]_vars PROVE LInv'
  OBVIOUS
<1>a. /\ actions \in Seq(ActionNames) /\ restarts \in Nat /\ tick \in Nat
      /\ fell \in BOOLEAN /\ falls \in Seq(Nat) /\ Len(falls) \in Nat
  <2>1. falls \in Seq(0 .. now) /\ now \in Nat
    BY DEF IInv, TypeOK
  <2>2. falls \in Seq(Nat)
    BY <2>1
  <2> QED
    BY <2>2 DEF IInv, TypeOK, ActionNames
<1>b. \A a : Occurrences(a) = Count(actions, a) /\ Occurrences(a) \in Nat
  BY CountsOf
<1>c. \A a : Occurrences(a)' = Count(actions', a)
  BY DEF Occurrences, Count
<1>1. CASE Start
  <2>1. CASE tick = 0
    <3>1. UNCHANGED actions
      BY <1>1, <2>1 DEF Start
    <3> QED
      BY <1>1, <1>a, <1>b, <2>1, <3>1, LogKept, WatchdogAssumption
      DEF Start, Goes, LInv, LogInStep, RunInStep, KillsAnswerFalls, IInv, WorkerInTime
  <2>2. CASE tick # 0
    <3>1. actions' = Append(actions, "restart")
      BY <1>1, <2>2 DEF Start
    <3>2. \A a : Occurrences(a)' = Occurrences(a) + (IF "restart" = a THEN 1 ELSE 0)
      BY <1>a, <1>b, <1>c, <3>1, CountAppended DEF ActionNames
    <3> QED
      BY <1>1, <1>a, <1>b, <2>2, <3>2, WatchdogAssumption
      DEF Start, Goes, LInv, LogInStep, RunInStep, KillsAnswerFalls, IInv, WorkerInTime
  <2> QED
    BY <2>1, <2>2
<1>2. CASE Kill
  <2>1. /\ at = "fallen" /\ tick > 0 /\ ~fell /\ worker' = "off"
        /\ worker # "off" /\ UNCHANGED <<tick, falls>>
        /\ BeatEvery + Delay <= Timeout => worker \in {"hung", "gone"}
    BY <1>2 DEF Kill, LInv, RunInStep, IInv, TypeOK, HealthyNeverKilled
  <2>2. CASE RestartsLeft
    <3>1. actions' = Append(Append(actions, "detect"), "kill")
      BY <1>2, <1>a, <2>2 DEF Kill, ActionNames
    <3>2. \A a : Occurrences(a)' = Occurrences(a) + (IF "detect" = a THEN 1 ELSE 0)
                                                  + (IF "kill" = a THEN 1 ELSE 0)
      <4> DEFINE s == Append(actions, "detect")
      <4>1. s \in Seq(ActionNames) /\ "detect" \in ActionNames /\ "kill" \in ActionNames
        BY <1>a DEF ActionNames
      <4>2. \A a : Count(s, a) = Count(actions, a) + (IF "detect" = a THEN 1 ELSE 0)
        BY <1>a, <4>1, CountAppended
      <4> HIDE DEF s
      <4>3. \A a : Count(Append(s, "kill"), a) = Count(s, a) + (IF "kill" = a THEN 1 ELSE 0)
        BY <4>1, CountAppended
      <4> QED
        BY <1>b, <1>c, <3>1, <4>2, <4>3 DEF s
    <3>3. restarts' = restarts + 1 /\ at' = "starting" /\ UNCHANGED fell
      BY <1>2, <2>2 DEF Kill, Goes
    <3>4. LogInStep'
      BY <1>a, <1>b, <2>1, <3>2, <3>3 DEF LInv, LogInStep
    <3>5. RunInStep'
      BY <2>1, <3>3 DEF RunInStep
    <3>6. KillsAnswerFalls'
      BY <1>a, <1>b, <2>1, <3>2, <3>3 DEF LInv, KillsAnswerFalls
    <3> QED
      BY <3>4, <3>5, <3>6 DEF LInv
  <2>3. CASE ~RestartsLeft
    <3>1. actions' = Append(Append(Append(actions, "detect"), "kill"), "give_up")
      BY <1>2, <1>a, <2>3 DEF Kill, ActionNames
    <3>2. \A a : Occurrences(a)' = Occurrences(a) + (IF "detect" = a THEN 1 ELSE 0)
                                                  + (IF "kill" = a THEN 1 ELSE 0)
                                                  + (IF "give_up" = a THEN 1 ELSE 0)
      <4> DEFINE s == Append(actions, "detect")
                 t == Append(s, "kill")
      <4>1. /\ s \in Seq(ActionNames) /\ t \in Seq(ActionNames)
            /\ "detect" \in ActionNames /\ "kill" \in ActionNames /\ "give_up" \in ActionNames
        BY <1>a DEF ActionNames
      <4>2. \A a : Count(s, a) = Count(actions, a) + (IF "detect" = a THEN 1 ELSE 0)
        BY <1>a, <4>1, CountAppended
      <4> HIDE DEF s
      <4>3. \A a : Count(t, a) = Count(s, a) + (IF "kill" = a THEN 1 ELSE 0)
        BY <4>1, CountAppended
      <4> HIDE DEF t
      <4>4. \A a : Count(Append(t, "give_up"), a) = Count(t, a) + (IF "give_up" = a THEN 1 ELSE 0)
        BY <4>1, CountAppended
      <4> QED
        BY <1>b, <1>c, <3>1, <4>2, <4>3, <4>4 DEF s, t
    <3>3. fell' = TRUE /\ at' = "ended" /\ UNCHANGED restarts
      BY <1>2, <2>3 DEF Kill, Goes
    <3>4. restarts = MaxRestarts
      BY <2>3, WatchdogAssumption DEF RestartsLeft, IInv, TypeOK
    <3>5. LogInStep'
      BY <1>a, <1>b, <2>1, <3>2, <3>3 DEF LInv, LogInStep
    <3>6. RunInStep'
      BY <2>1, <3>3, <3>4 DEF RunInStep
    <3>7. KillsAnswerFalls'
      BY <1>a, <1>b, <2>1, <3>2, <3>3 DEF LInv, KillsAnswerFalls
    <3> QED
      BY <3>5, <3>6, <3>7 DEF LInv
  <2> QED
    BY <2>2, <2>3
<1>3. CASE Fall
  <2>1. UNCHANGED <<actions, at, tick, restarts, fell>> /\ worker = "beating"
        /\ worker' \in {"hung", "gone"} /\ Len(falls') = Len(falls) + 1
    BY <1>3, <1>a DEF Fall
  <2> QED
    BY <1>a, <1>b, <2>1, LogKept DEF LInv, LogInStep, RunInStep, KillsAnswerFalls
<1>4. CASE Check \/ Ask \/ Judge \/ Beat \/ Pass
  <2>1. UNCHANGED <<actions, worker, falls, restarts, fell>>
    BY <1>4 DEF Check, Ask, Judge, Beat, Pass, workerVars
  <2>2. /\ at \in {"starting", "ended"} => UNCHANGED <<at, tick>>
        /\ at' = "starting" => at = "starting"
        /\ at' \in {"asking", "judging", "fallen"} => tick' > 0
        /\ tick' = 0 => tick = 0
    BY <1>4, <1>a DEF Check, Ask, Judge, Beat, Pass, Goes, LInv, RunInStep
  <2>3. at \notin {"starting", "ended"} => ~fell /\ at' # "starting"
    BY <2>2 DEF LInv, RunInStep
  <2> QED
    BY <1>b, <2>1, <2>2, <2>3, LogKept DEF LInv, LogInStep, RunInStep, KillsAnswerFalls
<1>5. CASE Over \/ UNCHANGED vars
  BY <1>5, <1>b, LogKept
  DEF Over, vars, workerVars, LInv, LogInStep, RunInStep, KillsAnswerFalls
<1> QED
  BY <1>1, <1>2, <1>3, <1>4, <1>5 DEF Next, Supervise

\* For every budget, where beats come in time: every kill answers a fall of its
\* own, the log tells it, and the watchdog gives up exactly after one fall more
\* than it has restarts (_watchdog.py:98-142).
THEOREM FallsAnswered == Spec => []ActionsAnswerFalls
<1>1. IInv /\ LInv => ActionsAnswerFalls
  <2> SUFFICES ASSUME IInv, LInv PROVE ActionsAnswerFalls
    OBVIOUS
  <2>1. restarts \in Nat /\ fell \in BOOLEAN
    BY DEF IInv, TypeOK
  <2>2. Occurrences("kill") = Occurrences("detect")
    BY DEF LInv, LogInStep
  <2>3. fell <=> Occurrences("give_up") = 1
    BY <2>1 DEF LInv, LogInStep
  <2>4. fell => Occurrences("kill") = MaxRestarts + 1 /\ Occurrences("restart") = MaxRestarts
    BY <2>1, WatchdogAssumption DEF LInv, LogInStep, RunInStep
  <2>5. Occurrences("kill") \in Nat
    BY CountsOf
  <2>6. BeatEvery + Delay <= Timeout /\ fell => Len(falls) = Occurrences("kill")
    BY <2>5 DEF LInv, RunInStep, KillsAnswerFalls
  <2> QED
    BY <2>2, <2>3, <2>4, <2>6 DEF LInv, KillsAnswerFalls, ActionsAnswerFalls
<1> QED
  BY <1>1, Invariance, LInit, NextLog, PTL DEF Spec

-----------------------------------------------------------------------------
(* The web search: what the operators yield, and the invariant.            *)

\* The attempts of a search are come to in turn; the one it waits for has been
\* started, and those it no longer waits for are known to be late.
AttemptsInTurn ==
  /\ \A w \in Workers : thread[w] # "new" => w[2] <= retries[w[1]] + 1
  /\ \A c \in Callers :
       thread[Current(c)] = "new" <=>
         stage[c] \in {"idle", "preparing", "attempting", "sleeping"}
           \/ outcome[c] \in {"rejected", "raised"}
  /\ \A w \in Workers : w[2] <= retries[w[1]] /\ thread[w] # "finished" => w \in late

\* What a worker has sent, and that it leaves nothing before it finishes.
WorkersInStep ==
  \A w \in Workers :
    /\ thread[w] # "finished" => error[w] = NoError /\ box[w] = <<>> /\ w \notin queued
    /\ thread[w] \in {"new", "started"} => requests[w] = 0
    /\ thread[w] \in {"asking", "sleeping"} => requests[w] > 0
    /\ thread[w] = "sleeping" => config.gatekept /\ requests[w] <= MaxRetries
    /\ requests[w] <= (IF config.gatekept THEN MaxRetries + 1 ELSE 1)

\* What a worker leaves is its own; one that sent nothing was queued or refused.
BoxesInStep ==
  \A w \in Workers :
    /\ \A i \in DOMAIN box[w] : box[w][i].url = w
    /\ Len(box[w]) <= MaxResults
    /\ w \in queued => error[w] = NoError
    /\ thread[w] = "finished" /\ requests[w] = 0 => w \in queued \/ error[w] = "QueueFullError"

\* Who may hold the slots a search is starved by.
OthersBusy(c) == {w \in Workers : requests[w] > 0 /\ (w \in late \/ w[1] # c)}
QueuedStarved ==
  \A c \in Callers : Current(c) \in queued =>
    Cardinality(OthersBusy(c)) >= ConcurrentMax \/ admitted >= PerMinute

RetryEvent == [type |-> "retry", results |-> 0]
TimeoutEvent == [type |-> "timeout", results |-> 0]
CallEvent(n) == [type |-> "tool_call", results |-> n]

\* Before it is answered a search has logged its retries and nothing else.
SearchesInStep ==
  \A c \in Callers :
    /\ outcome[c] = "pending" <=> stage[c] # "done"
    /\ stage[c] \in {"idle", "preparing"} \/ outcome[c] \in {"rejected", "raised"} =>
         retries[c] = 0
    /\ Len(log[c]) >= retries[c] /\ \A i \in 1 .. retries[c] : log[c][i] = RetryEvent
    /\ outcome[c] # "returned" => result[c] = <<>> /\ Len(log[c]) = retries[c]

\* The two ways in which a search is answered.
ServedWell(c) ==
  /\ Len(log[c]) = retries[c] + 1
  /\ thread[Current(c)] = "finished" /\ error[Current(c)] = NoError
  /\ Len(result[c]) = Len(box[Current(c)])
  /\ \A i \in DOMAIN result[c] : result[c][i].url = Current(c)
ServedNothing(c) ==
  /\ Len(log[c]) = retries[c] + 2 /\ log[c][retries[c] + 1] = TimeoutEvent
  /\ result[c] = <<>>
  /\ retries[c] = MaxRetries \/ error[Current(c)] \notin Transient \cup {NoError}
AnswersInStep ==
  \A c \in Callers : outcome[c] = "returned" =>
    /\ log[c][Len(log[c])] = CallEvent(Len(result[c]))
    /\ ServedWell(c) \/ ServedNothing(c)

-----------------------------------------------------------------------------
LEMMA SearchConstants ==
  /\ MaxRetries \in Nat /\ ConcurrentMax \in Nat \ {0} /\ MaxResults \in Nat
  /\ IsFiniteSet(Callers)
  /\ Attempts = 1 .. MaxRetries + 1 /\ Workers = Callers \X Attempts
  /\ \A w \in Workers : w = <<w[1], w[2]>> /\ w[1] \in Callers /\ w[2] \in Attempts
  BY SearchCallAssumption DEF Attempts, Workers

LEMMA CurrentIsWorker ==
  ASSUME SearchTypeOK, NEW c \in Callers
  PROVE  Current(c) \in Workers /\ Current(c)[1] = c /\ Current(c)[2] = retries[c] + 1
<1>1. retries[c] \in 0 .. MaxRetries
  BY DEF SearchTypeOK
<1> QED
  BY <1>1, SearchConstants DEF Current

RawHits == [title : RawTexts, snippet : RawTexts]

LEMMA SanitisedIsSafe ==
  ASSUME NEW text \in RawTexts
  PROVE  SanitizeUntrustedText(text) \in SafeTexts
  BY DEF RawTexts, SafeTexts, SanitizeUntrustedText, CapLength, NeutraliseInjections,
     NormaliseText

\* What the provider finds: hits of the worker that asked, no more than wanted.
LEMMA FoundTyped ==
  ASSUME NEW page \in Found
  PROVE  page \in Seq(RawHits) /\ Len(page) <= MaxResults
<1>1. CASE config.search_backend = "tavily"
  <2> DEFINE n == IF MaxResults < 3 THEN MaxResults ELSE 3
  <2>1. page = SubSeq(Stub, 1, n) /\ n \in 0 .. 3 /\ n <= MaxResults
    BY <1>1, SearchConstants DEF Found
  <2>2. \A i \in 1 .. 3 : Stub[i] \in RawHits
    BY DEF Stub, RawTexts, RawHits
  <2> HIDE DEF n
  <2>3. SubSeq(Stub, 1, n) \in Seq(RawHits) /\ Len(SubSeq(Stub, 1, n)) = n
    BY <2>1, <2>2, SubSeqProperties
  <2> QED
    BY <2>1, <2>3
<1>2. CASE config.search_backend # "tavily"
  BY <1>2, SearchCallAssumption DEF Found, RawHits
<1> QED
  BY <1>1, <1>2

LEMMA HitsTyped ==
  ASSUME NEW w \in Workers, NEW page \in Found
  PROVE  /\ HitsOf(w, page) \in Seq(Hits) /\ Len(HitsOf(w, page)) <= MaxResults
         /\ \A i \in DOMAIN HitsOf(w, page) : HitsOf(w, page)[i].url = w
<1> DEFINE t == HitsOf(w, page)
<1>0. page \in Seq(RawHits) /\ Len(page) <= MaxResults
  BY FoundTyped
<1>1. /\ Len(page) \in Nat /\ DOMAIN page = 1 .. Len(page) /\ Len(page) <= MaxResults
      /\ \A i \in 1 .. Len(page) : page[i] \in RawHits
  BY <1>0
<1>2. t = [i \in 1 .. Len(page) |->
             [url |-> w, title |-> page[i].title, snippet |-> page[i].snippet]]
  BY <1>1 DEF HitsOf
<1>3. \A i \in 1 .. Len(page) : t[i] \in Hits /\ t[i].url = w
  BY <1>1, <1>2 DEF Hits, RawHits
<1>4. t \in [1 .. Len(page) -> Hits]
  BY <1>2, <1>3
<1> HIDE DEF t
<1>5. t \in Seq(Hits) /\ Len(t) = Len(page) /\ DOMAIN t = 1 .. Len(page)
  BY <1>1, <1>4
<1> QED
  BY <1>1, <1>3, <1>5 DEF t

\* What a search delivers: the hits, sanitised, one for one.
LEMMA DeliveredTyped ==
  ASSUME NEW hits \in Seq(Hits)
  PROVE  LET given == [i \in DOMAIN hits |-> SanitizeSearchResult(hits[i])]
         IN  /\ given \in Seq(SafeHits) /\ Len(given) = Len(hits)
             /\ DOMAIN given = DOMAIN hits
             /\ \A i \in DOMAIN hits : given[i].url = hits[i].url
<1> DEFINE given == [i \in DOMAIN hits |-> SanitizeSearchResult(hits[i])]
<1>1. Len(hits) \in Nat /\ DOMAIN hits = 1 .. Len(hits) /\ \A i \in 1 .. Len(hits) : hits[i] \in Hits
  OBVIOUS
<1>2. \A h \in Hits : SanitizeSearchResult(h) \in SafeHits /\ SanitizeSearchResult(h).url = h.url
  BY SanitisedIsSafe DEF SanitizeSearchResult, Hits, SafeHits
<1>3. given \in [1 .. Len(hits) -> SafeHits] /\ \A i \in DOMAIN hits : given[i].url = hits[i].url
  BY <1>1, <1>2
<1> HIDE DEF given
<1>4. given \in Seq(SafeHits) /\ Len(given) = Len(hits) /\ DOMAIN given = 1 .. Len(hits)
  BY <1>1, <1>3
<1> QED
  BY <1>1, <1>3, <1>4 DEF given

-----------------------------------------------------------------------------
(* The search's workers keep what ties them to their cells.                *)

WInv == SearchTypeOK /\ WorkersInStep /\ BoxesInStep

SInv == WInv /\ AttemptsInTurn /\ SearchesInStep

LEMMA TypesOfSearch ==
  ASSUME SearchTypeOK
  PROVE  /\ stage \in [Callers -> {"idle", "preparing", "attempting", "joining", "sleeping", "done"}]
         /\ retries \in [Callers -> 0 .. MaxRetries] /\ result \in [Callers -> Seq(SafeHits)]
         /\ outcome \in [Callers -> {"pending", "rejected", "raised", "returned"}]
         /\ log \in [Callers -> Seq(Events)] /\ late \subseteq Workers
         /\ thread \in [Workers -> {"new", "started", "asking", "sleeping", "finished"}]
         /\ requests \in [Workers -> 0 .. MaxRetries + 1]
         /\ box \in [Workers -> Seq(Hits)]
         /\ DOMAIN error = Workers
         /\ admitted \in Nat /\ queued \subseteq Workers
         /\ \A c \in Callers : retries[c] \in 0 .. MaxRetries /\ log[c] \in Seq(Events)
         /\ \A w \in Workers : requests[w] \in Nat /\ box[w] \in Seq(Hits)
  BY DEF SearchTypeOK

LEMMA WInit == SearchInit => WInv
<1> SUFFICES ASSUME SearchInit PROVE WInv
  OBVIOUS
<1>1. /\ result \in [Callers -> Seq(SafeHits)] /\ log \in [Callers -> Seq(Events)]
      /\ box \in [Workers -> Seq(Hits)] /\ \A w \in Workers : box[w] = <<>>
  <2>1. <<>> \in Seq(SafeHits) /\ <<>> \in Seq(Events) /\ <<>> \in Seq(Hits)
    OBVIOUS
  <2> QED
    BY <2>1 DEF SearchInit
<1>2. query \in [Callers -> SearchQueryInput]
  BY DEF SearchInit, SearchQueryInput, TextInput
<1>3. retries \in [Callers -> 0 .. MaxRetries] /\ requests \in [Workers -> 0 .. MaxRetries + 1]
  BY SearchConstants DEF SearchInit
<1>4. SearchTypeOK
  BY <1>1, <1>2, <1>3 DEF SearchInit, SearchTypeOK
<1>5. BoxesInStep /\ WorkersInStep
  BY <1>1, SearchConstants DEF SearchInit, BoxesInStep, WorkersInStep
<1> QED
  BY <1>4, <1>5 DEF WInv

\* The steps of a worker change the workers' variables only.
LEMMA WorkerTyped ==
  ASSUME WInv, UNCHANGED <<askVars, callerVars>>,
         thread' \in [Workers -> {"new", "started", "asking", "sleeping", "finished"}],
         requests' \in [Workers -> 0 .. MaxRetries + 1],
         box' \in [Workers -> Seq(Hits)],
         error' \in [Workers -> ProviderErrors \cup {NoError, "QueueFullError", "ValueError"}],
         admitted' \in Nat, queued' \subseteq Workers
  PROVE  SearchTypeOK'
  BY DEF WInv, SearchTypeOK, askVars, callerVars

\* The steps of a caller leave what the workers left.
LEMMA CallerKeepsBoxes ==
  ASSUME WInv, UNCHANGED <<requests, box, error, gateVars>>,
         \A w \in Workers : thread'[w] = thread[w] \/ thread'[w] # "finished"
  PROVE  BoxesInStep'
  BY DEF WInv, BoxesInStep, gateVars

LEMMA ReturnsTyped ==
  ASSUME WInv, NEW w \in Workers, NEW hits \in Seq(Hits), Returns(w, hits)
  PROVE  /\ thread' \in [Workers -> {"new", "started", "asking", "sleeping", "finished"}]
         /\ box' \in [Workers -> Seq(Hits)] /\ error' = error
         /\ error' \in [Workers -> ProviderErrors \cup {NoError, "QueueFullError", "ValueError"}]
         /\ thread'[w] = "finished" /\ box'[w] = hits
         /\ \A v \in Workers : v # w => thread'[v] = thread[v] /\ box'[v] = box[v]
  BY DEF WInv, SearchTypeOK, Returns, CellOf

LEMMA RaisesTyped ==
  ASSUME WInv, NEW w \in Workers,
         NEW e \in ProviderErrors \cup {"QueueFullError", "ValueError"}, Raises(w, e)
  PROVE  /\ thread' \in [Workers -> {"new", "started", "asking", "sleeping", "finished"}]
         /\ box' = box /\ box' \in [Workers -> Seq(Hits)]
         /\ error' \in [Workers -> ProviderErrors \cup {NoError, "QueueFullError", "ValueError"}]
         /\ thread'[w] = "finished" /\ error'[w] = e
         /\ \A v \in Workers : v # w => thread'[v] = thread[v] /\ error'[v] = error[v]
  BY DEF WInv, SearchTypeOK, Raises, CellOf

LEMMA SendsTyped ==
  ASSUME WInv, NEW w \in Workers, Sends(w), requests[w] <= MaxRetries
  PROVE  /\ thread' \in [Workers -> {"new", "started", "asking", "sleeping", "finished"}]
         /\ requests' \in [Workers -> 0 .. MaxRetries + 1]
         /\ UNCHANGED <<box, error>>
         /\ thread'[w] = "asking" /\ requests'[w] = requests[w] + 1
         /\ \A v \in Workers : v # w => thread'[v] = thread[v] /\ requests'[v] = requests[v]
<1>1. requests[w] + 1 \in 0 .. MaxRetries + 1
  BY SearchConstants DEF WInv, SearchTypeOK
<1> QED
  BY <1>1 DEF WInv, SearchTypeOK, Sends

\* A request more, sent by a worker that may send it.
LEMMA SendsKeeps ==
  ASSUME WInv, NEW w \in Workers, Sends(w), thread[w] \in {"started", "sleeping"},
         requests[w] <= MaxRetries, ~config.gatekept => requests[w] = 0,
         UNCHANGED <<askVars, callerVars>>, admitted' \in Nat, queued' = queued
  PROVE  WInv'
<1>1. /\ thread' \in [Workers -> {"new", "started", "asking", "sleeping", "finished"}]
      /\ requests' \in [Workers -> 0 .. MaxRetries + 1]
      /\ UNCHANGED <<box, error>>
      /\ thread'[w] = "asking" /\ requests'[w] = requests[w] + 1
      /\ \A v \in Workers : v # w => thread'[v] = thread[v] /\ requests'[v] = requests[v]
  BY SendsTyped
<1>2. SearchTypeOK'
  BY <1>1 DEF WInv, SearchTypeOK, askVars, callerVars
<1>3. requests[w] \in Nat /\ MaxRetries \in Nat /\ config' = config
  BY SearchConstants DEF WInv, SearchTypeOK, askVars
<1>4. WorkersInStep'
  BY <1>1, <1>3 DEF WInv, WorkersInStep
<1>5. BoxesInStep'
  <2>1. \A v \in Workers : thread'[v] = "finished" => thread[v] = "finished" /\ requests'[v] = requests[v]
    BY <1>1
  <2> QED
    BY <1>1, <2>1 DEF WInv, BoxesInStep
<1> QED
  BY <1>2, <1>4, <1>5 DEF WInv

LEMMA AskDirectlyKeeps == ASSUME SInv, NEW w \in Workers, AskDirectly(w) PROVE WInv'
<1>1. requests[w] = 0 /\ admitted \in Nat
  BY DEF AskDirectly, SInv, WInv, WorkersInStep, SearchTypeOK
<1> QED
  BY <1>1, SearchConstants, SendsKeeps DEF AskDirectly, SInv, gateVars

LEMMA AdmitKeeps == ASSUME SInv, NEW w \in Workers, Admit(w) PROVE WInv'
<1>1. requests[w] = 0 /\ admitted' \in Nat
  BY DEF Admit, SInv, WInv, WorkersInStep, SearchTypeOK
<1> QED
  BY <1>1, SearchConstants, SendsKeeps DEF Admit, SInv

LEMMA SendAgainKeeps == ASSUME SInv, NEW w \in Workers, SendAgain(w) PROVE WInv'
<1>1. requests[w] <= MaxRetries /\ config.gatekept /\ admitted \in Nat
  BY DEF SendAgain, SInv, WInv, WorkersInStep, SearchTypeOK
<1> QED
  BY <1>1, SendsKeeps DEF SendAgain, SInv, gateVars

LEMMA BackOffKeeps == ASSUME SInv, NEW w \in Workers, BackOff(w) PROVE WInv'
<1>1. /\ thread' = [thread EXCEPT ![w] = "sleeping"] /\ thread[w] = "asking"
      /\ config.gatekept /\ requests[w] <= MaxRetries
      /\ UNCHANGED <<config, requests, box, error, queued, admitted>>
  BY DEF BackOff, RequestsLeft, askVars, gateVars
<1>2. /\ thread'[w] = "sleeping" /\ \A v \in Workers : v # w => thread'[v] = thread[v]
      /\ thread' \in [Workers -> {"new", "started", "asking", "sleeping", "finished"}]
  BY <1>1 DEF SInv, WInv, SearchTypeOK
<1>3. SearchTypeOK'
  BY <1>2 DEF BackOff, SInv, WInv, SearchTypeOK, askVars, callerVars, gateVars
<1>4. WorkersInStep'
  BY <1>1, <1>2 DEF SInv, WInv, WorkersInStep
<1>5. BoxesInStep'
  <2>1. \A v \in Workers : thread'[v] = "finished" => thread[v] = "finished"
    BY <1>2
  <2> QED
    BY <1>1, <2>1 DEF SInv, WInv, BoxesInStep
<1> QED
  BY <1>3, <1>4, <1>5 DEF WInv

\* A worker that finishes with hits of its own.
LEMMA ReturnsKeeps ==
  ASSUME WInv, NEW w \in Workers, NEW hits \in Seq(Hits), Returns(w, hits),
         thread[w] \in {"started", "asking"},
         Len(hits) <= MaxResults, \A i \in DOMAIN hits : hits[i].url = w,
         UNCHANGED <<askVars, callerVars, requests, admitted>>,
         queued' = queued \/ queued' = queued \cup {w},
         requests[w] = 0 => w \in queued'
  PROVE  WInv'
<1>1. /\ thread' \in [Workers -> {"new", "started", "asking", "sleeping", "finished"}]
      /\ box' \in [Workers -> Seq(Hits)] /\ error' = error
      /\ thread'[w] = "finished" /\ box'[w] = hits
      /\ \A v \in Workers : v # w => thread'[v] = thread[v] /\ box'[v] = box[v]
  BY ReturnsTyped
<1>2. UNCHANGED <<config, requests, admitted>> /\ error[w] = NoError /\ queued' \subseteq Workers
      /\ \A v \in Workers : v # w => (v \in queued' <=> v \in queued)
  BY DEF askVars, WInv, WorkersInStep, SearchTypeOK
<1>3. SearchTypeOK'
  BY <1>1, <1>2 DEF WInv, SearchTypeOK, askVars, callerVars
<1>4. WorkersInStep'
  BY <1>1, <1>2 DEF WInv, WorkersInStep
<1>5. BoxesInStep'
  <2>1. ASSUME NEW v \in Workers, v # w
        PROVE  /\ \A i \in DOMAIN box'[v] : box'[v][i].url = v
               /\ Len(box'[v]) <= MaxResults
               /\ v \in queued' => error'[v] = NoError
               /\ thread'[v] = "finished" /\ requests'[v] = 0 =>
                    v \in queued' \/ error'[v] = "QueueFullError"
    BY <1>1, <1>2, <2>1 DEF WInv, BoxesInStep
  <2> QED
    BY <1>1, <1>2, <2>1 DEF BoxesInStep
<1> QED
  BY <1>3, <1>4, <1>5 DEF WInv

LEMMA QueueKeeps == ASSUME SInv, NEW w \in Workers, Queue(w) PROVE WInv'
<1>1. <<>> \in Seq(Hits) /\ Len(<<>>) <= MaxResults /\ DOMAIN <<>> = {}
  BY SearchConstants
<1> QED
  BY <1>1, ReturnsKeeps DEF Queue, SInv

LEMMA AnswerKeeps == ASSUME SInv, NEW w \in Workers, Answer(w) PROVE WInv'
<1>1. PICK page \in Found : Returns(w, HitsOf(w, page))
  BY DEF Answer
<1>2. /\ HitsOf(w, page) \in Seq(Hits) /\ Len(HitsOf(w, page)) <= MaxResults
      /\ \A i \in DOMAIN HitsOf(w, page) : HitsOf(w, page)[i].url = w
  BY HitsTyped
<1>3. requests[w] # 0
  BY DEF Answer, SInv, WInv, WorkersInStep
<1> QED
  BY <1>1, <1>2, <1>3, ReturnsKeeps DEF Answer, SInv, gateVars

\* A worker that finishes with an exception.
LEMMA RaisesKeeps ==
  ASSUME WInv, NEW w \in Workers, thread[w] \in {"started", "asking"},
         NEW e \in ProviderErrors \cup {"QueueFullError", "ValueError"}, Raises(w, e),
         UNCHANGED <<askVars, callerVars, requests, gateVars>>,
         requests[w] = 0 => e = "QueueFullError"
  PROVE  WInv'
<1>1. /\ thread' \in [Workers -> {"new", "started", "asking", "sleeping", "finished"}]
      /\ box' = box
      /\ error' \in [Workers -> ProviderErrors \cup {NoError, "QueueFullError", "ValueError"}]
      /\ thread'[w] = "finished" /\ error'[w] = e
      /\ \A v \in Workers : v # w => thread'[v] = thread[v] /\ error'[v] = error[v]
  BY RaisesTyped
<1>2. UNCHANGED <<config, requests, admitted, queued>> /\ w \notin queued
  BY DEF askVars, gateVars, WInv, WorkersInStep
<1>3. SearchTypeOK'
  BY <1>1, <1>2 DEF WInv, SearchTypeOK, askVars, callerVars
<1>4. WorkersInStep'
  BY <1>1, <1>2 DEF WInv, WorkersInStep
<1>5. BoxesInStep'
  BY <1>1, <1>2 DEF WInv, BoxesInStep
<1> QED
  BY <1>3, <1>4, <1>5 DEF WInv

LEMMA RefuseCallKeeps == ASSUME SInv, NEW w \in Workers, RefuseCall(w) PROVE WInv'
  BY RaisesKeeps DEF RefuseCall, SInv

LEMMA ExceptionsTyped == Exceptions \subseteq ProviderErrors \cup {"ValueError"}
  BY DEF Exceptions

LEMMA FailKeeps == ASSUME SInv, NEW w \in Workers, Fail(w) PROVE WInv'
<1>1. PICK e \in Exceptions : Raises(w, e)
  BY DEF Fail
<1>2. requests[w] # 0
  BY DEF Fail, SInv, WInv, WorkersInStep
<1> QED
  BY <1>1, <1>2, ExceptionsTyped, RaisesKeeps DEF Fail, SInv

-----------------------------------------------------------------------------
(* So do its callers, and the attempts are come to in turn.                *)

\* Steps of a caller that start no worker: what workers left is untouched.
LEMMA CallerTyped ==
  ASSUME WInv, UNCHANGED <<config, threadVars, gateVars>>,
         query' \in [Callers -> SearchQueryInput],
         stage' \in [Callers -> {"idle", "preparing", "attempting", "joining", "sleeping", "done"}],
         retries' \in [Callers -> 0 .. MaxRetries], result' \in [Callers -> Seq(SafeHits)],
         outcome' \in [Callers -> {"pending", "rejected", "raised", "returned"}],
         log' \in [Callers -> Seq(Events)], late' \subseteq Workers
  PROVE  WInv'
<1>1. UNCHANGED <<config, thread, requests, box, error, admitted, queued>>
  BY DEF threadVars, gateVars
<1>2. SearchTypeOK'
  BY <1>1 DEF WInv, SearchTypeOK
<1>3. WorkersInStep' /\ BoxesInStep'
  BY <1>1 DEF WInv, WorkersInStep, BoxesInStep
<1> QED
  BY <1>2, <1>3 DEF WInv

LEMMA BeginKeeps == ASSUME SInv, NEW c \in Callers, Begin(c) PROVE WInv'
  BY CallerTyped DEF Begin, Moves, SInv, WInv, SearchTypeOK

LEMMA PrepareKeeps == ASSUME SInv, NEW c \in Callers, Prepare(c) PROVE WInv'
<1>1. /\ stage' \in [Callers -> {"idle", "preparing", "attempting", "joining", "sleeping", "done"}]
      /\ outcome' \in [Callers -> {"pending", "rejected", "raised", "returned"}]
  BY DEF Prepare, Ends, Moves, SInv, WInv, SearchTypeOK
<1> QED
  BY <1>1, CallerTyped DEF Prepare, SInv, WInv, SearchTypeOK, askVars

LEMMA WakeKeeps == ASSUME SInv, NEW c \in Callers, Wake(c) PROVE WInv'
  BY CallerTyped DEF Wake, Moves, SInv, WInv, SearchTypeOK, askVars

LEMMA LateTyped ==
  ASSUME WInv, NEW c \in Callers, GiveUp(c)
  PROVE  late' \subseteq Workers
  BY CurrentIsWorker DEF GiveUp, WInv, SearchTypeOK

LEMMA EventsTyped ==
  /\ RetryEvent \in Events /\ TimeoutEvent \in Events
  /\ \A n \in 0 .. MaxResults : CallEvent(n) \in Events
  BY SearchConstants DEF RetryEvent, TimeoutEvent, CallEvent, Events

LEMMA RetryKeeps == ASSUME SInv, NEW c \in Callers, Retry(c) PROVE WInv'
<1>1. stage' \in [Callers -> {"idle", "preparing", "attempting", "joining", "sleeping", "done"}]
  BY DEF Retry, Moves, SInv, WInv, SearchTypeOK
<1>2. retries' \in [Callers -> 0 .. MaxRetries]
  <2>1. retries[c] + 1 \in 0 .. MaxRetries
    BY SearchConstants DEF Retry, RetriesLeft, SInv, WInv, SearchTypeOK
  <2> QED
    BY <2>1 DEF Retry, SInv, WInv, SearchTypeOK
<1>3. log' \in [Callers -> Seq(Events)]
  <2>1. <<RetryEvent>> \in Seq(Events) /\ log[c] \in Seq(Events)
    BY EventsTyped DEF SInv, WInv, SearchTypeOK
  <2>2. log[c] \o <<RetryEvent>> \in Seq(Events)
    BY <2>1
  <2>3. log' = [log EXCEPT ![c] = log[c] \o <<RetryEvent>>]
    BY DEF Retry, Logs, RetryEvent
  <2> QED
    BY <2>2, <2>3 DEF SInv, WInv, SearchTypeOK
<1>4. late' \subseteq Workers
  BY LateTyped DEF Retry, SInv
<1> QED
  BY <1>1, <1>2, <1>3, <1>4, CallerTyped DEF Retry, SInv, WInv, SearchTypeOK, askVars

\* What a search that is served is given and logs.
LEMMA DeliversTyped ==
  ASSUME WInv, NEW c \in Callers, NEW hits \in Seq(Hits), Len(hits) <= MaxResults,
         NEW events, events \in {<<>>, <<TimeoutEvent>>}, Delivers(c, hits, events)
  PROVE  /\ result' \in [Callers -> Seq(SafeHits)] /\ log' \in [Callers -> Seq(Events)]
         /\ outcome' \in [Callers -> {"pending", "rejected", "raised", "returned"}]
         /\ stage' \in [Callers -> {"idle", "preparing", "attempting", "joining", "sleeping", "done"}]
         /\ Len(result'[c]) = Len(hits) /\ DOMAIN result'[c] = DOMAIN hits
         /\ \A i \in DOMAIN hits : result'[c][i].url = hits[i].url
         /\ log'[c] = log[c] \o Append(events, CallEvent(Len(hits)))
         /\ outcome'[c] = "returned" /\ stage'[c] = "done"
         /\ \A d \in Callers : d # c =>
              /\ result'[d] = result[d] /\ log'[d] = log[d]
              /\ outcome'[d] = outcome[d] /\ stage'[d] = stage[d]
<1> DEFINE given == [i \in DOMAIN hits |-> SanitizeSearchResult(hits[i])]
           told == Append(events, CallEvent(Len(hits)))
<1>1. /\ result' = [result EXCEPT ![c] = given] /\ log' = [log EXCEPT ![c] = log[c] \o told]
      /\ outcome' = [outcome EXCEPT ![c] = "returned"] /\ stage' = [stage EXCEPT ![c] = "done"]
  BY DEF Delivers, Logs, Ends, Moves, CallEvent
<1>2. /\ given \in Seq(SafeHits) /\ Len(given) = Len(hits) /\ DOMAIN given = DOMAIN hits
      /\ \A i \in DOMAIN hits : given[i].url = hits[i].url
  BY DeliveredTyped
<1>3. told \in Seq(Events)
  <2>1. Len(hits) \in 0 .. MaxResults
    BY SearchConstants
  <2>2. CallEvent(Len(hits)) \in Events /\ TimeoutEvent \in Events
    BY <2>1, EventsTyped
  <2>3. <<>> \in Seq(Events) /\ <<TimeoutEvent>> \in Seq(Events)
    BY <2>2
  <2>4. events \in Seq(Events)
    BY <2>3
  <2> DEFINE e == CallEvent(Len(hits))
  <2> HIDE DEF e
  <2>5. Append(events, e) \in Seq(Events)
    BY <2>2, <2>4 DEF e
  <2> QED
    BY <2>5 DEF e
<1> HIDE DEF given, told
<1>4. log[c] \o told \in Seq(Events)
  BY <1>3 DEF WInv, SearchTypeOK
<1> QED
  BY <1>1, <1>2, <1>4 DEF WInv, SearchTypeOK, told

LEMMA CollectKeeps == ASSUME SInv, NEW c \in Callers, Collect(c) PROVE WInv'
<1> DEFINE hits == box[Current(c)]
<1>1. hits \in Seq(Hits) /\ Len(hits) <= MaxResults
  BY CurrentIsWorker DEF SInv, WInv, SearchTypeOK, BoxesInStep
<1>2. Delivers(c, hits, <<>>)
  BY DEF Collect, CellOf
<1> HIDE DEF hits
<1>3. /\ result' \in [Callers -> Seq(SafeHits)] /\ log' \in [Callers -> Seq(Events)]
      /\ outcome' \in [Callers -> {"pending", "rejected", "raised", "returned"}]
      /\ stage' \in [Callers -> {"idle", "preparing", "attempting", "joining", "sleeping", "done"}]
  BY <1>1, <1>2, DeliversTyped DEF SInv
<1> QED
  BY <1>3, CallerTyped DEF Collect, SInv, WInv, SearchTypeOK, askVars

LEMMA DegradeKeeps == ASSUME SInv, NEW c \in Callers, Degrade(c) PROVE WInv'
<1>1. <<>> \in Seq(Hits) /\ Len(<<>>) <= MaxResults
  BY SearchConstants
<1>2. Delivers(c, <<>>, <<TimeoutEvent>>)
  BY DEF Degrade, Degraded, TimeoutEvent
<1>3. /\ result' \in [Callers -> Seq(SafeHits)] /\ log' \in [Callers -> Seq(Events)]
      /\ outcome' \in [Callers -> {"pending", "rejected", "raised", "returned"}]
      /\ stage' \in [Callers -> {"idle", "preparing", "attempting", "joining", "sleeping", "done"}]
  BY <1>1, <1>2, DeliversTyped DEF SInv
<1>4. late' \subseteq Workers
  BY LateTyped DEF Degrade, SInv
<1> QED
  BY <1>3, <1>4, CallerTyped DEF Degrade, SInv, WInv, SearchTypeOK, askVars

\* A worker is started that was not there: it has done nothing yet.
LEMMA AttemptKeeps == ASSUME SInv, NEW c \in Callers, Attempt(c) PROVE WInv'
<1> DEFINE w == Current(c)
<1>1. w \in Workers /\ thread[w] = "new"
  BY CurrentIsWorker DEF Attempt, SInv, WInv, AttemptsInTurn
<1> HIDE DEF w
<1>2. /\ thread' = [thread EXCEPT ![w] = "started"]
      /\ UNCHANGED <<config, query, retries, result, outcome, log, late, requests, box, error,
                     admitted, queued>>
  BY DEF Attempt, askVars, gateVars, w
<1>3. /\ thread' \in [Workers -> {"new", "started", "asking", "sleeping", "finished"}]
      /\ thread'[w] = "started" /\ \A v \in Workers : v # w => thread'[v] = thread[v]
  BY <1>1, <1>2 DEF SInv, WInv, SearchTypeOK
<1>4. SearchTypeOK'
  BY <1>2, <1>3 DEF Attempt, Moves, SInv, WInv, SearchTypeOK
<1>5. WorkersInStep'
  BY <1>1, <1>2, <1>3 DEF SInv, WInv, WorkersInStep
<1>6. BoxesInStep'
  <2>1. \A v \in Workers : thread'[v] = "finished" => thread[v] = "finished"
    BY <1>3
  <2> QED
    BY <1>2, <2>1 DEF SInv, WInv, BoxesInStep
<1> QED
  BY <1>4, <1>5, <1>6 DEF WInv

TurnInv == AttemptsInTurn /\ SearchesInStep

\* The workers' steps keep the callers where they are.
LEMMA WorkerKeepsTurn ==
  ASSUME SInv, NEW w \in Workers, Worker(w)
  PROVE  /\ UNCHANGED <<askVars, callerVars>>
         /\ \A v \in Workers : thread'[v] = "new" <=> thread[v] = "new"
         /\ \A v \in Workers : thread[v] = "finished" =>
              thread'[v] = "finished" /\ error'[v] = error[v] /\ box'[v] = box[v]
         /\ TurnInv'
<1>1. /\ UNCHANGED <<askVars, callerVars>>
      /\ \A v \in Workers : v # w => thread'[v] = thread[v] /\ error'[v] = error[v] /\ box'[v] = box[v]
      /\ thread[w] \in {"started", "asking", "sleeping"} /\ thread'[w] # "new"
  BY DEF Worker, AskDirectly, Admit, Queue, RefuseCall, Answer, BackOff, SendAgain, Fail, Sends,
     Returns, Raises, CellOf, SInv, WInv, SearchTypeOK
<1>2. UNCHANGED <<stage, retries, result, outcome, log, late>>
      /\ \A c \in Callers : Current(c)' = Current(c) /\ Current(c) \in Workers
  BY <1>1, CurrentIsWorker DEF callerVars, Current, SInv, WInv
<1>3. AttemptsInTurn'
  BY <1>1, <1>2 DEF SInv, AttemptsInTurn
<1>4. SearchesInStep'
  BY <1>2 DEF SInv, SearchesInStep
<1> QED
  BY <1>1, <1>3, <1>4 DEF TurnInv

\* Steps that keep the number of a caller's attempt.
LEMMA SameAttempts ==
  ASSUME SInv, UNCHANGED retries
  PROVE  \A c \in Callers : Current(c)' = Current(c) /\ Current(c) \in Workers
  BY CurrentIsWorker DEF Current, SInv, WInv

LEMMA BeginTurn == ASSUME SInv, NEW c \in Callers, Begin(c) PROVE TurnInv'
<1>1. /\ stage[c] = "idle" /\ UNCHANGED <<retries, result, outcome, log, late, thread>>
      /\ stage'[c] = "preparing" /\ \A d \in Callers : d # c => stage'[d] = stage[d]
  BY DEF Begin, Moves, threadVars, SInv, WInv, SearchTypeOK
<1>2. AttemptsInTurn'
  BY <1>1, SameAttempts DEF SInv, AttemptsInTurn
<1>3. SearchesInStep'
  BY <1>1 DEF SInv, SearchesInStep
<1> QED
  BY <1>2, <1>3 DEF TurnInv

LEMMA PrepareTurn == ASSUME SInv, NEW c \in Callers, Prepare(c) PROVE TurnInv'
<1>1. /\ stage[c] = "preparing" /\ UNCHANGED <<retries, result, log, late, thread>>
      /\ \/ stage'[c] = "done" /\ outcome'[c] \in {"rejected", "raised"}
         \/ stage'[c] = "attempting" /\ outcome'[c] = outcome[c]
      /\ \A d \in Callers : d # c => stage'[d] = stage[d] /\ outcome'[d] = outcome[d]
  BY DEF Prepare, Ends, Moves, threadVars, SInv, WInv, SearchTypeOK
<1>2. outcome[c] = "pending"
  BY <1>1 DEF SInv, SearchesInStep
<1>3. AttemptsInTurn'
  BY <1>1, <1>2, SameAttempts DEF SInv, AttemptsInTurn
<1>4. SearchesInStep'
  BY <1>1, <1>2 DEF SInv, SearchesInStep
<1> QED
  BY <1>3, <1>4 DEF TurnInv

LEMMA AttemptTurn == ASSUME SInv, NEW c \in Callers, Attempt(c) PROVE TurnInv'
<1>1. /\ stage[c] = "attempting" /\ UNCHANGED <<retries, result, log, late, outcome>>
      /\ stage'[c] = "joining" /\ \A d \in Callers : d # c => stage'[d] = stage[d]
  BY DEF Attempt, Moves, SInv, WInv, SearchTypeOK
<1>2. /\ thread'[Current(c)] = "started"
      /\ \A v \in Workers : v # Current(c) => thread'[v] = thread[v]
  BY CurrentIsWorker DEF Attempt, SInv, WInv, SearchTypeOK
<1>3. outcome[c] = "pending" /\ retries[c] \in Nat
  BY <1>1, SearchConstants DEF SInv, WInv, SearchTypeOK, SearchesInStep
<1>4. \A d \in Callers : Current(d)[1] = d /\ Current(d)[2] = retries[d] + 1
  BY DEF Current
<1>5. AttemptsInTurn'
  BY <1>1, <1>2, <1>3, <1>4, SameAttempts DEF SInv, AttemptsInTurn
<1>6. SearchesInStep'
  BY <1>1 DEF SInv, SearchesInStep
<1> QED
  BY <1>5, <1>6 DEF TurnInv

LEMMA WakeTurn == ASSUME SInv, NEW c \in Callers, Wake(c) PROVE TurnInv'
<1>1. /\ stage[c] = "sleeping" /\ UNCHANGED <<retries, result, outcome, log, late, thread>>
      /\ stage'[c] = "attempting" /\ \A d \in Callers : d # c => stage'[d] = stage[d]
  BY DEF Wake, Moves, threadVars, SInv, WInv, SearchTypeOK
<1>2. AttemptsInTurn'
  BY <1>1, SameAttempts DEF SInv, AttemptsInTurn
<1>3. SearchesInStep'
  BY <1>1 DEF SInv, SearchesInStep
<1> QED
  BY <1>2, <1>3 DEF TurnInv

LEMMA RetryTurn == ASSUME SInv, NEW c \in Callers, Retry(c) PROVE TurnInv'
<1>1. /\ stage[c] = "joining" /\ UNCHANGED <<result, outcome, thread>>
      /\ stage'[c] = "sleeping" /\ retries'[c] = retries[c] + 1
      /\ log'[c] = log[c] \o <<RetryEvent>>
      /\ \A d \in Callers : d # c =>
           stage'[d] = stage[d] /\ retries'[d] = retries[d] /\ log'[d] = log[d]
      /\ late \subseteq late' /\ (thread[Current(c)] # "finished" => Current(c) \in late')
  BY DEF Retry, Moves, Logs, GiveUp, RetryEvent, threadVars, SInv, WInv, SearchTypeOK
<1>2. outcome[c] = "pending" /\ retries[c] \in 0 .. MaxRetries /\ retries[c] + 1 \in 0 .. MaxRetries
  BY <1>1, SearchConstants
  DEF Retry, RetriesLeft, SInv, WInv, SearchTypeOK, SearchesInStep
<1>3. \A d \in Callers : Current(d)[1] = d /\ Current(d)[2] = retries[d] + 1
        /\ Current(d)' = <<d, retries'[d] + 1>> /\ Current(d) = <<d, retries[d] + 1>>
  BY DEF Current
<1>4. thread[Current(c)'] = "new"
  <2>1. Current(c)' \in Workers /\ Current(c)'[1] = c /\ Current(c)'[2] = retries[c] + 2
    BY <1>1, <1>2, <1>3, SearchConstants
  <2> QED
    BY <1>2, <2>1 DEF SInv, AttemptsInTurn
<1>5. AttemptsInTurn'
  <2>1. \A v \in Workers : thread'[v] # "new" => v[2] <= retries'[v[1]] + 1
    <3>1. ASSUME NEW v \in Workers, thread'[v] # "new" PROVE v[2] <= retries'[v[1]] + 1
      <4>1. v[2] <= retries[v[1]] + 1 /\ v[1] \in Callers /\ v[2] \in Nat
        BY <1>1, <3>1, SearchConstants DEF SInv, AttemptsInTurn
      <4> QED
        BY <1>1, <1>2, <4>1
    <3> QED
      BY <3>1
  <2>2. ASSUME NEW d \in Callers
        PROVE  thread'[Current(d)'] = "new" <=>
                 stage'[d] \in {"idle", "preparing", "attempting", "sleeping"}
                   \/ outcome'[d] \in {"rejected", "raised"}
    <3>1. CASE d = c
      BY <1>1, <1>4, <3>1
    <3>2. CASE d # c
      BY <1>1, <1>3, <3>2 DEF SInv, AttemptsInTurn
    <3> QED
      BY <3>1, <3>2
  <2>3. ASSUME NEW v \in Workers, v[2] <= retries'[v[1]], thread'[v] # "finished"
        PROVE  v \in late'
    <3>1. v = <<v[1], v[2]>> /\ v[1] \in Callers /\ v[2] \in Nat
      BY SearchConstants
    <3>2. CASE v[1] # c \/ v[2] <= retries[c]
      BY <1>1, <2>3, <3>1, <3>2 DEF SInv, AttemptsInTurn
    <3>3. CASE v[1] = c /\ v[2] > retries[c]
      <4>1. v = Current(c)
        BY <1>1, <1>2, <1>3, <2>3, <3>1, <3>3
      <4> QED
        BY <1>1, <2>3, <4>1
    <3> QED
      BY <1>2, <3>1, <3>2, <3>3
  <2> QED
    BY <2>1, <2>2, <2>3 DEF AttemptsInTurn
<1>6. SearchesInStep'
  <2>1. /\ log[c] \in Seq(Events) /\ Len(log[c]) = retries[c]
        /\ \A i \in 1 .. retries[c] : log[c][i] = RetryEvent
    BY <1>2 DEF SInv, WInv, SearchTypeOK, SearchesInStep
  <2>2. Len(log'[c]) = retries[c] + 1 /\ \A i \in 1 .. retries[c] + 1 : log'[c][i] = RetryEvent
    BY <1>1, <1>2, <2>1
  <2>3. result[c] = <<>> /\ Len(log'[c]) >= retries'[c]
    BY <1>1, <1>2, <2>2 DEF SInv, SearchesInStep
  <2>4. ASSUME NEW d \in Callers
        PROVE  /\ outcome'[d] = "pending" <=> stage'[d] # "done"
               /\ stage'[d] \in {"idle", "preparing"} \/ outcome'[d] \in {"rejected", "raised"} =>
                    retries'[d] = 0
               /\ Len(log'[d]) >= retries'[d]
               /\ \A i \in 1 .. retries'[d] : log'[d][i] = RetryEvent
               /\ outcome'[d] # "returned" => result'[d] = <<>> /\ Len(log'[d]) = retries'[d]
    <3>1. CASE d = c
      BY <1>1, <1>2, <2>2, <2>3, <3>1
    <3>2. CASE d # c
      BY <1>1, <3>2 DEF SInv, SearchesInStep
    <3> QED
      BY <3>1, <3>2
  <2> QED
    BY <2>4 DEF SearchesInStep
<1> QED
  BY <1>5, <1>6 DEF TurnInv

-----------------------------------------------------------------------------
(* What a search is answered with, and who starved it.                     *)

AInv == SInv /\ AnswersInStep /\ QueuedStarved

LEMMA WorkersFinite == IsFiniteSet(Workers)
<1>1. IsFiniteSet(1 .. MaxRetries + 1)
  BY SearchConstants, FS_Interval
<1> QED
  BY <1>1, SearchConstants, FS_Product

\* What is appended to a sequence follows it.
LEMMA OneAppended ==
  ASSUME NEW S, NEW s \in Seq(S), NEW a \in S
  PROVE  LET t == s \o Append(<<>>, a)
         IN  /\ Len(t) = Len(s) + 1 /\ t[Len(s) + 1] = a
             /\ \A i \in 1 .. Len(s) : t[i] = s[i]
<1>1. Append(<<>>, a) = <<a>>
  OBVIOUS
<1>2. <<a>> \in Seq(S) /\ Len(<<a>>) = 1 /\ <<a>>[1] = a
  OBVIOUS
<1> QED
  BY <1>1, <1>2

LEMMA TwoAppended ==
  ASSUME NEW S, NEW s \in Seq(S), NEW a \in S, NEW b \in S
  PROVE  LET t == s \o Append(<<a>>, b)
         IN  /\ Len(t) = Len(s) + 2 /\ t[Len(s) + 1] = a /\ t[Len(s) + 2] = b
             /\ \A i \in 1 .. Len(s) : t[i] = s[i]
<1> DEFINE u == Append(<<a>>, b)
<1>1. <<a>> \in Seq(S) /\ Len(<<a>>) = 1 /\ <<a>>[1] = a
  OBVIOUS
<1>2. u \in Seq(S) /\ Len(u) = 2 /\ u[1] = a /\ u[2] = b
  <2>1. \A q \in Seq(S) : Append(q, b) \in Seq(S) /\ Len(Append(q, b)) = Len(q) + 1
          /\ Append(q, b)[Len(q) + 1] = b /\ \A i \in 1 .. Len(q) : Append(q, b)[i] = q[i]
    OBVIOUS
  <2> QED
    BY <1>1, <2>1
<1> HIDE DEF u
<1>3. Len(s) \in Nat
  OBVIOUS
<1>4. /\ Len(s \o u) = Len(s) + 2
      /\ \A i \in 1 .. Len(s) + 2 : (s \o u)[i] = IF i <= Len(s) THEN s[i] ELSE u[i - Len(s)]
  <2>1. u \in Seq(S) /\ Len(u) = 2
    BY <1>2
  <2>2. /\ Len(s \o u) = Len(s) + Len(u)
        /\ \A i \in 1 .. Len(s) + Len(u) :
             (s \o u)[i] = IF i <= Len(s) THEN s[i] ELSE u[i - Len(s)]
    BY <2>1, ConcatProperties
  <2> QED
    BY <2>1, <2>2
<1>5. (s \o u)[Len(s) + 1] = u[Len(s) + 1 - Len(s)] /\ (s \o u)[Len(s) + 2] = u[Len(s) + 2 - Len(s)]
  BY <1>3, <1>4
<1>6. Len(s) + 1 - Len(s) = 1 /\ Len(s) + 2 - Len(s) = 2
  BY <1>3
<1>7. \A i \in 1 .. Len(s) : (s \o u)[i] = s[i]
  BY <1>3, <1>4
<1> QED
  BY <1>2, <1>4, <1>5, <1>6, <1>7 DEF u
\* A search that is over, with its hits or with none.
LEMMA DeliversTurn ==
  ASSUME SInv, NEW c \in Callers, NEW hits \in Seq(Hits), Len(hits) <= MaxResults,
         NEW events \in {<<>>, <<TimeoutEvent>>}, Delivers(c, hits, events),
         stage[c] = "joining", UNCHANGED <<thread, retries>>, late \subseteq late'
  PROVE  /\ TurnInv'
         /\ Len(log'[c]) = retries[c] + Len(events) + 1
         /\ log'[c][Len(log'[c])] = CallEvent(Len(result'[c]))
         /\ events = <<TimeoutEvent>> => log'[c][retries[c] + 1] = TimeoutEvent
<1>1. /\ Len(result'[c]) = Len(hits)
      /\ log'[c] = log[c] \o Append(events, CallEvent(Len(hits)))
      /\ outcome'[c] = "returned" /\ stage'[c] = "done"
      /\ \A d \in Callers : d # c =>
           /\ result'[d] = result[d] /\ log'[d] = log[d]
           /\ outcome'[d] = outcome[d] /\ stage'[d] = stage[d]
  BY DeliversTyped DEF SInv
<1>2. /\ outcome[c] = "pending" /\ log[c] \in Seq(Events) /\ retries[c] \in Nat
      /\ Len(log[c]) = retries[c] /\ \A i \in 1 .. retries[c] : log[c][i] = RetryEvent
  BY SearchConstants DEF SInv, WInv, SearchTypeOK, SearchesInStep
<1>3. AttemptsInTurn'
  BY <1>1, <1>2, SameAttempts DEF SInv, AttemptsInTurn
<1>4. /\ Len(log'[c]) = retries[c] + Len(events) + 1
      /\ log'[c][Len(log'[c])] = CallEvent(Len(hits))
      /\ events = <<TimeoutEvent>> => log'[c][retries[c] + 1] = TimeoutEvent
      /\ \A i \in 1 .. retries[c] : log'[c][i] = RetryEvent
      /\ Len(log'[c]) >= retries[c]
  <2> DEFINE e == CallEvent(Len(hits))
  <2>1. e \in Events /\ TimeoutEvent \in Events
    BY SearchConstants, EventsTyped
  <2>2. log'[c] = log[c] \o Append(events, e)
    BY <1>1
  <2> HIDE DEF e
  <2>3. CASE events = <<>>
    <3>1. /\ Len(log'[c]) = retries[c] + 1 /\ log'[c][retries[c] + 1] = e
          /\ \A i \in 1 .. retries[c] : log'[c][i] = log[c][i]
      <4> DEFINE t == log[c] \o Append(<<>>, e)
      <4>1. /\ Len(t) = Len(log[c]) + 1 /\ t[Len(log[c]) + 1] = e
            /\ \A i \in 1 .. Len(log[c]) : t[i] = log[c][i]
        BY <1>2, <2>1, OneAppended
      <4>2. log'[c] = t
        BY <2>2, <2>3
      <4> HIDE DEF t
      <4> QED
        BY <1>2, <4>1, <4>2
    <3>2. Len(events) = 0 /\ events # <<TimeoutEvent>>
      BY <2>3
    <3>3. Len(log'[c]) = retries[c] + Len(events) + 1 /\ Len(log'[c]) >= retries[c]
      BY <1>2, <3>1, <3>2
    <3>4. log'[c][Len(log'[c])] = e /\ \A i \in 1 .. retries[c] : log'[c][i] = RetryEvent
      BY <1>2, <3>1
    <3> QED
      BY <3>2, <3>3, <3>4 DEF e
  <2>4. CASE events = <<TimeoutEvent>>
    <3>1. /\ Len(log'[c]) = retries[c] + 2 /\ log'[c][retries[c] + 2] = e
          /\ log'[c][retries[c] + 1] = TimeoutEvent
          /\ \A i \in 1 .. retries[c] : log'[c][i] = log[c][i]
      <4> DEFINE t == log[c] \o Append(<<TimeoutEvent>>, e)
      <4>1. /\ Len(t) = Len(log[c]) + 2
            /\ t[Len(log[c]) + 1] = TimeoutEvent /\ t[Len(log[c]) + 2] = e
            /\ \A i \in 1 .. Len(log[c]) : t[i] = log[c][i]
        <5>1. log[c] \in Seq(Events)
          BY <1>2
        <5> QED
          BY <2>1, <5>1, TwoAppended
      <4>2. log'[c] = t
        BY <2>2, <2>4
      <4> HIDE DEF t
      <4> QED
        BY <1>2, <4>1, <4>2
    <3>2. Len(events) = 1
      BY <2>4
    <3>3. Len(log'[c]) = retries[c] + Len(events) + 1 /\ Len(log'[c]) >= retries[c]
      BY <1>2, <3>1, <3>2
    <3>4. log'[c][Len(log'[c])] = e /\ \A i \in 1 .. retries[c] : log'[c][i] = RetryEvent
      BY <1>2, <3>1
    <3> QED
      BY <3>1, <3>3, <3>4 DEF e
  <2> QED
    BY <2>3, <2>4
<1>5. SearchesInStep'
  BY <1>1, <1>2, <1>4 DEF SInv, SearchesInStep
<1> QED
  BY <1>1, <1>3, <1>4, <1>5 DEF TurnInv

LEMMA CollectTurn ==
  ASSUME SInv, NEW c \in Callers, Collect(c)
  PROVE  /\ TurnInv' /\ ServedWell(c)'
         /\ log'[c][Len(log'[c])] = CallEvent(Len(result'[c]))
<1> DEFINE w == Current(c)
           hits == box[w]
<1>1. /\ hits \in Seq(Hits) /\ Len(hits) <= MaxResults /\ \A i \in DOMAIN hits : hits[i].url = w
  BY CurrentIsWorker DEF SInv, WInv, SearchTypeOK, BoxesInStep
<1>2. /\ Delivers(c, hits, <<>>) /\ stage[c] = "joining"
      /\ UNCHANGED <<thread, retries, late, error, box>>
      /\ thread[w] = "finished" /\ error[w] = NoError
  BY DEF Collect, CellOf, Exception, threadVars, NoError
<1>3. Current(c)' = w
  BY <1>2 DEF Current
<1> HIDE DEF hits, w
<1>4. /\ TurnInv' /\ Len(log'[c]) = retries[c] + 1
      /\ log'[c][Len(log'[c])] = CallEvent(Len(result'[c]))
  <2>1. Len(<<>>) = 0 /\ retries[c] \in Nat
    BY SearchConstants DEF SInv, WInv, SearchTypeOK
  <2>2. /\ TurnInv' /\ Len(log'[c]) = retries[c] + Len(<<>>) + 1
        /\ log'[c][Len(log'[c])] = CallEvent(Len(result'[c]))
    BY <1>1, <1>2, DeliversTurn
  <2> QED
    BY <2>1, <2>2
<1>5. Len(result'[c]) = Len(hits) /\ DOMAIN result'[c] = DOMAIN hits
      /\ \A i \in DOMAIN hits : result'[c][i].url = hits[i].url
  BY <1>1, <1>2, DeliversTyped DEF SInv
<1>6. ServedWell(c)'
  BY <1>1, <1>2, <1>3, <1>4, <1>5 DEF ServedWell, hits
<1> QED
  BY <1>4, <1>6

LEMMA DegradeTurn ==
  ASSUME SInv, NEW c \in Callers, Degrade(c)
  PROVE  /\ TurnInv' /\ ServedNothing(c)'
         /\ log'[c][Len(log'[c])] = CallEvent(Len(result'[c]))
<1>1. <<>> \in Seq(Hits) /\ Len(<<>>) <= MaxResults /\ Len(<<TimeoutEvent>>) = 1
  BY SearchConstants
<1>2. /\ Delivers(c, <<>>, <<TimeoutEvent>>) /\ stage[c] = "joining"
      /\ UNCHANGED <<thread, retries, error, box>> /\ late \subseteq late'
  BY DEF Degrade, Degraded, TimeoutEvent, GiveUp, threadVars
<1>3. /\ TurnInv' /\ Len(log'[c]) = retries[c] + 2
      /\ log'[c][Len(log'[c])] = CallEvent(Len(result'[c]))
      /\ log'[c][retries[c] + 1] = TimeoutEvent
  <2>1. retries[c] \in Nat
    BY SearchConstants DEF SInv, WInv, SearchTypeOK
  <2>2. /\ TurnInv' /\ Len(log'[c]) = retries[c] + Len(<<TimeoutEvent>>) + 1
        /\ log'[c][Len(log'[c])] = CallEvent(Len(result'[c]))
        /\ log'[c][retries[c] + 1] = TimeoutEvent
    BY <1>1, <1>2, DeliversTurn
  <2> QED
    BY <1>1, <2>1, <2>2
<1>4. result'[c] = <<>>
  <2>1. result'[c] \in Seq(SafeHits) /\ Len(result'[c]) = 0
    <3>1. result' \in [Callers -> Seq(SafeHits)] /\ Len(result'[c]) = Len(<<>>)
      BY <1>1, <1>2, DeliversTyped DEF SInv
    <3> QED
      BY <3>1
  <2> QED
    BY <2>1
<1>5. retries[c] = MaxRetries \/ error[Current(c)] \notin Transient \cup {NoError}
  <2>1. Exception(c) # NoError /\ (Exception(c) \in Transient => ~RetriesLeft(c))
    BY DEF Degrade
  <2>2. retries[c] \in 0 .. MaxRetries
    BY DEF SInv, WInv, SearchTypeOK
  <2>3. CASE Exception(c) \in Transient
    BY <2>1, <2>2, <2>3, SearchConstants DEF RetriesLeft
  <2>4. CASE Exception(c) \notin Transient
    BY <2>1, <2>4 DEF Exception, CellOf, Transient
  <2> QED
    BY <2>3, <2>4
<1>6. ServedNothing(c)'
  BY <1>2, <1>3, <1>4, <1>5 DEF ServedNothing, Current
<1> QED
  BY <1>3, <1>6

-----------------------------------------------------------------------------
\* What is answered stays answered as it is.
LEMMA AnswersKept ==
  ASSUME AInv, NEW c \in Callers,
         outcome'[c] = "returned" => outcome[c] # "returned" /\ stage[c] # "done"
           /\ log'[c][Len(log'[c])] = CallEvent(Len(result'[c]))
           /\ (ServedWell(c)' \/ ServedNothing(c)'),
         \A d \in Callers : d # c =>
           /\ result'[d] = result[d] /\ log'[d] = log[d]
           /\ outcome'[d] = outcome[d] /\ retries'[d] = retries[d],
         \A w \in Workers : thread[w] = "finished" => thread'[w] = "finished",
         UNCHANGED <<box, error>>
  PROVE  AnswersInStep'
<1>1. ASSUME NEW d \in Callers, d # c, outcome'[d] = "returned"
      PROVE  /\ log'[d][Len(log'[d])] = CallEvent(Len(result'[d]))
             /\ ServedWell(d)' \/ ServedNothing(d)'
  <2>1. Current(d)' = Current(d) /\ Current(d) \in Workers
    BY <1>1, CurrentIsWorker DEF Current, AInv, SInv, WInv
  <2>2. ServedWell(d) => ServedWell(d)'
    BY <1>1, <2>1 DEF ServedWell
  <2>3. ServedNothing(d) => ServedNothing(d)'
    BY <1>1, <2>1 DEF ServedNothing
  <2> QED
    BY <1>1, <2>2, <2>3 DEF AInv, AnswersInStep
<1> QED
  BY <1>1 DEF AnswersInStep

LEMMA WorkerAnswers ==
  ASSUME AInv, NEW w \in Workers, Worker(w)
  PROVE  AnswersInStep'
<1>1. /\ UNCHANGED <<retries, result, outcome, log>>
      /\ \A v \in Workers : thread[v] = "finished" =>
           thread'[v] = "finished" /\ error'[v] = error[v] /\ box'[v] = box[v]
  BY WorkerKeepsTurn DEF AInv, callerVars
<1>2. ASSUME NEW c \in Callers, outcome[c] = "returned"
      PROVE  ServedWell(c)' \/ ServedNothing(c)'
  <2>1. Current(c)' = Current(c) /\ Current(c) \in Workers
    BY <1>1, CurrentIsWorker DEF Current, AInv, SInv, WInv
  <2>2. ServedWell(c) => ServedWell(c)'
    BY <1>1, <2>1 DEF ServedWell
  <2>3. error[Current(c)] # NoError => thread[Current(c)] = "finished"
    BY <2>1 DEF AInv, SInv, WInv, WorkersInStep
  <2>4. ServedNothing(c) => ServedNothing(c)'
    BY <1>1, <2>1, <2>3 DEF ServedNothing
  <2> QED
    BY <1>2, <2>2, <2>4 DEF AInv, AnswersInStep
<1> QED
  BY <1>1, <1>2 DEF AInv, AnswersInStep

\* Slots that were taken count as taken.
LEMMA StarvedKept ==
  ASSUME AInv, late \subseteq late', admitted <= admitted', admitted' \in Nat,
         \A w \in Workers : requests[w] > 0 => requests'[w] > 0,
         NEW c \in Callers, Current(c) \in queued, Current(c)' = Current(c)
  PROVE  Cardinality(OthersBusy(c)') >= ConcurrentMax \/ admitted' >= PerMinute
<1>1. OthersBusy(c) \subseteq OthersBusy(c)' /\ OthersBusy(c)' \subseteq Workers
  BY DEF OthersBusy
<1>2. IsFiniteSet(OthersBusy(c)')
  BY <1>1, WorkersFinite, FS_Subset
<1>3. Cardinality(OthersBusy(c)) <= Cardinality(OthersBusy(c)')
      /\ Cardinality(OthersBusy(c)) \in Nat /\ Cardinality(OthersBusy(c)') \in Nat
  BY <1>1, <1>2, FS_Subset, FS_CardinalityType
<1>4. Cardinality(OthersBusy(c)) >= ConcurrentMax \/ admitted >= PerMinute
  BY DEF AInv, QueuedStarved
<1>5. admitted \in Nat /\ PerMinute \in Nat /\ ConcurrentMax \in Nat
  BY SearchCallAssumption DEF AInv, SInv, WInv, SearchTypeOK
<1> QED
  BY <1>3, <1>4, <1>5

LEMMA SearchEstablishes == SearchInit => AInv
<1> SUFFICES ASSUME SearchInit PROVE AInv
  OBVIOUS
<1>1. WInv
  BY WInit
<1>2. \A c \in Callers : Current(c) \in Workers /\ thread[Current(c)] = "new" /\ Current(c) \notin queued
  BY <1>1, CurrentIsWorker DEF SearchInit, WInv
<1>3. AttemptsInTurn
  <2>1. \A w \in Workers : thread[w] = "new" /\ ~(w[2] <= retries[w[1]])
    BY SearchConstants DEF SearchInit
  <2> QED
    BY <1>2, <2>1 DEF SearchInit, AttemptsInTurn
<1>4. SearchesInStep
  <2>1. Len(<<>>) = 0
    OBVIOUS
  <2> QED
    BY <2>1 DEF SearchInit, SearchesInStep
<1>5. AnswersInStep /\ QueuedStarved
  BY <1>2 DEF SearchInit, AnswersInStep, QueuedStarved
<1> QED
  BY <1>1, <1>3, <1>4, <1>5 DEF AInv, SInv

\* Who holds a slot while a search's attempt waits for one.
LEMMA HoldersAreOthers ==
  ASSUME AInv, NEW c \in Callers, thread[Current(c)] = "started", InFlight >= ConcurrentMax
  PROVE  Cardinality(OthersBusy(c)) >= ConcurrentMax
<1> DEFINE flying == {v \in Workers : thread[v] \in {"asking", "sleeping"}}
<1>1. ASSUME NEW v \in flying
      PROVE  v \in OthersBusy(c)
  <2>1. requests[v] > 0
    BY <1>1 DEF AInv, SInv, WInv, WorkersInStep
  <2>2. ASSUME v[1] = c
        PROVE  v \in late
    <3>1. v = <<v[1], v[2]>> /\ v[2] \in Attempts /\ v # Current(c) /\ v[2] <= retries[c] + 1
      BY <1>1, <2>2, SearchConstants DEF AInv, SInv, AttemptsInTurn
    <3>2. v[2] # retries[c] + 1
      BY <2>2, <3>1 DEF Current
    <3>3. v[2] <= retries[c]
      BY <3>1, <3>2, SearchConstants DEF AInv, SInv, WInv, SearchTypeOK
    <3> QED
      BY <1>1, <2>2, <3>3 DEF AInv, SInv, AttemptsInTurn
  <2> QED
    BY <1>1, <2>1, <2>2 DEF OthersBusy
<1>2. flying \subseteq OthersBusy(c) /\ OthersBusy(c) \subseteq Workers
  BY <1>1 DEF OthersBusy
<1>3. IsFiniteSet(OthersBusy(c))
  BY <1>2, WorkersFinite, FS_Subset
<1>4. Cardinality(flying) <= Cardinality(OthersBusy(c))
      /\ IsFiniteSet(flying)
  BY <1>2, <1>3, FS_Subset
<1>5. Cardinality(flying) \in Nat /\ Cardinality(OthersBusy(c)) \in Nat
  BY <1>3, <1>4, FS_CardinalityType
<1>6. Cardinality(flying) >= ConcurrentMax
  BY DEF InFlight
<1> HIDE DEF flying
<1> QED
  BY <1>4, <1>5, <1>6, SearchConstants

LEMMA WorkerStarves ==
  ASSUME AInv, NEW w \in Workers, Worker(w)
  PROVE  QueuedStarved'
<1>1. /\ UNCHANGED <<retries, late>>
      /\ \A c \in Callers : Current(c)' = Current(c)
  BY WorkerKeepsTurn DEF AInv, callerVars, Current
<1>2. /\ admitted \in Nat /\ admitted' \in Nat /\ admitted <= admitted'
      /\ \A v \in Workers : requests[v] > 0 => requests'[v] > 0
  <2>1. requests' = requests \/ requests' = [requests EXCEPT ![w] = @ + 1]
    BY DEF Worker, AskDirectly, Admit, Queue, RefuseCall, Answer, BackOff, SendAgain, Fail, Sends
  <2>2. admitted' = admitted \/ admitted' = admitted + 1
    BY DEF Worker, AskDirectly, Admit, Queue, RefuseCall, Answer, BackOff, SendAgain, Fail, gateVars
  <2>3. admitted \in Nat /\ requests \in [Workers -> 0 .. MaxRetries + 1]
    BY DEF AInv, SInv, WInv, SearchTypeOK
  <2>4. \A v \in Workers : requests[v] > 0 => requests'[v] > 0
    <3>1. \A v \in Workers : requests[v] \in Nat /\ v \in DOMAIN requests
      BY <2>3, SearchConstants
    <3>2. \A v \in Workers : requests'[v] \in {requests[v], requests[v] + 1}
      BY <2>1, <3>1
    <3> QED
      BY <3>1, <3>2
  <2> QED
    BY <2>2, <2>3, <2>4
<1>3. \/ queued' = queued
      \/ queued' = queued \cup {w} /\ thread[w] = "started" /\ NoRoom
         /\ UNCHANGED <<requests, admitted>>
  BY DEF Worker, AskDirectly, Admit, Queue, RefuseCall, Answer, BackOff, SendAgain, Fail, gateVars
<1> SUFFICES ASSUME NEW c \in Callers, (Current(c) \in queued)'
             PROVE  (Cardinality(OthersBusy(c)) >= ConcurrentMax \/ admitted >= PerMinute)'
  BY DEF QueuedStarved
<1>4. CASE Current(c) \in queued
  BY <1>1, <1>2, <1>4, StarvedKept
<1>5. CASE Current(c) \notin queued
  <2>1. Current(c) = w /\ thread[w] = "started" /\ NoRoom /\ UNCHANGED <<requests, admitted>>
    BY <1>1, <1>3, <1>5
  <2>2. OthersBusy(c)' = OthersBusy(c)
    BY <1>1, <2>1 DEF OthersBusy
  <2>3. CASE InFlight >= ConcurrentMax
    BY <2>1, <2>2, <2>3, HoldersAreOthers
  <2>4. CASE admitted >= PerMinute
    BY <2>1, <2>4
  <2> QED
    BY <2>1, <2>3, <2>4 DEF NoRoom
<1> QED
  BY <1>4, <1>5

\* A caller that goes on waiting for the same attempt changes nobody's slots.
LEMMA CallerStarves ==
  ASSUME AInv, UNCHANGED <<requests, gateVars>>, late \subseteq late',
         \A c \in Callers : Current(c)' = Current(c) \/ (Current(c) \notin queued)'
  PROVE  QueuedStarved'
<1> SUFFICES ASSUME NEW c \in Callers, (Current(c) \in queued)'
             PROVE  (Cardinality(OthersBusy(c)) >= ConcurrentMax \/ admitted >= PerMinute)'
  BY DEF QueuedStarved
<1>1. /\ admitted \in Nat /\ admitted' = admitted /\ queued' = queued
      /\ \A v \in Workers : requests[v] > 0 => requests'[v] > 0
  BY DEF gateVars, AInv, SInv, WInv, SearchTypeOK
<1>2. Current(c)' = Current(c) /\ Current(c) \in queued
  BY <1>1
<1> QED
  BY <1>1, <1>2, StarvedKept

LEMMA RetryStarves ==
  ASSUME AInv, NEW c \in Callers, Retry(c)
  PROVE  QueuedStarved'
<1>1. WInv' /\ TurnInv'
  BY RetryKeeps, RetryTurn DEF AInv
<1>2. /\ UNCHANGED <<requests, gateVars>> /\ late \subseteq late'
      /\ stage'[c] = "sleeping" /\ \A d \in Callers : d # c => retries'[d] = retries[d]
  BY DEF Retry, Moves, GiveUp, threadVars, AInv, SInv, WInv, SearchTypeOK
<1>3. (Current(c) \notin queued)'
  <2>1. (thread[Current(c)] = "new" /\ Current(c) \in Workers)'
    <3>1. retries'[c] + 1 \in Attempts
      BY <1>1, SearchConstants DEF WInv, SearchTypeOK
    <3> QED
      BY <1>1, <1>2, <3>1, SearchConstants DEF Current, TurnInv, AttemptsInTurn
  <2> QED
    BY <1>1, <2>1 DEF WInv, WorkersInStep
<1> QED
  BY <1>2, <1>3, CallerStarves DEF Current

\* No step of a search that is not a worker's gives or takes back an answer,
\* but for the two that answer it.
LEMMA CallerAnswers ==
  ASSUME AInv, NEW c \in Callers, Begin(c) \/ Prepare(c) \/ Attempt(c) \/ Retry(c) \/ Wake(c)
  PROVE  AnswersInStep'
<1>1. /\ outcome'[c] = "returned" => outcome[c] = "returned" /\ stage[c] # "done"
      /\ outcome[c] = "returned" => stage[c] = "done"
      /\ \A d \in Callers : d # c =>
           /\ result'[d] = result[d] /\ log'[d] = log[d]
           /\ outcome'[d] = outcome[d] /\ retries'[d] = retries[d]
      /\ UNCHANGED <<box, error>>
  BY DEF Begin, Prepare, Attempt, Retry, Wake, Moves, Ends, Logs, askVars, callerVars, threadVars,
     AInv, SInv, WInv, SearchTypeOK, SearchesInStep
<1>2. ASSUME NEW w \in Workers, thread[w] = "finished"
      PROVE  thread'[w] = "finished"
  <2>1. CASE Attempt(c)
    <3>1. thread[Current(c)] = "new" /\ thread' = [thread EXCEPT ![Current(c)] = "started"]
      BY <2>1 DEF Attempt, AInv, SInv, AttemptsInTurn
    <3> QED
      BY <1>2, <3>1 DEF AInv, SInv, WInv, SearchTypeOK
  <2>2. CASE ~Attempt(c)
    BY <1>2, <2>2 DEF Begin, Prepare, Retry, Wake, threadVars
  <2> QED
    BY <2>1, <2>2
<1> QED
  BY <1>1, <1>2, AnswersKept

LEMMA CollectAnswers == ASSUME AInv, NEW c \in Callers, Collect(c) PROVE AnswersInStep'
<1>1. ServedWell(c)' /\ log'[c][Len(log'[c])] = CallEvent(Len(result'[c]))
  BY CollectTurn DEF AInv
<1>2. /\ stage[c] = "joining" /\ UNCHANGED <<box, error, thread, retries>>
      /\ \A d \in Callers : d # c =>
           /\ result'[d] = result[d] /\ log'[d] = log[d] /\ outcome'[d] = outcome[d]
  BY DEF Collect, Delivers, Ends, Logs, threadVars, AInv, SInv, WInv, SearchTypeOK
<1>3. outcome[c] = "pending"
  BY <1>2 DEF AInv, SInv, SearchesInStep
<1> QED
  BY <1>1, <1>2, <1>3, AnswersKept

LEMMA DegradeAnswers == ASSUME AInv, NEW c \in Callers, Degrade(c) PROVE AnswersInStep'
<1>1. ServedNothing(c)' /\ log'[c][Len(log'[c])] = CallEvent(Len(result'[c]))
  BY DegradeTurn DEF AInv
<1>2. /\ stage[c] = "joining" /\ UNCHANGED <<box, error, thread, retries>>
      /\ \A d \in Callers : d # c =>
           /\ result'[d] = result[d] /\ log'[d] = log[d] /\ outcome'[d] = outcome[d]
  BY DEF Degrade, Delivers, Ends, Logs, threadVars, AInv, SInv, WInv, SearchTypeOK
<1>3. outcome[c] = "pending"
  BY <1>2 DEF AInv, SInv, SearchesInStep
<1> QED
  BY <1>1, <1>2, <1>3, AnswersKept

LEMMA CallerKeeps == ASSUME AInv, NEW c \in Callers, Begin(c) \/ Caller(c) PROVE AInv'
<1>0. SInv
  BY DEF AInv
<1>1. WInv'
  BY <1>0, BeginKeeps, PrepareKeeps, AttemptKeeps, CollectKeeps, RetryKeeps, WakeKeeps,
     DegradeKeeps DEF Caller
<1>2. TurnInv'
  BY <1>0, BeginTurn, PrepareTurn, AttemptTurn, CollectTurn, RetryTurn, WakeTurn, DegradeTurn
     DEF Caller
<1>3. AnswersInStep'
  BY CallerAnswers, CollectAnswers, DegradeAnswers DEF Caller
<1>4. QueuedStarved'
  <2>1. CASE Retry(c)
    BY <2>1, RetryStarves
  <2>2. CASE ~Retry(c)
    <3>1. UNCHANGED <<requests, gateVars, retries>> /\ late \subseteq late'
      BY <2>2 DEF Caller, Begin, Prepare, Attempt, Collect, Wake, Degrade, GiveUp, threadVars,
         callerVars
    <3> QED
      BY <3>1, CallerStarves DEF Current
  <2> QED
    BY <2>1, <2>2
<1> QED
  BY <1>1, <1>2, <1>3, <1>4 DEF AInv, SInv, TurnInv

LEMMA WorkerKeeps == ASSUME AInv, NEW w \in Workers, Worker(w) PROVE AInv'
<1>0. SInv
  BY DEF AInv
<1>1. WInv'
  BY <1>0, AskDirectlyKeeps, AdmitKeeps, QueueKeeps, RefuseCallKeeps, AnswerKeeps, BackOffKeeps,
     SendAgainKeeps, FailKeeps DEF Worker
<1>2. TurnInv'
  BY <1>0, WorkerKeepsTurn
<1>3. AnswersInStep' /\ QueuedStarved'
  BY WorkerAnswers, WorkerStarves
<1> QED
  BY <1>1, <1>2, <1>3 DEF AInv, SInv, TurnInv

LEMMA SearchStutters == ASSUME AInv, UNCHANGED searchVars PROVE AInv'
<1>1. UNCHANGED <<config, query, stage, retries, result, outcome, log, late, thread, requests, box,
                 error, admitted, queued>>
  BY DEF searchVars, askVars, callerVars, threadVars, gateVars
<1>2. WInv'
  BY <1>1 DEF AInv, SInv, WInv, SearchTypeOK, WorkersInStep, BoxesInStep
<1>3. \A c \in Callers : Current(c)' = Current(c)
  BY <1>1 DEF Current
<1>4. AttemptsInTurn' /\ SearchesInStep'
  BY <1>1, <1>3 DEF AInv, SInv, AttemptsInTurn, SearchesInStep
<1>5. AnswersInStep'
  BY <1>1, <1>3 DEF AInv, AnswersInStep, ServedWell, ServedNothing
<1>6. QueuedStarved'
  BY <1>1, <1>3 DEF AInv, QueuedStarved, OthersBusy
<1> QED
  BY <1>2, <1>4, <1>5, <1>6 DEF AInv, SInv

LEMMA SearchInvariance == SearchSpec => []AInv
<1>1. AInv /\ [SearchNext]_searchVars => AInv'
  BY CallerKeeps, WorkerKeeps, SearchStutters DEF SearchNext
<1> QED
  BY <1>1, SearchEstablishes, PTL DEF SearchSpec

-----------------------------------------------------------------------------
(* The theorems about a search.                                            *)

\* A worker that left a result and nothing else wrong was given it by its own attempt.
LEMMA ResultsOwnState == AInv => ResultsAreOwn
<1> SUFFICES ASSUME AInv, NEW c \in Callers, outcome[c] = "returned", result[c] # <<>>
             PROVE  ServedWell(c)
  BY DEF ResultsAreOwn, ServedWell
<1> QED
  BY DEF AInv, AnswersInStep, ServedNothing

LEMMA RequestsCounted ==
  ASSUME AInv, NEW c \in Callers, NEW b \in Nat,
         \A a \in Attempts : requests[<<c, a>>] <= b
  PROVE  RequestsOf(c) <= (MaxRetries + 1) * b
<1> DEFINE sent == UNION {{a} \X (1 .. requests[<<c, a>>]) : a \in Attempts}
           room == Attempts \X (1 .. b)
<1>1. \A a \in Attempts : requests[<<c, a>>] \in Nat
  BY SearchConstants DEF AInv, SInv, WInv, SearchTypeOK
<1>2. sent \subseteq room
  <2>1. ASSUME NEW a \in Attempts, NEW k \in 1 .. requests[<<c, a>>]
        PROVE  k \in 1 .. b
    BY <1>1
  <2>2. \A a \in Attempts : {a} \X (1 .. requests[<<c, a>>]) \subseteq room
    BY <2>1
  <2> HIDE DEF room
  <2> QED
    BY <2>2
<1>3. IsFiniteSet(Attempts) /\ Cardinality(Attempts) = MaxRetries + 1
  BY SearchConstants, FS_Interval
<1>4. IsFiniteSet(1 .. b) /\ Cardinality(1 .. b) = b
  <2>1. 1 \in Int /\ b \in Int
    OBVIOUS
  <2>2. /\ IsFiniteSet(1 .. b)
        /\ Cardinality(1 .. b) = IF 1 > b THEN 0 ELSE b - 1 + 1
    BY <2>1, FS_Interval
  <2> QED
    BY <2>2
<1>5. IsFiniteSet(room) /\ Cardinality(room) = (MaxRetries + 1) * b
  BY <1>3, <1>4, FS_Product
<1>6. Cardinality(sent) <= Cardinality(room)
  BY <1>2, <1>5, FS_Subset
<1> QED
  BY <1>5, <1>6 DEF RequestsOf

LEMMA RequestsState == AInv => RequestsBounded
<1> SUFFICES ASSUME AInv, NEW c \in Callers
             PROVE  /\ RequestsOf(c) <= (MaxRetries + 1) * (IF config.gatekept THEN MaxRetries + 1 ELSE 1)
                    /\ outcome[c] \in {"rejected", "raised"} => RequestsOf(c) = 0
  BY DEF RequestsBounded
<1>1. RequestsOf(c) <= (MaxRetries + 1) * (IF config.gatekept THEN MaxRetries + 1 ELSE 1)
  <2>1. \A a \in Attempts :
          requests[<<c, a>>] <= (IF config.gatekept THEN MaxRetries + 1 ELSE 1)
    BY SearchConstants DEF AInv, SInv, WInv, WorkersInStep
  <2> QED
    <3> DEFINE b == IF config.gatekept THEN MaxRetries + 1 ELSE 1
    <3>1. b \in Nat /\ \A a \in Attempts : requests[<<c, a>>] <= b
      BY <2>1, SearchConstants
    <3> HIDE DEF b
    <3>2. RequestsOf(c) <= (MaxRetries + 1) * b
      BY <3>1, RequestsCounted
    <3> QED
      BY <3>2 DEF b
<1>2. ASSUME outcome[c] \in {"rejected", "raised"}
      PROVE  RequestsOf(c) = 0
  <2>1. ASSUME NEW a \in Attempts
        PROVE  requests[<<c, a>>] = 0
    <3>1. retries[c] = 0 /\ thread[<<c, 1>>] = "new"
      BY <1>2 DEF AInv, SInv, SearchesInStep, AttemptsInTurn, Current
    <3>2. <<c, a>> \in Workers /\ <<c, a>>[1] = c /\ <<c, a>>[2] = a /\ a \in 1 .. MaxRetries + 1
      BY <2>1, SearchConstants
    <3>3. thread[<<c, a>>] = "new"
      BY <3>1, <3>2, SearchConstants DEF AInv, SInv, AttemptsInTurn
    <3> QED
      BY <3>2, <3>3 DEF AInv, SInv, WInv, WorkersInStep
  <2>2. UNION {{a} \X (1 .. requests[<<c, a>>]) : a \in Attempts} = {}
    <3>1. \A a \in Attempts : 1 .. requests[<<c, a>>] = {}
      BY <2>1
    <3> QED
      BY <3>1, Zenon
  <2> QED
    BY <2>2, FS_EmptySet DEF RequestsOf
<1> QED
  BY <1>1, <1>2

\* The events of a search that was answered, counted by type.
LEMMA EventsCounted ==
  ASSUME AInv, NEW c \in Callers, outcome[c] = "returned"
  PROVE  /\ Logged(c, "retry") = retries[c] /\ Logged(c, "tool_call") = 1
         /\ ServedWell(c) => Logged(c, "timeout") = 0
         /\ ServedNothing(c) => Logged(c, "timeout") = 1
<1> DEFINE n == retries[c]
           told == log[c]
<1>1. /\ n \in Nat /\ told \in Seq(Events) /\ Len(told) \in Nat
      /\ DOMAIN told = 1 .. Len(told)
  BY SearchConstants DEF AInv, SInv, WInv, SearchTypeOK
<1>2. /\ \A i \in 1 .. n : told[i].type = "retry"
      /\ told[Len(told)].type = "tool_call"
  <2>1. \A i \in 1 .. n : told[i] = RetryEvent
    BY DEF AInv, SInv, SearchesInStep
  <2>2. told[Len(told)] = CallEvent(Len(result[c]))
    BY DEF AInv, AnswersInStep
  <2>3. RetryEvent.type = "retry" /\ CallEvent(Len(result[c])).type = "tool_call"
    BY DEF RetryEvent, CallEvent
  <2> QED
    BY <2>1, <2>2, <2>3
<1>3. ServedNothing(c) => Len(told) = n + 2 /\ told[n + 1].type = "timeout"
  BY DEF ServedNothing, TimeoutEvent
<1>4. ServedWell(c) => Len(told) = n + 1
  BY DEF ServedWell
<1>5. ServedWell(c) \/ ServedNothing(c)
  BY DEF AInv, AnswersInStep
<1> HIDE DEF n, told
<1>6. ASSUME ServedWell(c)
      PROVE  /\ {i \in DOMAIN told : told[i].type = "retry"} = 1 .. n
             /\ {i \in DOMAIN told : told[i].type = "tool_call"} = {n + 1}
             /\ {i \in DOMAIN told : told[i].type = "timeout"} = {}
  <2>1. \A i \in DOMAIN told : i \in 1 .. n \/ i = n + 1
    BY <1>1, <1>4, <1>6
  <2>2. 1 .. n \subseteq DOMAIN told /\ n + 1 \in DOMAIN told /\ n + 1 \notin 1 .. n
        /\ told[n + 1].type = "tool_call"
    BY <1>1, <1>2, <1>4, <1>6
  <2> QED
    BY <1>2, <2>1, <2>2
<1>7. ASSUME ServedNothing(c)
      PROVE  /\ {i \in DOMAIN told : told[i].type = "retry"} = 1 .. n
             /\ {i \in DOMAIN told : told[i].type = "tool_call"} = {n + 2}
             /\ {i \in DOMAIN told : told[i].type = "timeout"} = {n + 1}
  <2>1. \A i \in DOMAIN told : i \in 1 .. n \/ i = n + 1 \/ i = n + 2
    BY <1>1, <1>3, <1>7
  <2>2. /\ 1 .. n \subseteq DOMAIN told /\ n + 1 \in DOMAIN told /\ n + 2 \in DOMAIN told
        /\ told[n + 2].type = "tool_call" /\ told[n + 1].type = "timeout"
    BY <1>1, <1>2, <1>3, <1>7
  <2> QED
    BY <1>2, <2>1, <2>2
<1>8. /\ Cardinality(1 .. n) = n /\ Cardinality({}) = 0
      /\ \A k : Cardinality({k}) = 1
  <2>1. Cardinality(1 .. n) = n
    <3>1. 1 \in Int /\ n \in Int
      BY <1>1
    <3>2. Cardinality(1 .. n) = IF 1 > n THEN 0 ELSE n - 1 + 1
      BY <3>1, FS_Interval
    <3> QED
      BY <1>1, <3>2
  <2> QED
    BY <2>1, FS_EmptySet, FS_Singleton
<1> QED
  BY <1>5, <1>6, <1>7, <1>8 DEF Logged, n, told

LEMMA LogState == AInv => LogTellsTheSearch
<1> SUFFICES ASSUME AInv, NEW c \in Callers, outcome[c] = "returned"
             PROVE  /\ Logged(c, "retry") = retries[c] /\ Logged(c, "tool_call") = 1
                    /\ log[c][Len(log[c])] = [type |-> "tool_call", results |-> Len(result[c])]
                    /\ IF Logged(c, "timeout") = 0
                         THEN thread[Current(c)] = "finished" /\ error[Current(c)] = NoError
                         ELSE /\ Logged(c, "timeout") = 1 /\ result[c] = <<>>
                              /\ \/ retries[c] = MaxRetries
                                 \/ error[Current(c)] \notin Transient \cup {NoError}
  BY DEF LogTellsTheSearch
<1>1. log[c][Len(log[c])] = [type |-> "tool_call", results |-> Len(result[c])]
      /\ (ServedWell(c) \/ ServedNothing(c))
  BY DEF AInv, AnswersInStep, CallEvent
<1> QED
  BY <1>1, EventsCounted DEF ServedWell, ServedNothing

LEMMA EmptyState == AInv => EmptyIsExplained
<1> SUFFICES ASSUME AInv, NEW c \in Callers, outcome[c] = "returned", Logged(c, "timeout") = 0,
                    ~(requests[Current(c)] > 0)
             PROVE  /\ Current(c) \in queued
                    /\ Cardinality(OthersBusy(c)) >= ConcurrentMax \/ admitted >= PerMinute
  BY DEF EmptyIsExplained, OthersBusy
<1>1. ServedWell(c)
  BY EventsCounted DEF AInv, AnswersInStep
<1>2. Current(c) \in Workers /\ requests[Current(c)] = 0
  <2>1. Current(c) \in Workers
    BY CurrentIsWorker DEF AInv, SInv, WInv
  <2>2. requests[Current(c)] \in Nat
    BY <2>1, TypesOfSearch DEF AInv, SInv, WInv
  <2> QED
    BY <2>1, <2>2
<1>3. Current(c) \in queued
  BY <1>1, <1>2 DEF ServedWell, AInv, SInv, WInv, BoxesInStep, NoError
<1> QED
  BY <1>3 DEF AInv, QueuedStarved

-----------------------------------------------------------------------------
\* Every variable of a search ranges over what the code keeps in it, and
\* nothing that was not sanitised is ever among its results (web_search.py).
THEOREM SearchTypeCorrect == SearchSpec => []SearchTypeOK
  BY SearchInvariance, PTL DEF AInv, SInv, WInv

\* The results of a search are those of the attempt it was waiting for, never
\* what a worker given up on came up with later (resilient.py, _timeout.py).
THEOREM ResultsOwn == SearchSpec => []ResultsAreOwn
<1>1. AInv => ResultsAreOwn
  BY ResultsOwnState
<1> QED
  BY <1>1, SearchInvariance, PTL

\* What a search costs the provider, late workers included, is bounded by the
\* two nested retries (_web_search_build.py:63-71), and nothing when refused.
THEOREM RequestsSafe == SearchSpec => []RequestsBounded
<1>1. AInv => RequestsBounded
  BY RequestsState
<1> QED
  BY <1>1, SearchInvariance, PTL

\* A search that returns nothing was told of, found nothing, or was queued
\* because others held every slot (gatekept.py:70-81, resilient.py:117-119).
THEOREM EmptySafe == SearchSpec => []EmptyIsExplained
<1>1. AInv => EmptyIsExplained
  BY EmptyState
<1> QED
  BY <1>1, SearchInvariance, PTL

\* The log of a search tells what happened to it (web_search.py:87-90).
THEOREM SearchLogSafe == SearchSpec => []LogTellsTheSearch
<1>1. AInv => LogTellsTheSearch
  BY LogState
<1> QED
  BY <1>1, SearchInvariance, PTL

\* A search that reaches its provider was asked soundly.
SoundlyAsked ==
  \A c \in Callers : stage[c] \in {"attempting", "joining", "sleeping"} =>
    ValidQuery(query[c]) /\ Buildable

LEMMA SoundInit == SearchInit => SoundlyAsked
  BY DEF SearchInit, SoundlyAsked

LEMMA SoundKept == ASSUME AInv, SoundlyAsked, [SearchNext]_searchVars PROVE SoundlyAsked'
<1>0. stage \in [Callers -> {"idle", "preparing", "attempting", "joining", "sleeping", "done"}]
      /\ query \in [Callers -> SearchQueryInput]
  BY DEF AInv, SInv, WInv, SearchTypeOK
<1>1. ASSUME NEW c \in Callers, Begin(c) \/ Caller(c) PROVE SoundlyAsked'
  BY <1>0, <1>1 DEF SoundlyAsked, Caller, Begin, Prepare, Attempt, Collect, Retry, Wake, Degrade,
     Delivers, Moves, Ends, askVars, Buildable
<1>2. ASSUME UNCHANGED <<config, query, stage>> PROVE SoundlyAsked'
  BY <1>2 DEF SoundlyAsked, Buildable
<1>3. ASSUME NEW w \in Workers, Worker(w) PROVE UNCHANGED <<config, query, stage>>
  BY <1>3, WorkerKeepsTurn DEF askVars, callerVars, AInv
<1> QED
  BY <1>1, <1>2, <1>3 DEF SearchNext, searchVars, askVars, callerVars

LEMMA Soundness == SearchSpec => [](AInv /\ SoundlyAsked)
<1>1. AInv /\ SoundlyAsked /\ [SearchNext]_searchVars => SoundlyAsked'
  BY SoundKept
<1> QED
  BY <1>1, SoundInit, SearchInvariance, PTL DEF SearchSpec

\* The abstract state of one caller.
LEMMA Unchanging ==
  ASSUME AInv, UNCHANGED <<config, query>>, NEW d \in Callers,
         stage[d] = "idle" <=> stage'[d] = "idle", outcome'[d] = outcome[d], result'[d] = result[d]
  PROVE  Asked(d)' = Asked(d) /\ Answered(d)' = Answered(d)
  BY DEF Asked, Answered, Buildable, TextsOf

LEMMA BeginAsks ==
  ASSUME AInv, NEW c \in Callers, Begin(c)
  PROVE  Promise!Ask(c)
<1>1. /\ stage[c] = "idle" /\ stage'[c] = "preparing" /\ UNCHANGED <<config, result, outcome>>
      /\ \A d \in Callers : d # c => stage'[d] = stage[d] /\ query'[d] = query[d]
  BY DEF Begin, Moves, AInv, SInv, WInv, SearchTypeOK
<1>2. Asked(c) = "idle" /\ Asked(c)' \in {"sound", "faulty"}
  BY <1>1 DEF Asked
<1>3. \A d \in Callers : d # c => Asked(d)' = Asked(d)
  BY <1>1 DEF Asked, Buildable
<1>4. \A d \in Callers : Answered(d)' = Answered(d)
  BY <1>1 DEF Answered, TextsOf
<1>5. [d \in Callers |-> Asked(d)'] = [[d \in Callers |-> Asked(d)] EXCEPT ![c] = Asked(c)']
  BY <1>3
<1> QED
  BY <1>2, <1>4, <1>5 DEF Promise!Ask

LEMMA OthersStay ==
  ASSUME AInv, NEW c \in Callers, UNCHANGED <<config, query>>,
         stage[c] # "idle", stage'[c] # "idle",
         \A d \in Callers : d # c =>
           stage'[d] = stage[d] /\ outcome'[d] = outcome[d] /\ result'[d] = result[d]
  PROVE  /\ [d \in Callers |-> Asked(d)'] = [d \in Callers |-> Asked(d)]
         /\ [d \in Callers |-> Answered(d)'] =
              [[d \in Callers |-> Answered(d)] EXCEPT ![c] = Answered(c)']
<1>1. \A d \in Callers : d # c => Asked(d)' = Asked(d) /\ Answered(d)' = Answered(d)
  BY Unchanging
<1>2. Asked(c)' = Asked(c)
  BY DEF Asked, Buildable
<1> QED
  BY <1>1, <1>2

LEMMA PrepareRefuses ==
  ASSUME AInv, NEW c \in Callers, Prepare(c)
  PROVE  Promise!Refuse(c) \/ UNCHANGED Promise!vars
<1>1. /\ stage[c] = "preparing" /\ stage'[c] # "idle" /\ UNCHANGED <<config, query, result>>
      /\ \A d \in Callers : d # c => stage'[d] = stage[d] /\ outcome'[d] = outcome[d]
      /\ \/ outcome'[c] = outcome[c]
         \/ outcome'[c] \in {"rejected", "raised"} /\ ~(ValidQuery(query[c]) /\ Buildable)
  BY DEF Prepare, Moves, Ends, askVars, AInv, SInv, WInv, SearchTypeOK
<1>2. outcome[c] = "pending" /\ Answered(c) = <<"none", {}>>
  BY <1>1 DEF Answered, AInv, SInv, SearchesInStep
<1>3. /\ [d \in Callers |-> Asked(d)'] = [d \in Callers |-> Asked(d)]
      /\ [d \in Callers |-> Answered(d)'] =
           [[d \in Callers |-> Answered(d)] EXCEPT ![c] = Answered(c)']
  BY <1>1, OthersStay
<1>4. CASE outcome'[c] = outcome[c]
  <2>1. Answered(c)' = Answered(c)
    BY <1>1, <1>4 DEF Answered
  <2>2. [[d \in Callers |-> Answered(d)] EXCEPT ![c] = Answered(c)] = [d \in Callers |-> Answered(d)]
    OBVIOUS
  <2> QED
    BY <1>3, <2>1, <2>2 DEF Promise!vars
<1>5. CASE outcome'[c] \in {"rejected", "raised"} /\ ~(ValidQuery(query[c]) /\ Buildable)
  <2>1. Answered(c)' = <<"refused", {}>> /\ Asked(c) = "faulty"
    BY <1>1, <1>5 DEF Answered, Asked
  <2> QED
    BY <1>2, <1>3, <2>1 DEF Promise!Refuse, Promise!Unanswered
<1> QED
  BY <1>1, <1>4, <1>5

LEMMA DeliversServes ==
  ASSUME AInv, SoundlyAsked, NEW c \in Callers, Collect(c) \/ Degrade(c)
  PROVE  Promise!Serve(c)
<1>1. /\ stage[c] = "joining" /\ stage'[c] = "done" /\ UNCHANGED <<config, query>>
      /\ outcome'[c] = "returned"
      /\ \A d \in Callers : d # c =>
           stage'[d] = stage[d] /\ outcome'[d] = outcome[d] /\ result'[d] = result[d]
  BY DEF Collect, Degrade, Delivers, Ends, Moves, Logs, askVars, AInv, SInv, WInv, SearchTypeOK
<1>2. Answered(c) = <<"none", {}>> /\ Asked(c) = "sound"
  BY <1>1 DEF Answered, Asked, AInv, SInv, SearchesInStep, SoundlyAsked
<1>3. /\ [d \in Callers |-> Asked(d)'] = [d \in Callers |-> Asked(d)]
      /\ [d \in Callers |-> Answered(d)'] =
           [[d \in Callers |-> Answered(d)] EXCEPT ![c] = Answered(c)']
  BY <1>1, OthersStay
<1>4. Answered(c)' = <<"page", TextsOf(result'[c])>>
  BY <1>1 DEF Answered, TextsOf
<1>5. TextsOf(result'[c]) \in SUBSET SafeTexts
  <2>1. result'[c] \in Seq(SafeHits)
    <3>1. SearchTypeOK'
      BY CollectKeeps, DegradeKeeps DEF WInv, AInv
    <3> QED
      BY <3>1 DEF SearchTypeOK
  <2>2. \A i \in DOMAIN result'[c] : result'[c][i] \in SafeHits
    BY <2>1
  <2> QED
    BY <2>2 DEF TextsOf, SafeHits
<1> QED
  BY <1>2, <1>3, <1>4, <1>5 DEF Promise!Serve, Promise!Unanswered

LEMMA PromiseStutters ==
  ASSUME AInv, UNCHANGED <<config, query, outcome, result>>,
         \A d \in Callers : stage[d] = "idle" <=> stage'[d] = "idle"
  PROVE  UNCHANGED Promise!vars
<1>1. \A d \in Callers : Asked(d)' = Asked(d) /\ Answered(d)' = Answered(d)
  BY Unchanging
<1> QED
  BY <1>1 DEF Promise!vars

LEMMA PromiseStep ==
  ASSUME AInv, SoundlyAsked, [SearchNext]_searchVars
  PROVE  [Promise!Next]_(Promise!vars)
<1>1. ASSUME NEW c \in Callers, Attempt(c) \/ Retry(c) \/ Wake(c)
      PROVE  UNCHANGED Promise!vars
  <2>1. /\ UNCHANGED <<config, query, outcome, result>>
        /\ \A d \in Callers : stage[d] = "idle" <=> stage'[d] = "idle"
    BY <1>1 DEF Attempt, Retry, Wake, Moves, askVars, AInv, SInv, WInv, SearchTypeOK
  <2> QED
    BY <2>1, PromiseStutters
<1>2. ASSUME NEW w \in Workers, Worker(w)
      PROVE  UNCHANGED Promise!vars
  <2>1. UNCHANGED <<config, query, outcome, result, stage>>
    BY <1>2, WorkerKeepsTurn DEF AInv, askVars, callerVars
  <2> QED
    BY <2>1, PromiseStutters
<1>3. UNCHANGED searchVars => UNCHANGED Promise!vars
  BY PromiseStutters DEF searchVars, askVars, callerVars
<1>4. ASSUME NEW c \in Callers, Begin(c) \/ Caller(c)
      PROVE  [Promise!Next]_(Promise!vars)
  BY <1>1, <1>4, BeginAsks, PrepareRefuses, DeliversServes DEF Caller, Promise!Next
<1> QED
  BY <1>2, <1>3, <1>4 DEF SearchNext

LEMMA PromiseInit == SearchInit => Promise!Init
<1> SUFFICES ASSUME SearchInit, NEW c \in Callers
             PROVE  Asked(c) = "idle" /\ Answered(c) = <<"none", {}>>
  BY DEF Promise!Init
<1> QED
  BY DEF SearchInit, Asked, Answered

\* web_search keeps the promise of SearchPromise but for its being kept in the
\* end: a search is answered once, a faulty request refused and never served,
\* a sound one served and never refused, with texts safe to read.
THEOREM PromiseKept == SearchSpec => Promise!Init /\ [][Promise!Next]_(Promise!vars)
<1>1. AInv /\ SoundlyAsked /\ [SearchNext]_searchVars => [Promise!Next]_(Promise!vars)
  BY PromiseStep
<1> QED
  BY <1>1, PromiseInit, Soundness, PTL DEF SearchSpec

-----------------------------------------------------------------------------
(* A search runs out of steps, whatever its workers do: with the           *)
(* scheduling of its thread this is why the promise of an answer is kept.  *)

CallerStage(where) ==
  CASE where = "idle"                      -> 4
    [] where \in {"preparing", "sleeping"} -> 3
    [] where = "attempting"                -> 2
    [] where = "joining"                   -> 1
    [] OTHER                               -> 0

SearchLeft == [c \in Callers |-> 3 * (MaxRetries - retries[c]) + CallerStage(stage[c])]

LEMMA SearchLeftTyped ==
  ASSUME AInv, NEW c \in Callers
  PROVE  SearchLeft[c] \in 0 .. 3 * MaxRetries + 4
<1>1. MaxRetries \in Nat /\ retries[c] \in 0 .. MaxRetries
  BY SearchConstants, TypesOfSearch DEF AInv, SInv, WInv
<1>2. CallerStage(stage[c]) \in 0 .. 4
  BY DEF CallerStage
<1> QED
  BY <1>1, <1>2 DEF SearchLeft

LEMMA CallerStepsLeft ==
  ASSUME AInv, NEW c \in Callers, Begin(c) \/ Caller(c)
  PROVE  /\ SearchLeft'[c] < SearchLeft[c]
         /\ \A d \in Callers \ {c} : SearchLeft'[d] = SearchLeft[d]
<1>1. /\ MaxRetries \in Nat /\ retries[c] \in 0 .. MaxRetries
      /\ retries \in [Callers -> 0 .. MaxRetries] /\ DOMAIN stage = Callers
  BY SearchConstants, TypesOfSearch DEF AInv, SInv, WInv
<1>2. \A d \in Callers \ {c} : retries'[d] = retries[d] /\ stage'[d] = stage[d]
  BY <1>1 DEF Begin, Caller, Prepare, Attempt, Collect, Retry, Wake, Degrade, Delivers, Ends, Moves
<1>3. \/ retries'[c] = retries[c] /\ CallerStage(stage'[c]) <= CallerStage(stage[c]) - 1
      \/ retries'[c] = retries[c] + 1 /\ CallerStage(stage'[c]) = CallerStage(stage[c]) + 2
  BY <1>1 DEF Begin, Caller, Prepare, Attempt, Collect, Retry, Wake, Degrade, Delivers, Ends, Moves,
     CallerStage
<1>4. CallerStage(stage[c]) \in Nat /\ CallerStage(stage'[c]) \in Nat
  BY DEF CallerStage
<1>5. SearchLeft'[c] = 3 * (MaxRetries - retries'[c]) + CallerStage(stage'[c])
  BY DEF SearchLeft, CallerStage
<1>6. SearchLeft[c] = 3 * (MaxRetries - retries[c]) + CallerStage(stage[c])
  BY DEF SearchLeft
<1>7. SearchLeft'[c] < SearchLeft[c]
  <2> DEFINE k == CallerStage(stage[c])
             j == CallerStage(stage'[c])
  <2>1. k \in Nat /\ j \in Nat
    BY <1>4
  <2>2. \/ retries'[c] = retries[c] /\ j <= k - 1
        \/ retries'[c] = retries[c] + 1 /\ j = k + 2
    BY <1>3
  <2>3. SearchLeft'[c] = 3 * (MaxRetries - retries'[c]) + j
        /\ SearchLeft[c] = 3 * (MaxRetries - retries[c]) + k
    BY <1>5, <1>6
  <2> HIDE DEF j, k
  <2> QED
    BY <1>1, <2>1, <2>2, <2>3
<1>8. \A d \in Callers \ {c} : SearchLeft'[d] = SearchLeft[d]
  BY <1>2 DEF SearchLeft
<1> QED
  BY <1>7, <1>8

\* A search takes at most 3 * max_retries + 4 steps, each of which uses up one
\* of its own; no worker, late or not, and no other search gives it one more or
\* takes one away (resilient.py:98-119, _retry.py:79-89).
SearchRunsOut ==
  /\ [](\A c \in Callers : SearchLeft[c] \in 0 .. 3 * MaxRetries + 4)
  /\ [][\A c \in Callers : IF Begin(c) \/ Caller(c) THEN SearchLeft'[c] < SearchLeft[c]
                                                    ELSE SearchLeft'[c] = SearchLeft[c]]_searchVars

THEOREM SearchEnds == SearchSpec => SearchRunsOut
<1>1. AInv => \A c \in Callers : SearchLeft[c] \in 0 .. 3 * MaxRetries + 4
  BY SearchLeftTyped
<1>2. ASSUME AInv, [SearchNext]_searchVars
      PROVE  [\A c \in Callers : IF Begin(c) \/ Caller(c) THEN SearchLeft'[c] < SearchLeft[c]
                                                          ELSE SearchLeft'[c] = SearchLeft[c]]_searchVars
  <2> SUFFICES ASSUME ~UNCHANGED searchVars, NEW c \in Callers
               PROVE  IF Begin(c) \/ Caller(c) THEN SearchLeft'[c] < SearchLeft[c]
                                               ELSE SearchLeft'[c] = SearchLeft[c]
    BY <1>2
  <2>1. CASE Begin(c) \/ Caller(c)
    BY <1>2, <2>1, CallerStepsLeft
  <2>2. ASSUME NEW d \in Callers \ {c}, Begin(d) \/ Caller(d)
        PROVE  SearchLeft'[c] = SearchLeft[c]
    BY <1>2, <2>2, CallerStepsLeft
  <2>3. ASSUME NEW w \in Workers, Worker(w)
        PROVE  SearchLeft'[c] = SearchLeft[c]
    <3>1. UNCHANGED callerVars
      BY <2>3 DEF Worker, AskDirectly, Admit, Queue, RefuseCall, Answer, BackOff, SendAgain, Fail
    <3> QED
      BY <3>1 DEF callerVars, SearchLeft, CallerStage
  <2> QED
    BY <1>2, <2>1, <2>2, <2>3 DEF SearchNext
<1> QED
  BY <1>1, <1>2, SearchInvariance, PTL DEF SearchSpec, SearchRunsOut
=============================================================================
