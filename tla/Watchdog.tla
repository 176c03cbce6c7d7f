------------------------------ MODULE Watchdog ------------------------------
(***************************************************************************)
(* The keep-alive watchdog (core/watchdog): Watchdog.run() starts a worker *)
(* and checks, max_ticks times, a heartbeat interval apart, that its last  *)
(* keep-alive is recent; a worker that has fallen is killed and started    *)
(* again, max_restarts times at most.                                      *)
(*                                                                         *)
(* The worker is another thread or process, driven through start, kill and *)
(* heartbeat.  It beats at least every BeatEvery while it is healthy and   *)
(* may fall at any moment: hang, so that its last beat grows old, or be    *)
(* gone, so that heartbeat() raises.  Between two statements the watchdog  *)
(* may be kept waiting for up to Delay: what it read may be old by then.   *)
(***************************************************************************)
EXTENDS Integers, Sequences, FiniteSets

CONSTANTS
  Interval,     \* heartbeat_interval_s, in clock ticks
  Timeout,      \* liveness_timeout_s
  MaxRestarts,  \* max_restarts
  MaxTicks,     \* max_ticks of run()
  BeatEvery,    \* longest time between two beats of a healthy worker
  Delay         \* longest time the watchdog takes from one statement to the next

ASSUME WatchdogAssumption ==
  /\ Interval \in Nat \ {0} /\ Timeout \in Nat \ {0}
  /\ MaxRestarts \in Nat /\ MaxTicks \in Nat \ {0}
  /\ BeatEvery \in Nat \ {0} /\ Delay \in Nat

VARIABLES
  now,        \* the monotonic clock
  worker,     \* "off", "beating", "hung" or "gone"
  last_beat,  \* time of the worker's last keep-alive
  at,         \* what run() does next
  due,        \* when it may do it; it does by due + Delay
  seen,       \* last_beat as _is_alive() read it
  tick,       \* the check run() is at
  restarts,
  fell,       \* the result's fell
  actions,    \* the actions logged
  falls       \* history: when the worker fell, each time it did

workerVars == <<worker, last_beat, falls>>
vars == <<now, workerVars, at, due, seen, tick, restarts, fell, actions>>

Goes(where, when) == at' = where /\ due' = when

-----------------------------------------------------------------------------
(* run() *)

\* start(): a started worker beats at once.
Start ==
  /\ at = "starting"
  /\ worker' = "beating" /\ last_beat' = now
  /\ actions' = IF tick = 0 THEN actions ELSE Append(actions, "restart")
  /\ IF tick < MaxTicks THEN Goes("sleeping", now + Interval) ELSE Goes("ended", now)
  /\ UNCHANGED <<now, falls, seen, tick, restarts, fell>>

\* sleep() is over.
Check ==
  /\ at = "sleeping" /\ now >= due
  /\ tick' = tick + 1
  /\ Goes("asking", now)
  /\ UNCHANGED <<now, workerVars, seen, restarts, fell, actions>>

\* Mutant: a heartbeat() that raises is passed over.
AskTrusting ==
  /\ at = "asking"
  /\ Goes("judging", now) /\ seen' = IF worker = "gone" THEN now ELSE last_beat
  /\ UNCHANGED <<now, workerVars, tick, restarts, fell, actions>>

\* _is_alive() asks for the last beat; heartbeat() of a worker that is gone
\* raises, and that is a fall.
Ask ==
  /\ at = "asking"
  /\ IF worker = "gone"
       THEN Goes("fallen", now) /\ UNCHANGED seen
       ELSE Goes("judging", now) /\ seen' = last_beat
  /\ UNCHANGED <<now, workerVars, tick, restarts, fell, actions>>

\* Mutant: a beat as old as the window is already stale.
RecentTooStrict == now - seen < Timeout

Recent == now - seen <= Timeout

\* ... and compares it with the clock, read only then.
Judge ==
  /\ at = "judging"
  /\ IF ~Recent THEN Goes("fallen", now)
     ELSE IF tick < MaxTicks THEN Goes("sleeping", now + Interval)
     ELSE Goes("ended", now)
  /\ UNCHANGED <<now, workerVars, seen, tick, restarts, fell, actions>>

\* Mutant: the last restart is not used.
RestartsLeftFewer == restarts + 1 < MaxRestarts

RestartsLeft == restarts < MaxRestarts

\* detect, kill, and either give up or go on to start it again.
Kill ==
  /\ at = "fallen"
  /\ worker' = "off"
  /\ IF RestartsLeft
       THEN /\ restarts' = restarts + 1
            /\ actions' = actions \o <<"detect", "kill">>
            /\ Goes("starting", now)
            /\ UNCHANGED fell
       ELSE /\ fell' = TRUE
            /\ actions' = actions \o <<"detect", "kill", "give_up">>
            /\ Goes("ended", now)
            /\ UNCHANGED restarts
  /\ UNCHANGED <<now, last_beat, falls, seen, tick>>

-----------------------------------------------------------------------------
(* The worker and the clock *)

Beat ==
  /\ worker = "beating" /\ last_beat < now
  /\ last_beat' = now
  /\ UNCHANGED <<now, worker, falls, at, due, seen, tick, restarts, fell, actions>>

Fall ==
  /\ worker = "beating" /\ at # "ended"
  /\ worker' \in {"hung", "gone"}
  /\ falls' = Append(falls, now)
  /\ UNCHANGED <<now, last_beat, at, due, seen, tick, restarts, fell, actions>>

Pass ==
  /\ at # "ended" /\ now < due + Delay
  /\ worker = "beating" => now < last_beat + BeatEvery
  /\ now' = now + 1
  /\ UNCHANGED <<workerVars, at, due, seen, tick, restarts, fell, actions>>

Over == at = "ended" /\ UNCHANGED vars

Init ==
  /\ now = 0 /\ worker = "off" /\ last_beat = 0 /\ falls = <<>>
  /\ at = "starting" /\ due = 0 /\ seen = 0
  /\ tick = 0 /\ restarts = 0 /\ fell = FALSE /\ actions = <<>>

Supervise == Start \/ Check \/ Ask \/ Judge \/ Kill

Next == Supervise \/ Beat \/ Fall \/ Pass \/ Over

Spec == Init /\ [][Next]_vars

-----------------------------------------------------------------------------
\* Every variable has its type; the watchdog is never later than Delay.
TypeOK ==
  /\ now \in Nat /\ last_beat \in 0 .. now /\ seen \in 0 .. now
  /\ worker \in {"off", "beating", "hung", "gone"}
  /\ at \in {"starting", "sleeping", "asking", "judging", "fallen", "ended"}
  /\ due \in Nat /\ now <= due + Delay
  /\ tick \in 0 .. MaxTicks /\ restarts \in 0 .. MaxRestarts /\ fell \in BOOLEAN
  /\ actions \in Seq({"detect", "kill", "restart", "give_up"})
  /\ falls \in Seq(0 .. now)

\* A worker that beats in time is never killed, though its last beat is read
\* before the clock it is compared with: the liveness window only has to leave
\* room for the wait between the two (_watchdog.py:138-142).
HealthyNeverKilled ==
  BeatEvery + Delay <= Timeout /\ at = "fallen" => worker # "beating"

\* A worker that has fallen is found out within the liveness window, one
\* interval and the delays of one check, however the fall meets a check that
\* is under way, unless run() is out of ticks by then (_watchdog.py:114-118).
FallFoundInTime ==
  worker \in {"hung", "gone"} /\ at \notin {"fallen", "ended"} =>
    now <= falls[Len(falls)] + Timeout + Interval + 3 * Delay

\* Where beats come in time, every kill answers a fall of its own, so that the
\* watchdog gives up exactly after max_restarts + 1 falls, and its log tells
\* each of them: detect, kill and restart, or give_up at the last.
Occurrences(a) == Cardinality({i \in DOMAIN actions : actions[i] = a})
ActionsAnswerFalls ==
  BeatEvery + Delay <= Timeout =>
    /\ Occurrences("kill") = Occurrences("detect")
    /\ Occurrences("kill") + (IF worker \in {"hung", "gone"} THEN 1 ELSE 0) = Len(falls)
    /\ fell => Len(falls) = MaxRestarts + 1 /\ Occurrences("restart") = MaxRestarts
    /\ fell <=> Occurrences("give_up") = 1
=============================================================================
