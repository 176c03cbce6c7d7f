------------------------------ MODULE TurnCall ------------------------------
(***************************************************************************)
(* The model calls of one run, one per turn (engine/_call.py, run by       *)
(* engine/turn.py), each bounded by search/_timeout.py: an attempt runs    *)
(* gatekeeper.execute on a daemon worker thread, the turn thread joins it  *)
(* for turn_timeout_s, and a worker that is late is abandoned, not         *)
(* stopped.  An abandoned worker keeps its concurrency slot of the         *)
(* gatekeeper, and may still answer, fail or be queued at any later time.  *)
(*                                                                         *)
(* There is no clock: a join or a backoff may end at any moment, and a     *)
(* call finds room in the per-minute window for certain only while fewer   *)
(* calls than the window holds were ever admitted.                         *)
(***************************************************************************)
EXTENDS Integers, FiniteSets, Sequences

CONSTANTS
  Turns,          \* model calls the run makes, one after the other
  MaxRetries,     \* config.max_retries: attempts of a turn after the first
  ConcurrentMax,  \* concurrent_max of the service (LOOP_MODEL_SERVICE)
  PerMinute,      \* requests_per_minute of the service
  QueueDepth,     \* queue_max_depth of the service
  Unset,          \* the _UNSET sentinel of run_with_timeout
  None            \* what execute returns for a call it queued

ASSUME TurnCallAssumption ==
  /\ Turns \in Nat \ {0} /\ MaxRetries \in Nat
  /\ ConcurrentMax \in Nat \ {0} /\ PerMinute \in Nat \ {0} /\ QueueDepth \in Nat \ {0}
  /\ Unset # None

Attempts == 1 .. MaxRetries + 1
Workers == (1 .. Turns) \X Attempts

Transient == {"TimeoutError", "ConnectionError"}
Raised == Transient \cup {"ValueError", "QueueFullError"}
NoError == "no error"

ASSUME SentinelAssumption == Unset \notin Workers /\ None \notin Workers

VARIABLES
  turn,      \* the turn whose call is being made
  retries,   \* run_with_retry's counter in that call
  phase,     \* where the turn thread stands in it
  thread,    \* worker -> "new", "started", "executing" (admitted) or "finished"
  box,       \* the cell a worker's closure writes its value to
  error,     \* the cell it writes its exception to
  admitted,  \* calls the gatekeeper has counted in its windows
  queued,    \* workers whose call the gatekeeper put in its queue
  late,      \* workers the turn thread gave up on, still running
  outcome,   \* turn -> "pending", "answered", "failed", "no_result" or "crashed"
  answer,    \* turn -> the value its turn goes on with
  log        \* turn -> the timeout, retry and failed events of _CallLog

callVars == <<turn, retries, phase, late, outcome, answer, log>>
gateVars == <<admitted, queued>>
vars == <<callVars, thread, box, error, gateVars>>

-----------------------------------------------------------------------------
Current == <<turn, retries + 1>>

\* Mutant: one pair of cells per turn, shared by its attempts.
CellPerTurn(w) == <<w[1], 1>>

\* Every run_with_timeout call makes cells of its own, closed over by its
\* worker: a late worker writes to cells nobody reads any more.
CellOf(w) == w

Executing == {w \in Workers : thread[w] = "executing"}

\* Mutant: a call that ended without an answer keeps its slot.
InFlightLeaking == Cardinality({w \in Workers :
                       \/ thread[w] = "executing"
                       \/ thread[w] = "finished" /\ error[CellOf(w)] # NoError})

InFlight == Cardinality(Executing)

Started(w) == thread' = [thread EXCEPT ![w] = "started"]
Finished(w) == thread' = [thread EXCEPT ![w] = "finished"]
Returns(w, value) == box' = [box EXCEPT ![CellOf(w)] = value] /\ UNCHANGED error
Raises(w, exception) == error' = [error EXCEPT ![CellOf(w)] = exception] /\ UNCHANGED box

-----------------------------------------------------------------------------
(* The worker threads. *)

Admit(w) ==
  /\ thread[w] = "started"
  /\ InFlight < ConcurrentMax
  /\ admitted' = admitted + 1
  /\ thread' = [thread EXCEPT ![w] = "executing"]
  /\ UNCHANGED <<callVars, box, error, queued>>

NoRoom == InFlight >= ConcurrentMax \/ admitted >= PerMinute

\* execute queues the call and returns None: nothing in the engine drains it.
Queue(w) ==
  /\ thread[w] = "started" /\ NoRoom
  /\ Cardinality(queued) < QueueDepth
  /\ queued' = queued \cup {w}
  /\ Returns(w, None)
  /\ Finished(w)
  /\ UNCHANGED <<callVars, admitted>>

RefuseCall(w) ==
  /\ thread[w] = "started" /\ NoRoom
  /\ Cardinality(queued) >= QueueDepth
  /\ Raises(w, "QueueFullError")
  /\ Finished(w)
  /\ UNCHANGED <<callVars, gateVars>>

\* The provider answers (the value is known by the worker that asked for it).
Answer(w) ==
  /\ thread[w] = "executing"
  /\ Returns(w, w)
  /\ Finished(w)
  /\ UNCHANGED <<callVars, gateVars>>

\* The gatekeeper's own retries are spent, or the error is not transient.
Fail(w) ==
  /\ thread[w] = "executing"
  /\ \E e \in Transient \cup {"ValueError"} : Raises(w, e)
  /\ Finished(w)
  /\ UNCHANGED <<callVars, gateVars>>

-----------------------------------------------------------------------------
(* The turn thread: run_with_retry around run_with_timeout. *)

StartAttempt ==
  /\ phase = "attempting"
  /\ Started(Current)
  /\ phase' = "joining"
  /\ UNCHANGED <<turn, retries, late, outcome, answer, log, box, error, gateVars>>

\* Mutant: join() without a timeout.
JoinForever == thread[Current] = "finished"

\* join(turn_timeout_s) ends, whatever the worker does.
JoinEnds == TRUE

\* The join ends because the worker did or because turn_timeout_s passed; a
\* worker may still finish before is_alive() is asked.
Join ==
  /\ phase = "joining" /\ JoinEnds
  /\ phase' = "joined"
  /\ UNCHANGED <<turn, retries, late, outcome, answer, log, thread, box, error, gateVars>>

NextTurn ==
  /\ turn' = IF turn = Turns THEN turn ELSE turn + 1
  /\ retries' = IF turn = Turns THEN retries ELSE 0
  /\ phase' = IF turn = Turns THEN "done" ELSE "attempting"

Crash(how) ==
  /\ outcome' = [outcome EXCEPT ![turn] = how]
  /\ phase' = "crashed"
  /\ UNCHANGED <<turn, retries, answer>>

Returned ==
  /\ phase = "joined" /\ thread[Current] = "finished"
  /\ error[CellOf(Current)] = NoError

\* The turn goes on with the value its call returned.
Succeed ==
  /\ Returned /\ box[CellOf(Current)] # None
  /\ outcome' = [outcome EXCEPT ![turn] = "answered"]
  /\ answer' = [answer EXCEPT ![turn] = box[CellOf(Current)]]
  /\ NextTurn
  /\ UNCHANGED <<late, log, thread, box, error, gateVars>>

\* The call was queued: run_debate_turn raises RuntimeError (a closing turn an
\* AttributeError), which nothing catches.
NoResult ==
  /\ Returned /\ box[CellOf(Current)] = None
  /\ Crash("no_result")
  /\ UNCHANGED <<late, log, thread, box, error, gateVars>>

\* What the attempt raised: the late worker's TimeoutError, else its own error.
Exception == IF thread[Current] # "finished" THEN "TimeoutError" ELSE error[CellOf(Current)]

\* Mutant: one retry fewer than max_retries.
RetriesLeftFewer == retries + 1 < MaxRetries

RetriesLeft == retries < MaxRetries

GiveUp == late' = IF thread[Current] # "finished" THEN late \cup {Current} ELSE late

TimeoutEvents(e) == IF e = "TimeoutError" THEN <<"timeout">> ELSE <<>>

Raising == phase = "joined" /\ Exception # NoError

Retry ==
  /\ Raising /\ Exception \in Transient /\ RetriesLeft
  /\ retries' = retries + 1
  /\ log' = [log EXCEPT ![turn] = @ \o TimeoutEvents(Exception) \o <<"retry">>]
  /\ GiveUp
  /\ phase' = "sleeping"
  /\ UNCHANGED <<turn, outcome, answer, thread, box, error, gateVars>>

FailTurn ==
  /\ Raising /\ Exception \in Transient /\ ~RetriesLeft
  /\ log' = [log EXCEPT ![turn] = @ \o TimeoutEvents(Exception) \o <<"turn_failed">>]
  /\ GiveUp
  /\ outcome' = [outcome EXCEPT ![turn] = "failed"]
  /\ NextTurn
  /\ UNCHANGED <<answer, thread, box, error, gateVars>>

Propagate ==
  /\ Raising /\ Exception \notin Transient
  /\ Crash("crashed")
  /\ UNCHANGED <<late, log, thread, box, error, gateVars>>

Wake ==
  /\ phase = "sleeping"
  /\ phase' = "attempting"
  /\ UNCHANGED <<turn, retries, late, outcome, answer, log, thread, box, error, gateVars>>

Over == phase \in {"done", "crashed"} /\ UNCHANGED vars

Init ==
  /\ turn = 1 /\ retries = 0 /\ phase = "attempting"
  /\ thread = [w \in Workers |-> "new"]
  /\ box = [w \in Workers |-> Unset]
  /\ error = [w \in Workers |-> NoError]
  /\ admitted = 0 /\ queued = {} /\ late = {}
  /\ outcome = [t \in 1 .. Turns |-> "pending"]
  /\ answer = [t \in 1 .. Turns |-> Unset]
  /\ log = [t \in 1 .. Turns |-> <<>>]

TurnThread == StartAttempt \/ Join \/ Succeed \/ NoResult \/ Retry \/ FailTurn \/ Propagate \/ Wake
WorkerThread(w) == Admit(w) \/ Queue(w) \/ RefuseCall(w) \/ Answer(w) \/ Fail(w)

Next == TurnThread \/ (\E w \in Workers : WorkerThread(w)) \/ Over

\* The turn thread is scheduled and its sleeps and joins end.  Nothing is
\* assumed of the workers: a provider may never answer.
Spec == Init /\ [][Next]_vars /\ WF_vars(TurnThread)

-----------------------------------------------------------------------------
Phases == {"attempting", "joining", "joined", "sleeping", "done", "crashed"}
Outcomes == {"pending", "answered", "failed", "no_result", "crashed"}

\* Every variable ranges over what the code keeps in it, and run_with_retry
\* never counts more retries than max_retries.
TypeOK ==
  /\ turn \in 1 .. Turns /\ retries \in 0 .. MaxRetries /\ phase \in Phases
  /\ thread \in [Workers -> {"new", "started", "executing", "finished"}]
  /\ box \in [Workers -> Workers \cup {Unset, None}]
  /\ error \in [Workers -> Raised \cup {NoError}]
  /\ admitted \in Nat /\ queued \subseteq Workers /\ late \subseteq Workers
  /\ outcome \in [1 .. Turns -> Outcomes]
  /\ answer \in [1 .. Turns -> Workers \cup {Unset}]
  /\ log \in [1 .. Turns -> Seq({"timeout", "retry", "turn_failed"})]

Logged(t, event) == Cardinality({i \in DOMAIN log[t] : log[t][i] = event})

\* A turn goes on only with the answer to its own request, and with that of
\* the attempt it was waiting for: never with one an abandoned worker, of this
\* turn or an earlier one, came up with too late (_timeout.py:48-64).
AnswerIsCurrent ==
  \A t \in 1 .. Turns : outcome[t] = "answered" =>
    answer[t] = <<t, Logged(t, "retry") + 1>> /\ answer[t] \notin late

\* A turn is marked FAILED only when max_retries + 1 attempts were made, and
\* each was late or raised a transient error (_call.py:130-145).
FailedOnlyWhenSpent ==
  \A t \in 1 .. Turns : outcome[t] = "failed" =>
    /\ Logged(t, "retry") = MaxRetries /\ Logged(t, "turn_failed") = 1
    /\ \A a \in Attempts : <<t, a>> \in late \/ error[<<t, a>>] \in Transient

\* The run is lost to a queued call only once the workers given up on could
\* hold every slot, or the calls made so far fill the minute: with fewer late
\* workers than concurrent_max a run never meets None (turn.py:117-119).
QueuedOnlyWhenStarved ==
  (\E t \in 1 .. Turns : outcome[t] = "no_result") =>
    Cardinality(late) >= ConcurrentMax \/ admitted >= PerMinute

\* Every run ends, though a provider may never answer: turn_timeout_s bounds
\* each join and max_retries the number of them.
EveryRunEnds == <>(phase \in {"done", "crashed"})
=============================================================================
