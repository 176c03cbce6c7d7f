------------------------------ MODULE DebateApi ------------------------------
(***************************************************************************)
(* One debate served by the API: the engine's debate thread, the           *)
(* background worker that drains DebateEngine.stream, the EventBuffer, the *)
(* DebateRecord in the DebateStore, the SSE connections and the GET        *)
(* requests of the record.                                                 *)
(*                                                                         *)
(*   debate thread --queue--> worker --publish--> EventBuffer --> readers  *)
(*                              \--mark_done / mark_failed--> DebateRecord *)
(*                                                                         *)
(* The events are numbered 1, 2, ... and 0 is the _DONE sentinel.  What the *)
(* debate thread does between events is DebateLoop.                        *)
(*                                                                         *)
(* The debate thread is a thread of its own.  The worker and every next()  *)
(* of a reader's iterator are synchronous and run on the server's bounded  *)
(* pool of threads; the routes themselves are not and do not.              *)
(***************************************************************************)
EXTENDS Integers, Sequences, FiniteSets

CONSTANTS
  LastEvent,  \* events of a debate that runs to its end
  Readers,    \* SSE connections to /debates/{id}/stream
  Polls,      \* GET requests of /debates/{id}
  Threads     \* threads of the server's pool

ASSUME DebateApiAssumption ==
  LastEvent \in Nat \ {0} /\ IsFiniteSet(Readers) /\ Threads \in Nat \ {0}

Done == 0

VARIABLES
  debate,    \* debate thread: "unborn", "running", "ending" (box set), "over"
  emitted,   \* events its sink has pushed
  queue,     \* stream_debate's queue
  box,       \* stream_debate's box: "empty", "result", "error" (an Exception)
             \* or "fatal" (any other BaseException)
  worker,    \* _run_debate: "scheduled" (awaits a thread), "setup", "reading",
             \* "publishing", "joining", "finishing" (mark_done or mark_failed
             \* called), "marking" (status written), "closing" (lock released),
             \* "returned", "died" (it raised)
  item,      \* the event the worker holds
  events,    \* EventBuffer._events
  closed,    \* EventBuffer._closed
  record,    \* the DebateRecord's status, result and error
  locked,    \* DebateStore._lock
  reader,    \* reader -> "away", "asking" (its next() awaits a thread),
             \* "checking", "waiting" (cond.wait), "drained", "gone"
  sent,      \* reader -> the events sent to it
  farewell,  \* reader -> the status in its done record
  poll,      \* poll -> what get_debate does next
  response   \* poll -> what it has read so far

runVars == <<debate, emitted, queue, box>>
workerVars == <<worker, item>>
bufferVars == <<events, closed>>
storeVars == <<record, locked>>
readerVars == <<reader, sent, farewell>>
pollVars == <<poll, response>>
vars == <<runVars, workerVars, bufferVars, storeVars, readerVars, pollVars>>

Unknown == "none"

-----------------------------------------------------------------------------
(* The pool: a next() that waits for an event keeps its thread meanwhile.   *)

Held == {r \in Readers : reader[r] \in {"checking", "waiting", "drained"}}

AtWork == worker \notin {"scheduled", "returned", "died"}

HasRoom == Cardinality(Held) + (IF AtWork THEN 1 ELSE 0) < Threads

-----------------------------------------------------------------------------
(* The debate thread of stream_debate. *)

Emit ==
  /\ debate = "running" /\ emitted < LastEvent
  /\ emitted' = emitted + 1
  /\ queue' = Append(queue, emitted + 1)
  /\ UNCHANGED <<debate, box, workerVars, bufferVars, storeVars, readerVars, pollVars>>

EndsWith(outcome) ==
  /\ box' = outcome
  /\ debate' = "ending"
  /\ UNCHANGED <<emitted, queue, workerVars, bufferVars, storeVars, readerVars, pollVars>>

CompleteRun == debate = "running" /\ emitted = LastEvent /\ EndsWith("result")

\* The thread catches whatever is raised, Exception or not.
RunRaises == debate = "running" /\ \E outcome \in {"error", "fatal"} : EndsWith(outcome)

\* The finally clause.
PutDone ==
  /\ debate = "ending"
  /\ queue' = Append(queue, Done)
  /\ debate' = "over"
  /\ UNCHANGED <<emitted, box, workerVars, bufferVars, storeVars, readerVars, pollVars>>

-----------------------------------------------------------------------------
(* The background worker: _run_debate over default_stream_runner. *)

TakeThread ==
  /\ worker = "scheduled" /\ HasRoom
  /\ worker' = "setup"
  /\ UNCHANGED <<runVars, item, bufferVars, storeVars, readerVars, pollVars>>

StartRun ==
  /\ worker = "setup"
  /\ debate' = "running" /\ worker' = "reading"
  /\ UNCHANGED <<emitted, queue, box, item, bufferVars, storeVars, readerVars, pollVars>>

\* _run_debate handles a result and an Exception; anything else ends it.
Handles(outcome) == IF outcome = "fatal" THEN "died" ELSE "finishing"

\* setup_debate refuses the topic, say, before there is a debate thread.
SetupRaises ==
  /\ worker = "setup"
  /\ box' \in {"error", "fatal"} /\ worker' = Handles(box')
  /\ UNCHANGED <<debate, emitted, queue, item, bufferVars, storeVars, readerVars, pollVars>>

IsDone(x) == x = Done

GetEvent ==
  /\ worker = "reading" /\ queue # <<>>
  /\ item' = Head(queue)
  /\ queue' = Tail(queue)
  /\ worker' = IF IsDone(Head(queue)) THEN "joining" ELSE "publishing"
  /\ UNCHANGED <<debate, emitted, box, bufferVars, storeVars, readerVars, pollVars>>

\* Mutant: notify() wakes one waiting reader.
NotifyOne ==
  IF \E r \in Readers : reader[r] = "waiting"
    THEN \E r \in Readers :
           reader[r] = "waiting" /\ reader' = [reader EXCEPT ![r] = "checking"]
    ELSE reader' = reader

\* notify_all under the buffer's condition.
Notify == reader' = [r \in Readers |-> IF reader[r] = "waiting" THEN "checking" ELSE reader[r]]

Publish ==
  /\ worker = "publishing"
  /\ events' = Append(events, item)
  /\ Notify
  /\ worker' = "reading"
  /\ UNCHANGED <<runVars, item, closed, storeVars, sent, farewell, pollVars>>

Join ==
  /\ worker = "joining" /\ debate = "over"
  /\ worker' = Handles(box)
  /\ UNCHANGED <<runVars, item, bufferVars, storeVars, readerVars, pollVars>>

FinalStatus == IF box = "result" THEN "done" ELSE "failed"

\* Mutant: mark_failed closes the buffer but leaves the status alone.
MarkDoneOnly == IF box = "result" THEN [record EXCEPT !.status = "done"] ELSE record

MarkStatus == [record EXCEPT !.status = FinalStatus]

\* mark_done / mark_failed: two assignments under the store's lock ...
Mark ==
  /\ worker = "finishing" /\ ~locked
  /\ locked' = TRUE
  /\ record' = MarkStatus
  /\ worker' = "marking"
  /\ UNCHANGED <<runVars, item, bufferVars, readerVars, pollVars>>

\* Mutant: mark_failed leaves the error out.
StoreNoError ==
  IF box = "result" THEN [record EXCEPT !.result = box] ELSE record

StoreOutcome ==
  IF box = "result" THEN [record EXCEPT !.result = box] ELSE [record EXCEPT !.error = box]

Store ==
  /\ worker = "marking"
  /\ record' = StoreOutcome
  /\ locked' = FALSE
  /\ worker' = "closing"
  /\ UNCHANGED <<runVars, item, bufferVars, readerVars, pollVars>>

\* ... then events.close(), outside it.
Close ==
  /\ worker = "closing"
  /\ closed' = TRUE
  /\ Notify
  /\ worker' = "returned"
  /\ UNCHANGED <<runVars, item, events, storeVars, sent, farewell, pollVars>>

Worker == StartRun \/ SetupRaises \/ GetEvent \/ Publish \/ Join \/ Mark \/ Store \/ Close
DebateThread == Emit \/ CompleteRun \/ RunRaises \/ PutDone

-----------------------------------------------------------------------------
(* EventBuffer.stream behind _sse_events: the cursor of a reader is the     *)
(* number of events it was sent.                                            *)

Goes(r, where) == reader' = [reader EXCEPT ![r] = where]

Connect(r) ==
  /\ reader[r] = "away"
  /\ Goes(r, "asking")
  /\ UNCHANGED <<runVars, workerVars, bufferVars, storeVars, sent, farewell, pollVars>>

\* The next() of the iterator is given a thread, which it keeps until it yields.
Ask(r) ==
  /\ reader[r] = "asking" /\ HasRoom
  /\ Goes(r, "checking")
  /\ UNCHANGED <<runVars, workerVars, bufferVars, storeVars, sent, farewell, pollVars>>

\* Mutant: a closed buffer ends the stream, read or not.
DrainedEarly(r) == closed

Drained(r) == Len(sent[r]) >= Len(events) /\ closed

Wait(r) ==
  /\ reader[r] = "checking" /\ Len(sent[r]) >= Len(events) /\ ~closed
  /\ Goes(r, "waiting")
  /\ UNCHANGED <<runVars, workerVars, bufferVars, storeVars, sent, farewell, pollVars>>

Send(r) ==
  /\ reader[r] = "checking" /\ Len(sent[r]) < Len(events)
  /\ sent' = [sent EXCEPT ![r] = Append(@, events[Len(@) + 1])]
  /\ Goes(r, "asking")
  /\ UNCHANGED <<runVars, workerVars, bufferVars, storeVars, farewell, pollVars>>

Exhaust(r) ==
  /\ reader[r] = "checking" /\ Drained(r)
  /\ Goes(r, "drained")
  /\ UNCHANGED <<runVars, workerVars, bufferVars, storeVars, sent, farewell, pollVars>>

\* The done record carries the status read then, without the store's lock.
SayDone(r) ==
  /\ reader[r] = "drained"
  /\ farewell' = [farewell EXCEPT ![r] = record.status]
  /\ Goes(r, "gone")
  /\ UNCHANGED <<runVars, workerVars, bufferVars, storeVars, sent, pollVars>>

Reader(r) == Wait(r) \/ Send(r) \/ Exhaust(r) \/ SayDone(r)

-----------------------------------------------------------------------------
(* get_debate: DebateStore.get looks the record up under the lock, then its *)
(* three fields are read one after the other without it.                    *)

Reads(p, next, field, value) ==
  /\ response' = [response EXCEPT ![p][field] = value]
  /\ poll' = [poll EXCEPT ![p] = next]
  /\ UNCHANGED <<runVars, workerVars, bufferVars, storeVars, readerVars>>

Lookup(p) ==
  /\ poll[p] = "called" /\ ~locked
  /\ Reads(p, "status", "after_done", \E r \in Readers : reader[r] = "gone")

PollStatus(p) == poll[p] = "status" /\ Reads(p, "result", "status", record.status)
PollResult(p) == poll[p] = "result" /\ Reads(p, "error", "result", record.result)
PollError(p) == poll[p] = "error" /\ Reads(p, "answered", "error", record.error)

Poll(p) == Lookup(p) \/ PollStatus(p) \/ PollResult(p) \/ PollError(p)

-----------------------------------------------------------------------------
\* The worker raised, as _run_debate is said never to: nobody closes the buffer.
Died == worker = "died"

\* The run awaits a thread, and every thread is one of a reader that awaits
\* the first event of the run.
Starved ==
  /\ worker = "scheduled"
  /\ Cardinality({r \in Readers : reader[r] = "waiting"}) = Threads

\* Nothing more is to come of the run; the server goes on, whoever connects.
Over == (worker = "returned" \/ Died \/ Starved) /\ UNCHANGED vars

\* start_debate has created the record and scheduled the worker.
Init ==
  /\ debate = "unborn" /\ emitted = 0 /\ queue = <<>> /\ box = "empty"
  /\ worker = "scheduled" /\ item = Done
  /\ events = <<>> /\ closed = FALSE
  /\ record = [status |-> "running", result |-> Unknown, error |-> Unknown] /\ locked = FALSE
  /\ reader = [r \in Readers |-> "away"]
  /\ sent = [r \in Readers |-> <<>>] /\ farewell = [r \in Readers |-> Unknown]
  /\ poll = [p \in Polls |-> "called"]
  /\ response = [p \in Polls |-> [status |-> Unknown, result |-> Unknown, error |-> Unknown,
                                   after_done |-> FALSE]]

Next ==
  \/ DebateThread \/ TakeThread \/ Worker
  \/ \E r \in Readers : Connect(r) \/ Ask(r) \/ Reader(r)
  \/ \E p \in Polls : Poll(p)
  \/ Over

\* Threads are scheduled; a debate thread comes to its end (every call of it
\* does, see TurnCall).  Whoever awaits a thread of the pool is served in the
\* order of asking, so that nobody is passed over for ever while threads come
\* free: strong fairness.  Nobody has to connect.
Spec ==
  /\ Init /\ [][Next]_vars
  /\ WF_vars(DebateThread) /\ SF_vars(TakeThread) /\ WF_vars(Worker)
  /\ \A r \in Readers : SF_vars(Ask(r)) /\ WF_vars(Reader(r))

-----------------------------------------------------------------------------
Statuses == {"running", "done", "failed", Unknown}
Outcomes == {"result", "error", Unknown}
Numbers == Seq(1 .. LastEvent)

\* Every variable ranges over what the code keeps in it.
TypeOK ==
  /\ debate \in {"unborn", "running", "ending", "over"} /\ emitted \in 0 .. LastEvent
  /\ queue \in Seq(0 .. LastEvent) /\ box \in {"empty", "result", "error", "fatal"}
  /\ worker \in {"scheduled", "setup", "reading", "publishing", "joining", "finishing",
                 "marking", "closing", "returned", "died"}
  /\ item \in 0 .. LastEvent /\ events \in Numbers
  /\ closed \in BOOLEAN /\ locked \in BOOLEAN
  /\ record \in [status : Statuses \ {Unknown}, result : Outcomes, error : Outcomes]
  /\ reader \in [Readers -> {"away", "asking", "checking", "waiting", "drained", "gone"}]
  /\ sent \in [Readers -> Numbers] /\ farewell \in [Readers -> Statuses]
  /\ poll \in [Polls -> {"called", "status", "result", "error", "answered"}]
  /\ response \in [Polls -> [status : Statuses, result : Outcomes, error : Outcomes,
                             after_done : BOOLEAN]]

Feed == INSTANCE LiveFeed WITH
  Last <- LastEvent, produced <- emitted, over <- (box # "empty"),
  delivered <- sent, told <- {r \in Readers : reader[r] = "gone"}

\* Queue, buffer and the threads between them keep the promise of live
\* streaming to every reader, connected early or late (event_buffer.py:10-18).
ImplementsLiveFeed == Feed!Spec

\* A client that asks for the result once it was told done gets a final status
\* and the outcome that goes with it (app.js:305-309, showVerdict).
ResultBehindDone ==
  \A p \in Polls : poll[p] = "answered" /\ response[p].after_done =>
    \/ response[p].status = "done" /\ response[p].result = "result"
    \/ response[p].status = "failed" /\ response[p].error = "error"

\* The status in the done record is final: the outcome it names is stored
\* before any reader can be told, and there for whoever asks from then on
\* (debate_store.py:72-86, debate_routes.py:131).
FarewellIsFinal ==
  /\ \A r \in Readers : reader[r] = "gone" =>
       /\ farewell[r] = record.status /\ record.status # "running"
       /\ farewell[r] = "done" <=> record.result = "result"
  /\ ResultBehindDone

\* Every reader that connects is told done in the end, whether it waits for a
\* live event, for the close or comes when all is over; unless the worker died
\* of an error _run_debate does not catch (debate_routes.py:55-60), or the
\* readers took every thread of the pool before the run had one.
ReadersEnd ==
  \A r \in Readers : reader[r] = "asking" ~> reader[r] = "gone" \/ Died \/ Starved
=============================================================================
