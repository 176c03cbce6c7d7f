---------------------------- MODULE DebateApiProofs ---------------------------
(***************************************************************************)
(* What a served debate shows of itself, for any number of events, readers *)
(* and requests: its types, that the status in a done record is final and  *)
(* its outcome there, that queue, buffer and threads keep the promise of   *)
(* LiveFeed, that no wakeup is lost and that serving runs out.  Then, of   *)
(* the debate behind the events (Outcome), for any rounds and arguments:   *)
(* its types, that agreement is corrected in its round, that the verdict   *)
(* is even-handed, that a leader who speaks keeps the lead, and that the   *)
(* money adds up.                                                          *)
(*                                                                         *)
(* The argument for DebateApi: a reader is told done after the buffer was  *)
(* closed, which the worker does after it stored the outcome of a debate   *)
(* whose box no thread writes any more.  The queue goes on where the       *)
(* buffer, and the event the worker holds, leave off, and the sentinel is  *)
(* its last element.  The argument for Outcome stands before its part.     *)
(***************************************************************************)
EXTENDS DebateApi, Outcome, FiniteSetTheorems, SequenceTheorems, TLAPS

Ended == {"finishing", "marking", "closing", "returned"}

\* The box is written once, before the worker reads it.
BoxIsFinal ==
  /\ worker \in {"scheduled", "setup"} => debate = "unborn"
  /\ debate \in {"ending", "over"} => box # "empty"
  /\ worker \in Ended => box \in {"result", "error"} /\ debate \notin {"running", "ending"}
  /\ worker = "died" => box = "fatal" /\ debate \notin {"running", "ending"}
  /\ worker = "publishing" => item # Done

\* The record goes from running to its outcome, under the lock.
RecordFollowsWorker ==
  /\ worker \notin {"marking", "closing", "returned"} =>
       record = [status |-> "running", result |-> Unknown, error |-> Unknown]
  /\ worker = "marking" =>
       record = [status |-> FinalStatus, result |-> Unknown, error |-> Unknown]
  /\ worker \in {"closing", "returned"} =>
       record = [status |-> FinalStatus,
                 result |-> IF box = "result" THEN "result" ELSE Unknown,
                 error  |-> IF box = "result" THEN Unknown ELSE "error"]
  /\ closed <=> worker = "returned"

ReadersToldLast ==
  \A r \in Readers :
    /\ reader[r] \in {"drained", "gone"} => closed
    /\ reader[r] = "gone" => farewell[r] = record.status

\* What a request that came after a done record has read so far.
PollsReadOutcome ==
  \A p \in Polls : response[p].after_done /\ poll[p] # "called" =>
    /\ closed
    /\ poll[p] \in {"result", "error", "answered"} => response[p].status = record.status
    /\ poll[p] \in {"error", "answered"} => response[p].result = record.result
    /\ poll[p] = "answered" => response[p].error = record.error

Parts == BoxIsFinal /\ RecordFollowsWorker /\ ReadersToldLast /\ PollsReadOutcome

IInv == TypeOK /\ Parts

-----------------------------------------------------------------------------
(* Every action keeps the invariant. *)

LEMMA InitEstablishes == Init => IInv
<1> SUFFICES ASSUME Init PROVE IInv
  OBVIOUS
<1>1. /\ debate \in {"unborn", "running", "ending", "over"}
      /\ box \in {"empty", "result", "error", "fatal"}
      /\ emitted \in 0 .. LastEvent /\ item \in 0 .. LastEvent
      /\ queue \in Seq(0 .. LastEvent) /\ events \in Numbers
  BY DebateApiAssumption DEF Init, Done, Numbers
<1>2. closed \in BOOLEAN /\ locked \in BOOLEAN
  BY DEF Init
<1>3. record \in [status : Statuses \ {Unknown}, result : Outcomes, error : Outcomes]
  BY DEF Init, Statuses, Outcomes, Unknown
<1>4. /\ reader \in [Readers -> {"away", "asking", "checking", "waiting", "drained", "gone"}]
      /\ sent \in [Readers -> Numbers] /\ farewell \in [Readers -> Statuses]
  BY DEF Init, Numbers, Statuses
<1>5. /\ poll \in [Polls -> {"called", "status", "result", "error", "answered"}]
      /\ response \in [Polls -> [status : Statuses, result : Outcomes, error : Outcomes,
                                 after_done : BOOLEAN]]
  BY DEF Init, Statuses, Outcomes
<1>6. TypeOK
  BY <1>1, <1>2, <1>3, <1>4, <1>5 DEF Init, TypeOK
<1>7. Parts
  BY DEF Init, Parts, BoxIsFinal, RecordFollowsWorker, ReadersToldLast, PollsReadOutcome,
     Ended
<1> QED
  BY <1>6, <1>7 DEF IInv

\* The types the other steps need, and the parts by name.
LEMMA Types ==
  ASSUME IInv
  PROVE  /\ emitted \in 0 .. LastEvent
         /\ queue \in Seq(0 .. LastEvent)
         /\ item \in 0 .. LastEvent
         /\ events \in Numbers /\ box \in {"empty", "result", "error", "fatal"}
         /\ record \in [status : Statuses \ {Unknown}, result : Outcomes, error : Outcomes]
         /\ reader \in [Readers -> {"away", "asking", "checking", "waiting", "drained", "gone"}]
         /\ sent \in [Readers -> Numbers] /\ farewell \in [Readers -> Statuses]
         /\ poll \in [Polls -> {"called", "status", "result", "error", "answered"}]
         /\ response \in [Polls -> [status : Statuses, result : Outcomes, error : Outcomes,
                                    after_done : BOOLEAN]]
         /\ BoxIsFinal /\ RecordFollowsWorker /\ ReadersToldLast /\ PollsReadOutcome
  BY DEF IInv, TypeOK, Parts

\* A step of a request changes what it has read and nothing else.
LEMMA ReadsGood ==
  ASSUME IInv, NEW p \in Polls, NEW next \in {"status", "result", "error", "answered"},
         NEW value, NEW field \in {"status", "result", "error", "after_done"},
         Reads(p, next, field, value), field \in {"status", "result", "error"} =>
           value \in (IF field = "status" THEN Statuses ELSE Outcomes),
         field = "after_done" => value \in BOOLEAN
  PROVE  TypeOK'
<1>1. poll' \in [Polls -> {"called", "status", "result", "error", "answered"}]
  BY Types DEF Reads
<1>2. response' = [response EXCEPT ![p] = [response[p] EXCEPT ![field] = value]]
  BY DEF Reads
<1>3. [response[p] EXCEPT ![field] = value] \in
        [status : Statuses, result : Outcomes, error : Outcomes, after_done : BOOLEAN]
  BY Types
<1>4. response' \in [Polls -> [status : Statuses, result : Outcomes, error : Outcomes,
                               after_done : BOOLEAN]]
  BY <1>2, <1>3, Types
<1> QED
  BY <1>1, <1>4 DEF Reads, runVars, workerVars, bufferVars, storeVars, readerVars, IInv,
     TypeOK

LEMMA EmitKeeps == IInv /\ Emit => IInv'
<1> SUFFICES ASSUME IInv, Emit PROVE IInv'
  OBVIOUS
<1>1. queue' \in Seq(0 .. LastEvent) /\ emitted' \in 0 .. LastEvent
  BY Types, DebateApiAssumption DEF Emit
<1>2. TypeOK'
  BY <1>1 DEF Emit, IInv, TypeOK, workerVars, bufferVars, storeVars, readerVars, pollVars
<1>3. BoxIsFinal' /\ RecordFollowsWorker'
  BY Types DEF Emit, BoxIsFinal, RecordFollowsWorker, Ended, FinalStatus, workerVars,
     bufferVars, storeVars
<1>4. ReadersToldLast'
  BY Types DEF Emit, ReadersToldLast, bufferVars, storeVars, readerVars
<1>5. PollsReadOutcome'
  BY Types DEF Emit, PollsReadOutcome, bufferVars, storeVars, pollVars
<1> QED
  BY <1>2, <1>3, <1>4, <1>5 DEF IInv, Parts

LEMMA CompleteRunKeeps == IInv /\ CompleteRun => IInv'
<1> SUFFICES ASSUME IInv, CompleteRun PROVE IInv'
  OBVIOUS
<1>1. box' = "result" /\ debate' = "ending"
  BY Types DEF CompleteRun, EndsWith
<1>2. TypeOK'
  BY <1>1 DEF CompleteRun, EndsWith, IInv, TypeOK, workerVars, bufferVars, storeVars,
     readerVars, pollVars
<1>3. BoxIsFinal' /\ RecordFollowsWorker'
  BY Types DEF CompleteRun, EndsWith, BoxIsFinal, RecordFollowsWorker, Ended, FinalStatus,
     workerVars, bufferVars, storeVars
<1>4. ReadersToldLast'
  BY Types DEF CompleteRun, EndsWith, ReadersToldLast, bufferVars, storeVars, readerVars
<1>5. PollsReadOutcome'
  BY Types DEF CompleteRun, EndsWith, PollsReadOutcome, bufferVars, storeVars, pollVars
<1> QED
  BY <1>2, <1>3, <1>4, <1>5 DEF IInv, Parts

LEMMA RunRaisesKeeps == IInv /\ RunRaises => IInv'
<1> SUFFICES ASSUME IInv, RunRaises PROVE IInv'
  OBVIOUS
<1>1. box' \in {"error", "fatal"} /\ debate' = "ending"
  BY Types DEF RunRaises, EndsWith
<1>2. TypeOK'
  BY <1>1 DEF RunRaises, EndsWith, IInv, TypeOK, workerVars, bufferVars, storeVars,
     readerVars, pollVars
<1>3. BoxIsFinal' /\ RecordFollowsWorker'
  BY Types DEF RunRaises, EndsWith, BoxIsFinal, RecordFollowsWorker, Ended, FinalStatus,
     workerVars, bufferVars, storeVars
<1>4. ReadersToldLast'
  BY Types DEF RunRaises, EndsWith, ReadersToldLast, bufferVars, storeVars, readerVars
<1>5. PollsReadOutcome'
  BY Types DEF RunRaises, EndsWith, PollsReadOutcome, bufferVars, storeVars, pollVars
<1> QED
  BY <1>2, <1>3, <1>4, <1>5 DEF IInv, Parts

LEMMA PutDoneKeeps == IInv /\ PutDone => IInv'
<1> SUFFICES ASSUME IInv, PutDone PROVE IInv'
  OBVIOUS
<1>1. queue' \in Seq(0 .. LastEvent)
  BY Types, DebateApiAssumption DEF PutDone, Done
<1>2. TypeOK'
  BY <1>1 DEF PutDone, IInv, TypeOK, workerVars, bufferVars, storeVars, readerVars, pollVars
<1>3. BoxIsFinal' /\ RecordFollowsWorker'
  BY Types DEF PutDone, BoxIsFinal, RecordFollowsWorker, Ended, FinalStatus, workerVars,
     bufferVars, storeVars
<1>4. ReadersToldLast'
  BY Types DEF PutDone, ReadersToldLast, bufferVars, storeVars, readerVars
<1>5. PollsReadOutcome'
  BY Types DEF PutDone, PollsReadOutcome, bufferVars, storeVars, pollVars
<1> QED
  BY <1>2, <1>3, <1>4, <1>5 DEF IInv, Parts

LEMMA TakeThreadKeeps == IInv /\ TakeThread => IInv'
<1> SUFFICES ASSUME IInv, TakeThread PROVE IInv'
  OBVIOUS
<1>1. worker' = "setup"
  BY DEF TakeThread
<1>2. TypeOK'
  BY <1>1 DEF TakeThread, IInv, TypeOK, runVars, bufferVars, storeVars, readerVars, pollVars
<1>3. BoxIsFinal' /\ RecordFollowsWorker'
  BY Types DEF TakeThread, BoxIsFinal, RecordFollowsWorker, Ended, FinalStatus, runVars,
     bufferVars, storeVars
<1>4. ReadersToldLast'
  BY Types DEF TakeThread, ReadersToldLast, bufferVars, storeVars, readerVars
<1>5. PollsReadOutcome'
  BY Types DEF TakeThread, PollsReadOutcome, bufferVars, storeVars, pollVars
<1> QED
  BY <1>2, <1>3, <1>4, <1>5 DEF IInv, Parts

LEMMA StartRunKeeps == IInv /\ StartRun => IInv'
<1> SUFFICES ASSUME IInv, StartRun PROVE IInv'
  OBVIOUS
<1>1. debate' = "running" /\ worker' = "reading"
  BY Types DEF StartRun
<1>2. TypeOK'
  BY <1>1 DEF StartRun, IInv, TypeOK, bufferVars, storeVars, readerVars, pollVars
<1>3. BoxIsFinal' /\ RecordFollowsWorker'
  BY Types DEF StartRun, BoxIsFinal, RecordFollowsWorker, Ended, FinalStatus, bufferVars,
     storeVars
<1>4. ReadersToldLast'
  BY Types DEF StartRun, ReadersToldLast, bufferVars, storeVars, readerVars
<1>5. PollsReadOutcome'
  BY Types DEF StartRun, PollsReadOutcome, bufferVars, storeVars, pollVars
<1> QED
  BY <1>2, <1>3, <1>4, <1>5 DEF IInv, Parts

LEMMA SetupRaisesKeeps == IInv /\ SetupRaises => IInv'
<1> SUFFICES ASSUME IInv, SetupRaises PROVE IInv'
  OBVIOUS
<1>1. \/ box' = "error" /\ worker' = "finishing"
      \/ box' = "fatal" /\ worker' = "died"
  BY DEF SetupRaises, Handles
<1>2. TypeOK'
  BY <1>1 DEF SetupRaises, IInv, TypeOK, bufferVars, storeVars, readerVars, pollVars
<1>3. BoxIsFinal' /\ RecordFollowsWorker'
  BY <1>1, Types DEF SetupRaises, BoxIsFinal, RecordFollowsWorker, Ended, FinalStatus, bufferVars,
     storeVars
<1>4. ReadersToldLast'
  BY Types DEF SetupRaises, ReadersToldLast, bufferVars, storeVars, readerVars
<1>5. PollsReadOutcome'
  BY Types DEF SetupRaises, PollsReadOutcome, bufferVars, storeVars, pollVars
<1> QED
  BY <1>2, <1>3, <1>4, <1>5 DEF IInv, Parts

LEMMA GetEventKeeps == IInv /\ GetEvent => IInv'
<1> SUFFICES ASSUME IInv, GetEvent PROVE IInv'
  OBVIOUS
<1>1. /\ item' \in 0 .. LastEvent /\ queue' \in Seq(0 .. LastEvent)
      /\ worker' \in {"joining", "publishing"} /\ (worker' = "publishing" => item' # Done)
  <2>1. Head(queue) \in 0 .. LastEvent /\ Tail(queue) \in Seq(0 .. LastEvent)
    <3>1. queue \in Seq(0 .. LastEvent) /\ queue # <<>>
      BY Types DEF GetEvent
    <3> QED
      BY <3>1, HeadTailProperties
  <2>2. /\ item' = Head(queue) /\ queue' = Tail(queue)
        /\ worker' = IF Head(queue) = Done THEN "joining" ELSE "publishing"
    BY DEF GetEvent, IsDone
  <2> QED
    BY <2>1, <2>2
<1>2. TypeOK'
  BY <1>1 DEF GetEvent, IInv, TypeOK, bufferVars, storeVars, readerVars, pollVars
<1>3. BoxIsFinal' /\ RecordFollowsWorker'
  BY Types, <1>1 DEF GetEvent, BoxIsFinal, RecordFollowsWorker, Ended, FinalStatus,
     bufferVars, storeVars
<1>4. ReadersToldLast'
  BY Types DEF GetEvent, ReadersToldLast, bufferVars, storeVars, readerVars
<1>5. PollsReadOutcome'
  BY Types DEF GetEvent, PollsReadOutcome, bufferVars, storeVars, pollVars
<1> QED
  BY <1>2, <1>3, <1>4, <1>5 DEF IInv, Parts

LEMMA PublishKeeps == IInv /\ Publish => IInv'
<1> SUFFICES ASSUME IInv, Publish PROVE IInv'
  OBVIOUS
<1>1. /\ events' \in Numbers
      /\ reader' \in [Readers -> {"away", "asking", "checking", "waiting", "drained", "gone"}]
      /\ \A r \in Readers : reader'[r] \in {"drained", "gone"} => reader'[r] = reader[r]
  <2>1. item \in 1 .. LastEvent
    BY Types DEF Publish, BoxIsFinal, Done
  <2>2. events' \in Numbers
    BY <2>1, Types DEF Publish, Numbers
  <2> QED
    BY <2>2, Types DEF Publish, Notify
<1>2. TypeOK'
  BY <1>1 DEF Publish, IInv, TypeOK, runVars, storeVars, pollVars
<1>3. BoxIsFinal' /\ RecordFollowsWorker'
  BY Types DEF Publish, BoxIsFinal, RecordFollowsWorker, Ended, FinalStatus, runVars,
     storeVars
<1>4. ReadersToldLast'
  BY Types, <1>1 DEF Publish, ReadersToldLast, storeVars
<1>5. PollsReadOutcome'
  BY Types DEF Publish, PollsReadOutcome, storeVars, pollVars
<1> QED
  BY <1>2, <1>3, <1>4, <1>5 DEF IInv, Parts

LEMMA JoinKeeps == IInv /\ Join => IInv'
<1> SUFFICES ASSUME IInv, Join PROVE IInv'
  OBVIOUS
<1>1. \/ box \in {"result", "error"} /\ worker' = "finishing"
      \/ box = "fatal" /\ worker' = "died"
  BY Types DEF Join, Handles, BoxIsFinal
<1>2. TypeOK'
  BY <1>1 DEF Join, IInv, TypeOK, runVars, bufferVars, storeVars, readerVars, pollVars
<1>3. BoxIsFinal' /\ RecordFollowsWorker'
  BY <1>1, Types DEF Join, BoxIsFinal, RecordFollowsWorker, Ended, FinalStatus, runVars,
     bufferVars, storeVars
<1>4. ReadersToldLast'
  BY Types DEF Join, ReadersToldLast, bufferVars, storeVars, readerVars
<1>5. PollsReadOutcome'
  BY Types DEF Join, PollsReadOutcome, bufferVars, storeVars, pollVars
<1> QED
  BY <1>2, <1>3, <1>4, <1>5 DEF IInv, Parts

LEMMA MarkKeeps == IInv /\ Mark => IInv'
<1> SUFFICES ASSUME IInv, Mark PROVE IInv'
  OBVIOUS
<1>1. /\ record' = [status |-> FinalStatus, result |-> Unknown, error |-> Unknown]
      /\ record' \in [status : Statuses \ {Unknown}, result : Outcomes, error : Outcomes]
      /\ locked' \in BOOLEAN /\ ~closed
  <2>1. record = [status |-> "running", result |-> Unknown, error |-> Unknown] /\ ~closed
    BY Types DEF Mark, RecordFollowsWorker
  <2>2. record' = [status |-> FinalStatus, result |-> Unknown, error |-> Unknown]
    BY <2>1 DEF Mark, MarkStatus
  <2>3. locked' \in BOOLEAN
    BY DEF Mark
  <2> QED
    BY <2>1, <2>2, <2>3 DEF FinalStatus, Statuses, Outcomes, Unknown
<1>2. TypeOK'
  BY <1>1 DEF Mark, IInv, TypeOK, runVars, bufferVars, readerVars, pollVars
<1>3. BoxIsFinal' /\ RecordFollowsWorker'
  BY Types, <1>1 DEF Mark, BoxIsFinal, RecordFollowsWorker, Ended, FinalStatus, runVars,
     bufferVars
<1>4. ReadersToldLast'
  BY Types, <1>1 DEF Mark, ReadersToldLast, RecordFollowsWorker, bufferVars, readerVars
<1>5. PollsReadOutcome'
  BY Types, <1>1 DEF Mark, PollsReadOutcome, RecordFollowsWorker, bufferVars, pollVars
<1> QED
  BY <1>2, <1>3, <1>4, <1>5 DEF IInv, Parts

LEMMA StoreKeeps == IInv /\ Store => IInv'
<1> SUFFICES ASSUME IInv, Store PROVE IInv'
  OBVIOUS
<1>1. /\ record' = [status |-> FinalStatus,
                   result |-> IF box = "result" THEN "result" ELSE Unknown,
                   error  |-> IF box = "result" THEN Unknown ELSE "error"]
      /\ record' \in [status : Statuses \ {Unknown}, result : Outcomes, error : Outcomes]
      /\ locked' \in BOOLEAN /\ ~closed
  <2>1. /\ record = [status |-> FinalStatus, result |-> Unknown, error |-> Unknown]
        /\ ~closed
        /\ box \in {"result", "error"}
    BY Types DEF Store, RecordFollowsWorker, BoxIsFinal, Ended
  <2>2. record' = [status |-> FinalStatus,
                   result |-> IF box = "result" THEN "result" ELSE Unknown,
                   error  |-> IF box = "result" THEN Unknown ELSE "error"]
    <3>1. CASE box = "result"
      BY <2>1, <3>1 DEF Store, StoreOutcome
    <3>2. CASE box = "error"
      BY <2>1, <3>2 DEF Store, StoreOutcome
    <3> QED
      BY <2>1, <3>1, <3>2
  <2>3. locked' \in BOOLEAN
    BY DEF Store
  <2> QED
    BY <2>1, <2>2, <2>3 DEF FinalStatus, Statuses, Outcomes, Unknown
<1>2. TypeOK'
  BY <1>1 DEF Store, IInv, TypeOK, runVars, bufferVars, readerVars, pollVars
<1>3. BoxIsFinal' /\ RecordFollowsWorker'
  BY Types, <1>1 DEF Store, BoxIsFinal, RecordFollowsWorker, Ended, FinalStatus, runVars,
     bufferVars
<1>4. ReadersToldLast'
  BY Types, <1>1 DEF Store, ReadersToldLast, RecordFollowsWorker, bufferVars, readerVars
<1>5. PollsReadOutcome'
  BY Types, <1>1 DEF Store, PollsReadOutcome, RecordFollowsWorker, bufferVars, pollVars
<1> QED
  BY <1>2, <1>3, <1>4, <1>5 DEF IInv, Parts

LEMMA CloseKeeps == IInv /\ Close => IInv'
<1> SUFFICES ASSUME IInv, Close PROVE IInv'
  OBVIOUS
<1>1. /\ reader' \in [Readers -> {"away", "asking", "checking", "waiting", "drained", "gone"}]
      /\ \A r \in Readers : reader'[r] \in {"drained", "gone"} => reader'[r] = reader[r]
      /\ closed' = TRUE /\ worker' = "returned"
  BY Types DEF Close, Notify
<1>2. TypeOK'
  BY <1>1 DEF Close, IInv, TypeOK, runVars, storeVars, pollVars
<1>3. BoxIsFinal' /\ RecordFollowsWorker'
  BY Types, <1>1 DEF Close, BoxIsFinal, RecordFollowsWorker, Ended, FinalStatus, runVars,
     storeVars
<1>4. ReadersToldLast'
  BY Types, <1>1 DEF Close, ReadersToldLast, RecordFollowsWorker, storeVars
<1>5. PollsReadOutcome'
  BY Types, <1>1 DEF Close, PollsReadOutcome, RecordFollowsWorker, storeVars, pollVars
<1> QED
  BY <1>2, <1>3, <1>4, <1>5 DEF IInv, Parts

LEMMA ConnectKeeps == ASSUME IInv, NEW r \in Readers, Connect(r) PROVE IInv'
<1>1. reader' \in [Readers -> {"away", "asking", "checking", "waiting", "drained", "gone"}]
  BY Types DEF Connect, Goes
<1>2. TypeOK'
  BY <1>1 DEF Connect, Goes, IInv, TypeOK, runVars, workerVars, bufferVars, storeVars,
     pollVars
<1>3. BoxIsFinal' /\ RecordFollowsWorker'
  BY Types DEF Connect, Goes, BoxIsFinal, RecordFollowsWorker, Ended, FinalStatus, runVars,
     workerVars, bufferVars, storeVars
<1>4. ReadersToldLast'
  BY Types DEF Connect, Goes, ReadersToldLast, bufferVars, storeVars
<1>5. PollsReadOutcome'
  BY Types DEF Connect, Goes, PollsReadOutcome, bufferVars, storeVars, pollVars
<1> QED
  BY <1>2, <1>3, <1>4, <1>5 DEF IInv, Parts

LEMMA AskKeeps == ASSUME IInv, NEW r \in Readers, Ask(r) PROVE IInv'
<1>1. reader' \in [Readers -> {"away", "asking", "checking", "waiting", "drained", "gone"}]
  BY Types DEF Ask, Goes
<1>2. TypeOK'
  BY <1>1 DEF Ask, Goes, IInv, TypeOK, runVars, workerVars, bufferVars, storeVars, pollVars
<1>3. BoxIsFinal' /\ RecordFollowsWorker'
  BY Types DEF Ask, Goes, BoxIsFinal, RecordFollowsWorker, Ended, FinalStatus, runVars,
     workerVars, bufferVars, storeVars
<1>4. ReadersToldLast'
  BY Types DEF Ask, Goes, ReadersToldLast, bufferVars, storeVars
<1>5. PollsReadOutcome'
  BY Types DEF Ask, Goes, PollsReadOutcome, bufferVars, storeVars, pollVars
<1> QED
  BY <1>2, <1>3, <1>4, <1>5 DEF IInv, Parts

LEMMA WaitKeeps == ASSUME IInv, NEW r \in Readers, Wait(r) PROVE IInv'
<1>1. reader' \in [Readers -> {"away", "asking", "checking", "waiting", "drained", "gone"}]
  BY Types DEF Wait, Goes
<1>2. TypeOK'
  BY <1>1 DEF Wait, Goes, IInv, TypeOK, runVars, workerVars, bufferVars, storeVars, pollVars
<1>3. BoxIsFinal' /\ RecordFollowsWorker'
  BY Types DEF Wait, Goes, BoxIsFinal, RecordFollowsWorker, Ended, FinalStatus, runVars,
     workerVars, bufferVars, storeVars
<1>4. ReadersToldLast'
  BY Types DEF Wait, Goes, ReadersToldLast, bufferVars, storeVars
<1>5. PollsReadOutcome'
  BY Types DEF Wait, Goes, PollsReadOutcome, bufferVars, storeVars, pollVars
<1> QED
  BY <1>2, <1>3, <1>4, <1>5 DEF IInv, Parts

LEMMA SendKeeps == ASSUME IInv, NEW r \in Readers, Send(r) PROVE IInv'
<1>1. sent' \in [Readers -> Numbers]
  <2>1. sent[r] \in Seq(1 .. LastEvent) /\ events[Len(sent[r]) + 1] \in 1 .. LastEvent
    <3>1. sent[r] \in Seq(1 .. LastEvent) /\ events \in Seq(1 .. LastEvent)
      BY Types DEF Numbers
    <3>2. Len(sent[r]) \in Nat /\ Len(sent[r]) < Len(events)
      BY <3>1 DEF Send
    <3>3. Len(sent[r]) + 1 \in 1 .. Len(events)
      BY <3>1, <3>2
    <3>4. \A S, q : q \in Seq(S) => \A i \in 1 .. Len(q) : q[i] \in S
      OBVIOUS
    <3> QED
      BY <3>1, <3>3, <3>4
  <2>2. Append(sent[r], events[Len(sent[r]) + 1]) \in Numbers
    BY <2>1 DEF Numbers
  <2> QED
    BY <2>2, Types DEF Send
<1>2. TypeOK'
  BY <1>1, Types DEF Send, Goes, IInv, TypeOK, runVars, workerVars, bufferVars, storeVars, pollVars
<1>3. BoxIsFinal' /\ RecordFollowsWorker'
  BY Types DEF Send, Goes, BoxIsFinal, RecordFollowsWorker, Ended, FinalStatus, runVars,
     workerVars, bufferVars, storeVars
<1>4. ReadersToldLast'
  BY Types DEF Send, Goes, ReadersToldLast, bufferVars, storeVars
<1>5. PollsReadOutcome'
  BY Types DEF Send, PollsReadOutcome, bufferVars, storeVars, pollVars
<1> QED
  BY <1>2, <1>3, <1>4, <1>5 DEF IInv, Parts

LEMMA ExhaustKeeps == ASSUME IInv, NEW r \in Readers, Exhaust(r) PROVE IInv'
<1>1. reader' \in [Readers -> {"away", "asking", "checking", "waiting", "drained", "gone"}]
      /\ closed
  BY Types DEF Exhaust, Goes, Drained
<1>2. TypeOK'
  BY <1>1 DEF Exhaust, Goes, IInv, TypeOK, runVars, workerVars, bufferVars, storeVars,
     pollVars
<1>3. BoxIsFinal' /\ RecordFollowsWorker'
  BY Types DEF Exhaust, Goes, BoxIsFinal, RecordFollowsWorker, Ended, FinalStatus, runVars,
     workerVars, bufferVars, storeVars
<1>4. ReadersToldLast'
  BY Types, <1>1 DEF Exhaust, Goes, ReadersToldLast, RecordFollowsWorker, bufferVars,
     storeVars
<1>5. PollsReadOutcome'
  BY Types DEF Exhaust, Goes, PollsReadOutcome, RecordFollowsWorker, bufferVars, storeVars,
     pollVars
<1> QED
  BY <1>2, <1>3, <1>4, <1>5 DEF IInv, Parts

LEMMA SayDoneKeeps == ASSUME IInv, NEW r \in Readers, SayDone(r) PROVE IInv'
<1>1. /\ reader' \in [Readers -> {"away", "asking", "checking", "waiting", "drained", "gone"}]
      /\ farewell' \in [Readers -> Statuses]
  BY Types DEF SayDone, Goes
<1>2. TypeOK'
  BY <1>1 DEF SayDone, Goes, IInv, TypeOK, runVars, workerVars, bufferVars, storeVars,
     pollVars
<1>3. BoxIsFinal' /\ RecordFollowsWorker'
  BY Types DEF SayDone, Goes, BoxIsFinal, RecordFollowsWorker, Ended, FinalStatus, runVars,
     workerVars, bufferVars, storeVars
<1>4. ReadersToldLast'
  BY Types DEF SayDone, Goes, ReadersToldLast, RecordFollowsWorker, bufferVars, storeVars
<1>5. PollsReadOutcome'
  BY Types DEF SayDone, Goes, PollsReadOutcome, RecordFollowsWorker, bufferVars, storeVars,
     pollVars
<1> QED
  BY <1>2, <1>3, <1>4, <1>5 DEF IInv, Parts

LEMMA LookupKeeps == ASSUME IInv, NEW p \in Polls, Lookup(p) PROVE IInv'
<1>1. Reads(p, "status", "after_done", (\E r \in Readers : reader[r] = "gone"))
  BY DEF Lookup
<1>2. TypeOK'
  BY <1>1, Types, ReadsGood
<1>3. BoxIsFinal' /\ RecordFollowsWorker' /\ ReadersToldLast'
  BY <1>1, Types DEF Reads, BoxIsFinal, RecordFollowsWorker, ReadersToldLast, FinalStatus,
     runVars, workerVars, bufferVars, storeVars, readerVars
<1>4. PollsReadOutcome'
  <2>1. /\ poll' = [poll EXCEPT ![p] = "status"]
        /\ response' = [response EXCEPT ![p].after_done = (\E r \in Readers : reader[r] = "gone")]
        /\ UNCHANGED <<record, closed>>
    BY <1>1 DEF Reads, bufferVars, storeVars
  <2>2. /\ poll'[p] = "status"
        /\ response'[p].after_done = (\E r \in Readers : reader[r] = "gone")
        /\ \A q \in Polls \ {p} : poll'[q] = poll[q] /\ response'[q] = response[q]
    BY <2>1, Types
  <2>3. /\ response'[p].status = response[p].status
        /\ response'[p].result = response[p].result
        /\ response'[p].error = response[p].error
    BY <2>1, Types
  <2> QED
    BY <2>1, <2>2, <2>3, Types DEF Lookup, PollsReadOutcome, ReadersToldLast
<1> QED
  BY <1>2, <1>3, <1>4 DEF IInv, Parts

LEMMA PollStatusKeeps == ASSUME IInv, NEW p \in Polls, PollStatus(p) PROVE IInv'
<1>1. Reads(p, "result", "status", record.status)
  BY DEF PollStatus
<1>2. TypeOK'
  BY <1>1, Types, ReadsGood
<1>3. BoxIsFinal' /\ RecordFollowsWorker' /\ ReadersToldLast'
  BY <1>1, Types DEF Reads, BoxIsFinal, RecordFollowsWorker, ReadersToldLast, FinalStatus,
     runVars, workerVars, bufferVars, storeVars, readerVars
<1>4. PollsReadOutcome'
  <2>1. /\ poll' = [poll EXCEPT ![p] = "result"]
        /\ response' = [response EXCEPT ![p].status = record.status]
        /\ UNCHANGED <<record, closed>>
    BY <1>1 DEF Reads, bufferVars, storeVars
  <2>2. /\ poll'[p] = "result" /\ response'[p].status = record.status
        /\ \A q \in Polls \ {p} : poll'[q] = poll[q] /\ response'[q] = response[q]
    BY <2>1, Types
  <2>3. /\ response'[p].result = response[p].result
        /\ response'[p].error = response[p].error
        /\ response'[p].after_done = response[p].after_done
    BY <2>1, Types
  <2> QED
    BY <2>1, <2>2, <2>3, Types DEF PollStatus, PollsReadOutcome, ReadersToldLast
<1> QED
  BY <1>2, <1>3, <1>4 DEF IInv, Parts

LEMMA PollResultKeeps == ASSUME IInv, NEW p \in Polls, PollResult(p) PROVE IInv'
<1>1. Reads(p, "error", "result", record.result)
  BY DEF PollResult
<1>2. TypeOK'
  BY <1>1, Types, ReadsGood
<1>3. BoxIsFinal' /\ RecordFollowsWorker' /\ ReadersToldLast'
  BY <1>1, Types DEF Reads, BoxIsFinal, RecordFollowsWorker, ReadersToldLast, FinalStatus,
     runVars, workerVars, bufferVars, storeVars, readerVars
<1>4. PollsReadOutcome'
  <2>1. /\ poll' = [poll EXCEPT ![p] = "error"]
        /\ response' = [response EXCEPT ![p].result = record.result]
        /\ UNCHANGED <<record, closed>>
    BY <1>1 DEF Reads, bufferVars, storeVars
  <2>2. /\ poll'[p] = "error" /\ response'[p].result = record.result
        /\ \A q \in Polls \ {p} : poll'[q] = poll[q] /\ response'[q] = response[q]
    BY <2>1, Types
  <2>3. /\ response'[p].status = response[p].status
        /\ response'[p].error = response[p].error
        /\ response'[p].after_done = response[p].after_done
    BY <2>1, Types
  <2> QED
    BY <2>1, <2>2, <2>3, Types DEF PollResult, PollsReadOutcome, ReadersToldLast
<1> QED
  BY <1>2, <1>3, <1>4 DEF IInv, Parts

LEMMA PollErrorKeeps == ASSUME IInv, NEW p \in Polls, PollError(p) PROVE IInv'
<1>1. Reads(p, "answered", "error", record.error)
  BY DEF PollError
<1>2. TypeOK'
  BY <1>1, Types, ReadsGood
<1>3. BoxIsFinal' /\ RecordFollowsWorker' /\ ReadersToldLast'
  BY <1>1, Types DEF Reads, BoxIsFinal, RecordFollowsWorker, ReadersToldLast, FinalStatus,
     runVars, workerVars, bufferVars, storeVars, readerVars
<1>4. PollsReadOutcome'
  <2>1. /\ poll' = [poll EXCEPT ![p] = "answered"]
        /\ response' = [response EXCEPT ![p].error = record.error]
        /\ UNCHANGED <<record, closed>>
    BY <1>1 DEF Reads, bufferVars, storeVars
  <2>2. /\ poll'[p] = "answered" /\ response'[p].error = record.error
        /\ \A q \in Polls \ {p} : poll'[q] = poll[q] /\ response'[q] = response[q]
    BY <2>1, Types
  <2>3. /\ response'[p].status = response[p].status
        /\ response'[p].result = response[p].result
        /\ response'[p].after_done = response[p].after_done
    BY <2>1, Types
  <2> QED
    BY <2>1, <2>2, <2>3, Types DEF PollError, PollsReadOutcome, ReadersToldLast
<1> QED
  BY <1>2, <1>3, <1>4 DEF IInv, Parts

\* A step that changes nothing.
LEMMA StutterKeeps == IInv /\ UNCHANGED vars => IInv'
<1> SUFFICES ASSUME IInv, UNCHANGED vars PROVE IInv'
  OBVIOUS
<1>1. UNCHANGED <<debate, emitted, queue, box, worker, item, events, closed, record, locked,
                  reader, sent, farewell, poll, response>>
  BY DEF vars, runVars, workerVars, bufferVars, storeVars, readerVars, pollVars
<1>2. TypeOK'
  BY <1>1 DEF IInv, TypeOK
<1>3. Parts'
  BY <1>1 DEF IInv, Parts, BoxIsFinal, RecordFollowsWorker, ReadersToldLast,
     PollsReadOutcome,
              FinalStatus
<1> QED
  BY <1>2, <1>3 DEF IInv

LEMMA NextKeeps == IInv /\ [Next]_vars => IInv'
<1> SUFFICES ASSUME IInv, [Next]_vars PROVE IInv'
  OBVIOUS
<1>1. CASE DebateThread
  BY <1>1, EmitKeeps, CompleteRunKeeps, RunRaisesKeeps, PutDoneKeeps DEF DebateThread
<1>2. CASE Worker
  BY <1>2, StartRunKeeps, SetupRaisesKeeps, GetEventKeeps, PublishKeeps, JoinKeeps,
     MarkKeeps,
     StoreKeeps, CloseKeeps DEF Worker
<1>3. ASSUME NEW r \in Readers, Connect(r) \/ Ask(r) \/ Reader(r) PROVE IInv'
  BY <1>3, ConnectKeeps, AskKeeps, WaitKeeps, SendKeeps, ExhaustKeeps, SayDoneKeeps DEF Reader
<1>4. ASSUME NEW p \in Polls, Poll(p) PROVE IInv'
  BY <1>4, LookupKeeps, PollStatusKeeps, PollResultKeeps, PollErrorKeeps DEF Poll
<1>5. CASE Over \/ UNCHANGED vars
  BY <1>5, StutterKeeps DEF Over
<1> QED
  BY <1>1, <1>2, <1>3, <1>4, <1>5, TakeThreadKeeps DEF Next

LEMMA Invariance == Spec => []IInv
  BY InitEstablishes, NextKeeps, PTL DEF Spec

\* The debate thread, the worker, the buffer, the record and every connection
\* and request stay in their types (stream_runner.py, debate_store.py).
THEOREM TypeCorrect == Spec => []TypeOK
  BY Invariance, PTL DEF IInv

\* Whoever was told done was told the final status, and a request made after
\* that reads the outcome it names (debate_store.py:72-86).
THEOREM FarewellSafe == Spec => []FarewellIsFinal
<1>1. ASSUME IInv, closed
      PROVE  record = [status |-> FinalStatus,
                       result |-> IF box = "result" THEN "result" ELSE Unknown,
                       error  |-> IF box = "result" THEN Unknown ELSE "error"]
  BY <1>1, Types DEF RecordFollowsWorker
<1>2. IInv => ResultBehindDone
  <2> SUFFICES ASSUME IInv, NEW p \in Polls, poll[p] = "answered", response[p].after_done
               PROVE  \/ response[p].status = "done" /\ response[p].result = "result"
                      \/ response[p].status = "failed" /\ response[p].error = "error"
    BY DEF ResultBehindDone
  <2>1. /\ closed
        /\ response[p].status = record.status
        /\ response[p].result = record.result
        /\ response[p].error = record.error
    BY Types DEF PollsReadOutcome
  <2> QED
    BY <1>1, <2>1 DEF FinalStatus
<1>3. IInv => FarewellIsFinal
  <2> SUFFICES ASSUME IInv PROVE FarewellIsFinal
    OBVIOUS
  <2>1. ASSUME NEW r \in Readers, reader[r] = "gone"
        PROVE  /\ farewell[r] = record.status /\ record.status # "running"
               /\ farewell[r] = "done" <=> record.result = "result"
    <3>1. closed /\ farewell[r] = record.status
      BY <2>1, Types DEF ReadersToldLast
    <3> QED
      BY <1>1, <3>1 DEF FinalStatus, Unknown
  <2> QED
    BY <1>2, <2>1 DEF FarewellIsFinal
<1> QED
  BY <1>3, Invariance, PTL

-----------------------------------------------------------------------------
(* The queue goes on where the buffer and the worker's event leave off, so *)
(* every step is one of LiveFeed or shows nothing.                         *)

\* The worker holds an event it took from the queue.
Taken == Len(events) + (IF worker = "publishing" THEN 1 ELSE 0)

\* The sentinel is in the queue, at its end.
Sealed == debate = "over" /\ worker \in {"reading", "publishing"}

BoxFollowsDebate ==
  /\ worker \in {"scheduled", "setup"} => box = "empty"
  /\ debate = "running" => box = "empty"
  /\ debate \in {"running", "ending"} => worker \in {"reading", "publishing"}
  /\ debate = "unborn" => emitted = 0 /\ queue = <<>> /\ events = <<>>
  /\ worker \in {"reading", "publishing", "joining"} => debate # "unborn"

EventsInOrder ==
  /\ \A i \in 1 .. Len(events) : events[i] = i
  /\ worker = "publishing" => item = Len(events) + 1

QueueGoesOn ==
  /\ \A i \in 1 .. Len(queue) :
       queue[i] = IF Sealed /\ i = Len(queue) THEN Done ELSE Taken + i
  /\ Sealed => queue # <<>>
  /\ Taken + Len(queue) = emitted + (IF Sealed THEN 1 ELSE 0)
  /\ worker \notin {"scheduled", "setup", "reading", "publishing"} => queue = <<>>

ReadersFollow ==
  \A r \in Readers :
    /\ Len(sent[r]) <= Len(events)
    /\ reader[r] \in {"drained", "gone"} => Len(sent[r]) = Len(events)

FeedInStep == BoxFollowsDebate /\ EventsInOrder /\ QueueGoesOn /\ ReadersFollow

FInv == IInv /\ FeedInStep

LEMMA FeedInit == Init => FInv
<1> SUFFICES ASSUME Init PROVE FInv
  OBVIOUS
<1>1. IInv
  BY InitEstablishes
<1>2. BoxFollowsDebate /\ EventsInOrder
  BY DEF Init, BoxFollowsDebate, EventsInOrder
<1>3. QueueGoesOn
  BY DEF Init, QueueGoesOn, Taken, Sealed
<1>4. ReadersFollow
  BY DEF Init, ReadersFollow
<1> QED
  BY <1>1, <1>2, <1>3, <1>4 DEF FInv, FeedInStep

\* The types of the events' way, and the parts by name.
LEMMA FeedTypes ==
  ASSUME FInv
  PROVE  /\ emitted \in Nat /\ queue \in Seq(Nat) /\ events \in Seq(Nat)
         /\ Len(events) \in Nat /\ Len(queue) \in Nat /\ Taken \in Nat
         /\ \A r \in Readers : sent[r] \in Seq(Nat) /\ Len(sent[r]) \in Nat
         /\ reader \in [Readers -> {"away", "asking", "checking", "waiting", "drained", "gone"}]
         /\ sent \in [Readers -> Numbers]
         /\ BoxFollowsDebate /\ EventsInOrder /\ QueueGoesOn /\ ReadersFollow
         /\ BoxIsFinal /\ RecordFollowsWorker /\ ReadersToldLast
<1>1. BoxFollowsDebate /\ EventsInOrder /\ QueueGoesOn /\ ReadersFollow
  BY DEF FInv, FeedInStep
<1>2. /\ BoxIsFinal /\ RecordFollowsWorker /\ ReadersToldLast
      /\ reader \in [Readers -> {"away", "asking", "checking", "waiting", "drained", "gone"}]
      /\ sent \in [Readers -> Numbers]
  BY Types DEF FInv
<1>3. emitted \in Nat
  BY Types, DebateApiAssumption DEF FInv
<1>4. queue \in Seq(Nat)
  BY Types, DebateApiAssumption DEF FInv
<1>5. events \in Seq(Nat)
  BY Types, DebateApiAssumption DEF FInv, Numbers
<1>6. Len(events) \in Nat /\ Len(queue) \in Nat /\ Taken \in Nat
  BY <1>4, <1>5 DEF Taken
<1>7. \A r \in Readers : sent[r] \in Seq(Nat) /\ Len(sent[r]) \in Nat
  BY <1>2, DebateApiAssumption DEF Numbers
<1> QED
  BY <1>1, <1>2, <1>3, <1>4, <1>5, <1>6, <1>7

LEMMA EmitFeeds == FInv /\ Emit => FeedInStep'
<1> SUFFICES ASSUME FInv, Emit PROVE FeedInStep'
  OBVIOUS
<1> USE FeedTypes
<1>1. /\ debate = "running" /\ debate' = debate /\ box' = box /\ worker' = worker
      /\ item' = item /\ events' = events /\ reader' = reader /\ sent' = sent
      /\ queue' = Append(queue, emitted + 1) /\ emitted' = emitted + 1
  BY DEF Emit, workerVars, bufferVars, readerVars
<1>2. BoxFollowsDebate' /\ EventsInOrder' /\ ReadersFollow'
  BY <1>1 DEF BoxFollowsDebate, EventsInOrder, ReadersFollow
<1>3. ~Sealed /\ ~Sealed' /\ Taken' = Taken /\ worker \in {"reading", "publishing"}
  BY <1>1 DEF Sealed, Taken, BoxFollowsDebate
<1>4. Taken + Len(queue) = emitted /\ \A i \in 1 .. Len(queue) : queue[i] = Taken + i
  BY <1>3 DEF QueueGoesOn
<1>5. /\ Len(queue') = Len(queue) + 1 /\ queue'[Len(queue) + 1] = emitted + 1
      /\ \A i \in 1 .. Len(queue) : queue'[i] = queue[i]
  BY <1>1
<1>6. \A i \in 1 .. Len(queue') : queue'[i] = Taken + i
  <2> TAKE i \in 1 .. Len(queue')
  <2>1. i \in 1 .. Len(queue) \/ i = Len(queue) + 1
    <3> HIDE FeedTypes
    <3>1. Len(queue) \in Nat
      BY FeedTypes
    <3> QED
      BY <3>1, <1>5
  <2> QED
    BY <1>4, <1>5, <2>1
<1>7. QueueGoesOn'
  <2>1. queue' # <<>>
    <3>1. emitted + 1 \in Nat
      OBVIOUS
    <3>2. queue \in Seq(Nat)
      OBVIOUS
    <3> QED
      BY ONLY <1>1, <3>1, <3>2, AppendProperties
  <2>2. Taken' + Len(queue') = emitted' + (IF Sealed' THEN 1 ELSE 0)
    BY <1>1, <1>3, <1>4, <1>5
  <2>3. worker' \in {"setup", "reading", "publishing"}
    BY <1>1, <1>3
  <2> HIDE FeedTypes
  <2> QED
    BY <1>3, <1>6, <2>1, <2>2, <2>3 DEF QueueGoesOn
<1> QED
  BY <1>2, <1>7 DEF FeedInStep

\* The run ends: its outcome is in the box before the sentinel is queued.
LEMMA EndFeeds ==
  ASSUME FInv, NEW outcome \in {"result", "error", "fatal"}, debate = "running", EndsWith(outcome)
  PROVE  FeedInStep'
<1> USE FeedTypes
<1>1. /\ debate' = "ending" /\ box' = outcome /\ worker' = worker /\ queue' = queue
      /\ emitted' = emitted /\ item' = item /\ events' = events
      /\ reader' = reader /\ sent' = sent
  BY DEF EndsWith, workerVars, bufferVars, readerVars
<1>2. BoxFollowsDebate' /\ EventsInOrder' /\ ReadersFollow'
  BY <1>1 DEF BoxFollowsDebate, EventsInOrder, ReadersFollow
<1>3. ~Sealed /\ ~Sealed' /\ Taken' = Taken
  BY <1>1 DEF Sealed, Taken
<1>4. QueueGoesOn'
  BY <1>1, <1>3 DEF QueueGoesOn
<1> QED
  BY <1>2, <1>4 DEF FeedInStep

LEMMA PutDoneFeeds == FInv /\ PutDone => FeedInStep'
<1> SUFFICES ASSUME FInv, PutDone PROVE FeedInStep'
  OBVIOUS
<1> USE FeedTypes
<1>1. /\ debate = "ending" /\ debate' = "over" /\ box' = box /\ worker' = worker
      /\ item' = item /\ events' = events /\ reader' = reader /\ sent' = sent
      /\ queue' = Append(queue, Done) /\ emitted' = emitted
  BY DEF PutDone, workerVars, bufferVars, readerVars
<1>2. BoxFollowsDebate' /\ EventsInOrder' /\ ReadersFollow'
  BY <1>1 DEF BoxFollowsDebate, EventsInOrder, ReadersFollow
<1>3. ~Sealed /\ Sealed' /\ Taken' = Taken /\ worker \in {"reading", "publishing"}
  BY <1>1 DEF Sealed, Taken, BoxFollowsDebate
<1>4. Taken + Len(queue) = emitted /\ \A i \in 1 .. Len(queue) : queue[i] = Taken + i
  BY <1>3 DEF QueueGoesOn
<1>5. /\ Len(queue') = Len(queue) + 1 /\ queue'[Len(queue) + 1] = Done
      /\ \A i \in 1 .. Len(queue) : queue'[i] = queue[i]
  BY <1>1 DEF Done
<1>6. \A i \in 1 .. Len(queue') :
        queue'[i] = IF i = Len(queue') THEN Done ELSE Taken + i
  <2> TAKE i \in 1 .. Len(queue')
  <2>1. (i \in 1 .. Len(queue) /\ i # Len(queue')) \/ i = Len(queue')
    BY <1>5
  <2> QED
    BY <1>4, <1>5, <2>1
<1>7. QueueGoesOn'
  <2>1. queue' # <<>>
    BY <1>5
  <2>2. Taken' + Len(queue') = emitted' + (IF Sealed' THEN 1 ELSE 0)
    BY <1>1, <1>3, <1>4, <1>5
  <2>3. worker' \in {"setup", "reading", "publishing"}
    BY <1>1, <1>3
  <2> HIDE FeedTypes
  <2> QED
    BY <1>3, <1>6, <2>1, <2>2, <2>3 DEF QueueGoesOn
<1> QED
  BY <1>2, <1>7 DEF FeedInStep

LEMMA TakeThreadFeeds == FInv /\ TakeThread => FeedInStep'
<1> SUFFICES ASSUME FInv, TakeThread PROVE FeedInStep'
  OBVIOUS
<1> USE FeedTypes
<1>1. /\ worker = "scheduled" /\ worker' = "setup" /\ debate' = debate /\ box' = box
      /\ emitted' = emitted /\ queue' = queue
      /\ item' = item /\ events' = events /\ reader' = reader /\ sent' = sent
  BY DEF TakeThread, runVars, bufferVars, readerVars
<1>2. BoxFollowsDebate' /\ EventsInOrder' /\ ReadersFollow'
  BY <1>1 DEF BoxFollowsDebate, EventsInOrder, ReadersFollow
<1>3. ~Sealed /\ ~Sealed' /\ Taken' = Taken
  BY <1>1 DEF Sealed, Taken
<1>4. QueueGoesOn'
  BY <1>1, <1>3 DEF QueueGoesOn
<1> QED
  BY <1>2, <1>4 DEF FeedInStep

LEMMA StartRunFeeds == FInv /\ StartRun => FeedInStep'
<1> SUFFICES ASSUME FInv, StartRun PROVE FeedInStep'
  OBVIOUS
<1> USE FeedTypes
<1>1. /\ worker = "setup" /\ worker' = "reading" /\ debate' = "running" /\ box' = box
      /\ emitted' = emitted /\ queue' = queue
      /\ item' = item /\ events' = events /\ reader' = reader /\ sent' = sent
  BY DEF StartRun, bufferVars, readerVars
<1>2. debate = "unborn" /\ emitted = 0 /\ queue = <<>> /\ events = <<>>
  BY <1>1 DEF BoxIsFinal, BoxFollowsDebate
<1>3. BoxFollowsDebate' /\ EventsInOrder' /\ ReadersFollow'
  BY <1>1 DEF BoxFollowsDebate, EventsInOrder, ReadersFollow
<1>4. ~Sealed' /\ Taken' = 0
  BY <1>1, <1>2 DEF Sealed, Taken
<1>5. QueueGoesOn'
  BY <1>1, <1>2, <1>4 DEF QueueGoesOn
<1> QED
  BY <1>3, <1>5 DEF FeedInStep

LEMMA SetupRaisesFeeds == FInv /\ SetupRaises => FeedInStep'
<1> SUFFICES ASSUME FInv, SetupRaises PROVE FeedInStep'
  OBVIOUS
<1> USE FeedTypes
<1>1. /\ worker = "setup" /\ worker' \in {"finishing", "died"} /\ debate' = debate
      /\ emitted' = emitted /\ queue' = queue
      /\ item' = item /\ events' = events /\ reader' = reader /\ sent' = sent
  BY DEF SetupRaises, Handles, bufferVars, readerVars
<1>2. debate = "unborn" /\ emitted = 0 /\ queue = <<>> /\ events = <<>>
  BY <1>1 DEF BoxIsFinal, BoxFollowsDebate
<1>3. BoxFollowsDebate' /\ EventsInOrder' /\ ReadersFollow'
  BY <1>1, <1>2 DEF BoxFollowsDebate, EventsInOrder, ReadersFollow
<1>4. ~Sealed' /\ Taken' = 0
  BY <1>1, <1>2 DEF Sealed, Taken
<1>5. QueueGoesOn'
  BY <1>1, <1>2, <1>4 DEF QueueGoesOn
<1> QED
  BY <1>3, <1>5 DEF FeedInStep

LEMMA GetEventFeeds == FInv /\ GetEvent => FeedInStep'
<1> SUFFICES ASSUME FInv, GetEvent PROVE FeedInStep'
  OBVIOUS
<1> USE FeedTypes
<1>1. /\ worker = "reading" /\ queue # <<>>
      /\ item' = Head(queue) /\ queue' = Tail(queue)
      /\ worker' = IF Head(queue) = Done THEN "joining" ELSE "publishing"
      /\ debate' = debate /\ box' = box /\ emitted' = emitted /\ events' = events
      /\ reader' = reader /\ sent' = sent
  BY DEF GetEvent, IsDone, bufferVars, readerVars
<1>2. /\ Len(queue) >= 1 /\ Head(queue) = queue[1] /\ Len(queue') = Len(queue) - 1
      /\ \A i \in 1 .. Len(queue') : queue'[i] = queue[i + 1]
  BY <1>1
<1>3. Taken = Len(events)
  BY <1>1 DEF Taken
<1>4. BoxFollowsDebate' /\ ReadersFollow'
  <2>1. debate \in {"running", "ending"} => Head(queue) # Done
    BY <1>2, <1>1 DEF QueueGoesOn, Sealed, Done
  <2>2. debate # "unborn"
    BY <1>1 DEF BoxFollowsDebate
  <2> QED
    BY <1>1, <2>1, <2>2 DEF BoxFollowsDebate, ReadersFollow
<1>5. CASE Head(queue) = Done
  <2>1. Sealed /\ Len(queue) = 1 /\ queue' = <<>>
    <3>1. queue[1] = IF Sealed /\ 1 = Len(queue) THEN Done ELSE Taken + 1
      BY <1>2 DEF QueueGoesOn
    <3>2. Taken + 1 # Done /\ queue[1] = Done
      BY <1>2, <1>5 DEF Done
    <3>3. Sealed /\ Len(queue) = 1
      BY <3>1, <3>2
    <3>4. queue' \in Seq(Nat) /\ Len(queue') = 0
      BY <1>1, <1>2, <3>3
    <3>5. queue' = <<>>
      BY <3>4, EmptySeq
    <3> QED
      BY <3>3, <3>5
  <2>2. ~Sealed' /\ Taken' = Taken /\ worker' = "joining"
    BY <1>1, <1>3, <1>5 DEF Sealed, Taken
  <2>3. Taken = emitted
    BY <2>1 DEF QueueGoesOn
  <2>4. QueueGoesOn'
    <3>1. Len(queue') = 0 /\ emitted' = Taken'
      BY <1>1, <2>1, <2>2, <2>3
    <3>2. Taken' \in Nat
      BY <2>2
    <3> HIDE FeedTypes
    <3> QED
      BY <2>1, <2>2, <3>1, <3>2 DEF QueueGoesOn
  <2>5. EventsInOrder'
    BY <1>1, <2>2 DEF EventsInOrder
  <2> QED
    BY <1>4, <2>4, <2>5 DEF FeedInStep
<1>6. CASE Head(queue) # Done
  <2>1. worker' = "publishing" /\ Taken' = Taken + 1 /\ (Sealed' <=> Sealed)
    BY <1>1, <1>3, <1>6 DEF Sealed, Taken
  <2>2. Head(queue) = Taken + 1 /\ (Sealed => Len(queue) > 1)
    BY <1>2, <1>6 DEF QueueGoesOn
  <2>3. \A i \in 1 .. Len(queue') :
          queue'[i] = IF Sealed /\ i = Len(queue') THEN Done ELSE Taken + 1 + i
    <3> TAKE i \in 1 .. Len(queue')
    <3>1. i + 1 \in 1 .. Len(queue) /\ (i = Len(queue') <=> i + 1 = Len(queue))
      BY <1>2
    <3>2. queue[i + 1] = IF Sealed /\ i + 1 = Len(queue) THEN Done ELSE Taken + (i + 1)
      BY <3>1 DEF QueueGoesOn
    <3>3. queue'[i] = queue[i + 1]
      BY <1>2
    <3>4. Taken \in Nat /\ i \in Nat
      BY <1>2
    <3> HIDE FeedTypes
    <3>5. Taken + (i + 1) = Taken + 1 + i
      BY <3>4
    <3> QED
      BY <3>1, <3>2, <3>3, <3>5
  <2>4. Sealed => queue' # <<>>
    BY <1>2, <2>2
  <2>5. Taken + 1 + Len(queue') = emitted + (IF Sealed THEN 1 ELSE 0)
    BY <1>2 DEF QueueGoesOn
  <2>6. QueueGoesOn'
    BY <1>1, <2>1, <2>3, <2>4, <2>5 DEF QueueGoesOn
  <2>7. EventsInOrder'
    BY <1>1, <1>3, <2>2 DEF EventsInOrder
  <2> QED
    BY <1>4, <2>6, <2>7 DEF FeedInStep
<1> QED
  BY <1>5, <1>6

LEMMA PublishFeeds == FInv /\ Publish => FeedInStep'
<1> SUFFICES ASSUME FInv, Publish PROVE FeedInStep'
  OBVIOUS
<1> USE FeedTypes
<1>1. /\ worker = "publishing" /\ worker' = "reading" /\ events' = Append(events, item)
      /\ debate' = debate /\ box' = box /\ emitted' = emitted /\ queue' = queue
      /\ item' = item /\ sent' = sent /\ Notify
  BY DEF Publish, runVars
<1>2. item = Len(events) + 1 /\ item \in Nat
  BY <1>1 DEF EventsInOrder
<1>3. /\ Len(events') = Len(events) + 1 /\ events'[Len(events) + 1] = item
      /\ \A i \in 1 .. Len(events) : events'[i] = events[i]
  BY <1>1, <1>2
<1>4. EventsInOrder'
  BY <1>1, <1>2, <1>3 DEF EventsInOrder
<1>5. BoxFollowsDebate'
  BY <1>1 DEF BoxFollowsDebate
<1>6. Taken' = Taken /\ (Sealed' <=> Sealed)
  BY <1>1, <1>3 DEF Taken, Sealed
<1>7. QueueGoesOn'
  BY <1>1, <1>6 DEF QueueGoesOn
<1>8. ReadersFollow'
  <2>1. ~closed
    BY <1>1 DEF RecordFollowsWorker
  <2>2. \A r \in Readers : reader'[r] \notin {"drained", "gone"}
    BY <1>1, <2>1 DEF ReadersToldLast, Notify
  <2>3. \A r \in Readers : Len(sent[r]) <= Len(events)
    BY DEF ReadersFollow
  <2> QED
    BY <1>1, <1>3, <2>2, <2>3 DEF ReadersFollow
<1> QED
  BY <1>4, <1>5, <1>7, <1>8 DEF FeedInStep

\* The worker ends its run: nothing is queued any more.
LEMMA WorkerEndFeeds ==
  ASSUME FInv, worker \in {"joining", "finishing", "marking", "closing"},
         worker' \in {"finishing", "marking", "closing", "returned", "died"},
         UNCHANGED <<runVars, item, events, sent>>, Notify \/ UNCHANGED reader,
         worker = "joining" => debate = "over"
  PROVE  FeedInStep'
<1> USE FeedTypes
<1>1. /\ debate' = debate /\ box' = box /\ emitted' = emitted /\ queue' = queue
      /\ item' = item /\ events' = events /\ sent' = sent
  BY DEF runVars
<1>2. debate \notin {"running", "ending"}
  BY DEF BoxFollowsDebate
<1>3. BoxFollowsDebate' /\ EventsInOrder'
  BY <1>1, <1>2 DEF BoxFollowsDebate, EventsInOrder
<1>4. ~Sealed /\ ~Sealed' /\ Taken' = Taken
  BY <1>1 DEF Sealed, Taken
<1>5. QueueGoesOn'
  BY <1>1, <1>4 DEF QueueGoesOn
<1>6. \A r \in Readers : reader'[r] \in {"drained", "gone"} => reader'[r] = reader[r]
  BY DEF Notify
<1>7. ReadersFollow'
  BY <1>1, <1>6 DEF ReadersFollow
<1> QED
  BY <1>3, <1>5, <1>7 DEF FeedInStep

LEMMA JoinFeeds == FInv /\ Join => FeedInStep'
  BY WorkerEndFeeds DEF Join, Handles, bufferVars, readerVars

LEMMA MarkFeeds == FInv /\ Mark => FeedInStep'
  BY WorkerEndFeeds DEF Mark, bufferVars, readerVars

LEMMA StoreFeeds == FInv /\ Store => FeedInStep'
  BY WorkerEndFeeds DEF Store, bufferVars, readerVars

LEMMA CloseFeeds == FInv /\ Close => FeedInStep'
  BY WorkerEndFeeds DEF Close

\* What leaves the run, the worker and the buffer alone.
LEMMA AloneFeeds ==
  ASSUME FInv, UNCHANGED <<runVars, workerVars, bufferVars>>, ReadersFollow'
  PROVE  FeedInStep'
<1> USE FeedTypes
<1>1. /\ debate' = debate /\ box' = box /\ emitted' = emitted /\ queue' = queue
      /\ item' = item /\ events' = events /\ worker' = worker
  BY DEF runVars, workerVars, bufferVars
<1>2. BoxFollowsDebate' /\ EventsInOrder'
  BY <1>1 DEF BoxFollowsDebate, EventsInOrder
<1>3. Taken' = Taken /\ (Sealed' <=> Sealed)
  BY <1>1 DEF Taken, Sealed
<1>4. QueueGoesOn'
  BY <1>1, <1>3 DEF QueueGoesOn
<1> QED
  BY <1>2, <1>4 DEF FeedInStep

LEMMA ReaderFeeds ==
  ASSUME FInv, NEW r \in Readers, Connect(r) \/ Ask(r) \/ Reader(r)
  PROVE  FeedInStep'
<1> USE FeedTypes
<1>1. UNCHANGED <<runVars, workerVars, bufferVars>>
  BY DEF Connect, Ask, Reader, Wait, Send, Exhaust, SayDone
<1>2. events' = events
  BY <1>1 DEF bufferVars
<1>3. CASE Send(r)
  <2>1. /\ reader' = [reader EXCEPT ![r] = "asking"] /\ Len(sent[r]) < Len(events)
        /\ sent' = [sent EXCEPT ![r] = Append(sent[r], events[Len(sent[r]) + 1])]
    BY <1>3 DEF Send, Goes
  <2>2. Len(sent'[r]) = Len(sent[r]) + 1 /\ \A q \in Readers \ {r} : sent'[q] = sent[q]
    <3>1. sent'[r] = Append(sent[r], events[Len(sent[r]) + 1])
      BY <2>1
    <3>2. events[Len(sent[r]) + 1] \in Nat
      BY <2>1
    <3>3. Len(sent'[r]) = Len(sent[r]) + 1
      BY <3>1, <3>2
    <3> QED
      BY <3>3, <2>1
  <2>3. ReadersFollow'
    BY <1>2, <2>1, <2>2 DEF ReadersFollow
  <2> QED
    BY <1>1, <2>3, AloneFeeds
<1>4. CASE Connect(r) \/ Ask(r) \/ Wait(r) \/ Exhaust(r) \/ SayDone(r)
  <2>1. sent' = sent /\ \A q \in Readers \ {r} : reader'[q] = reader[q]
    BY <1>4 DEF Connect, Ask, Wait, Exhaust, SayDone, Goes
  <2>2. reader'[r] \in {"drained", "gone"} => Len(sent[r]) = Len(events)
    BY <1>4 DEF Connect, Ask, Wait, Exhaust, SayDone, Goes, Drained, ReadersFollow
  <2>3. ReadersFollow'
    BY <1>2, <2>1, <2>2 DEF ReadersFollow
  <2> QED
    BY <1>1, <2>3, AloneFeeds
<1> QED
  BY <1>3, <1>4 DEF Reader

LEMMA PollFeeds == ASSUME FInv, NEW p \in Polls, Poll(p) PROVE FeedInStep'
<1>1. UNCHANGED <<runVars, workerVars, bufferVars, readerVars>>
  BY DEF Poll, Lookup, PollStatus, PollResult, PollError, Reads
<1>2. ReadersFollow'
  BY <1>1, FeedTypes DEF ReadersFollow, bufferVars, readerVars
<1> QED
  BY <1>1, <1>2, AloneFeeds

LEMMA StutterFeeds == FInv /\ UNCHANGED vars => FeedInStep'
<1> SUFFICES ASSUME FInv, UNCHANGED vars PROVE FeedInStep'
  OBVIOUS
<1>1. ReadersFollow'
  BY FeedTypes DEF ReadersFollow, vars, bufferVars, readerVars
<1> QED
  BY <1>1, AloneFeeds DEF vars

LEMMA FeedKeeps == FInv /\ [Next]_vars => FInv'
<1> SUFFICES ASSUME FInv, [Next]_vars PROVE FInv'
  OBVIOUS
<1>1. IInv'
  BY NextKeeps DEF FInv
<1>2. CASE DebateThread
  <2>1. CompleteRun \/ RunRaises => FeedInStep'
    BY EndFeeds DEF CompleteRun, RunRaises
  <2> QED
    BY <1>1, <1>2, <2>1, EmitFeeds, PutDoneFeeds DEF DebateThread, FInv
<1>3. CASE Worker
  BY <1>1, <1>3, StartRunFeeds, SetupRaisesFeeds, GetEventFeeds, PublishFeeds, JoinFeeds,
     MarkFeeds, StoreFeeds, CloseFeeds DEF Worker, FInv
<1>4. CASE \E r \in Readers : Connect(r) \/ Ask(r) \/ Reader(r)
  BY <1>1, <1>4, ReaderFeeds DEF FInv
<1>5. CASE \E p \in Polls : Poll(p)
  BY <1>1, <1>5, PollFeeds DEF FInv
<1>6. CASE Over \/ UNCHANGED vars
  BY <1>1, <1>6, StutterFeeds DEF Over, FInv
<1>7. CASE TakeThread
  BY <1>1, <1>7, TakeThreadFeeds DEF FInv
<1> QED
  BY <1>2, <1>3, <1>4, <1>5, <1>6, <1>7 DEF Next

LEMMA FeedInvariance == Spec => []FInv
<1>1. Init => FInv
  BY FeedInit
<1>2. FInv /\ [Next]_vars => FInv'
  BY FeedKeeps
<1> QED
  BY <1>1, <1>2, PTL DEF Spec

-----------------------------------------------------------------------------
(* Every step is a step of LiveFeed or leaves what it shows alone. *)

LEMMA EventsEmitted == ASSUME FInv PROVE Len(events) <= emitted
<1> USE FeedTypes
<1>1. Taken + Len(queue) = emitted + (IF Sealed THEN 1 ELSE 0)
  BY DEF QueueGoesOn
<1>2. Sealed => Len(queue) >= 1
  BY DEF QueueGoesOn
<1>3. Len(events) <= Taken
  BY DEF Taken
<1> QED
  BY <1>1, <1>2, <1>3

LEMMA FeedStarts == Init => Feed!Init
<1> SUFFICES ASSUME Init PROVE Feed!Init
  OBVIOUS
<1>1. {r \in Readers : reader[r] = "gone"} = {}
  BY DEF Init
<1> QED
  BY <1>1 DEF Init, Feed!Init

LEMMA RunRefines ==
  ASSUME FInv, DebateThread
  PROVE  [Feed!Next]_(Feed!vars)
<1> USE FeedTypes
<1>1. reader' = reader /\ sent' = sent
  BY DEF DebateThread, Emit, CompleteRun, RunRaises, EndsWith, PutDone, readerVars
<1>2. CASE Emit
  <2>1. Feed!Produce
    BY <1>1, <1>2 DEF Emit, BoxFollowsDebate, Feed!Produce
  <2> QED
    BY <2>1 DEF Feed!Next
<1>3. CASE CompleteRun \/ RunRaises
  <2>1. box = "empty" /\ box' # "empty" /\ emitted' = emitted
    BY <1>3 DEF CompleteRun, RunRaises, EndsWith, BoxFollowsDebate
  <2>2. Feed!Finish
    BY <1>1, <2>1 DEF Feed!Finish
  <2> QED
    BY <2>2 DEF Feed!Next
<1>4. CASE PutDone
  BY <1>1, <1>4 DEF PutDone, Feed!vars
<1> QED
  BY <1>2, <1>3, <1>4 DEF DebateThread

LEMMA WorkerRefines ==
  ASSUME FInv, TakeThread \/ Worker
  PROVE  [Feed!Next]_(Feed!vars)
<1> USE FeedTypes
<1>1. sent' = sent /\ emitted' = emitted
  BY DEF TakeThread, Worker, StartRun, SetupRaises, GetEvent, Publish, Join, Mark, Store, Close,
     readerVars, runVars
<1>2. {r \in Readers : reader'[r] = "gone"} = {r \in Readers : reader[r] = "gone"}
  BY DEF TakeThread, Worker, StartRun, SetupRaises, GetEvent, Publish, Join, Mark, Store, Close,
     readerVars, Notify
<1>3. CASE SetupRaises
  <2>1. box = "empty" /\ box' # "empty"
    BY <1>3 DEF SetupRaises, BoxFollowsDebate
  <2>2. Feed!Finish
    BY <1>1, <1>2, <2>1 DEF Feed!Finish
  <2> QED
    BY <2>2 DEF Feed!Next
<1>4. CASE ~SetupRaises
  <2>1. box' = box
    BY <1>4 DEF TakeThread, Worker, StartRun, GetEvent, Publish, Join, Mark, Store, Close, runVars
  <2> QED
    BY <1>1, <1>2, <2>1 DEF Feed!vars
<1> QED
  BY <1>3, <1>4

LEMMA ReaderRefines ==
  ASSUME FInv, NEW r \in Readers, Connect(r) \/ Ask(r) \/ Reader(r)
  PROVE  [Feed!Next]_(Feed!vars)
<1> USE FeedTypes
<1>1. box' = box /\ emitted' = emitted
  BY DEF Connect, Ask, Reader, Wait, Send, Exhaust, SayDone, runVars
<1>2. CASE Send(r)
  <2>1. /\ reader' = [reader EXCEPT ![r] = "asking"] /\ reader[r] = "checking"
        /\ Len(sent[r]) < Len(events)
        /\ sent' = [sent EXCEPT ![r] = Append(sent[r], events[Len(sent[r]) + 1])]
    BY <1>2 DEF Send, Goes
  <2>2. events[Len(sent[r]) + 1] = Len(sent[r]) + 1
    BY <2>1 DEF EventsInOrder
  <2>3. Len(events) <= emitted
    BY EventsEmitted
  <2>4. {q \in Readers : reader'[q] = "gone"} = {q \in Readers : reader[q] = "gone"}
        /\ r \notin {q \in Readers : reader[q] = "gone"}
    BY <2>1
  <2>5. Feed!Deliver(r)
    BY <1>1, <2>1, <2>2, <2>3, <2>4 DEF Feed!Deliver
  <2> QED
    BY <2>5 DEF Feed!Next
<1>3. CASE SayDone(r)
  <2>1. /\ sent' = sent /\ reader[r] = "drained"
        /\ reader' = [reader EXCEPT ![r] = "gone"]
    BY <1>3 DEF SayDone, Goes
  <2>2. closed /\ Len(sent[r]) = Len(events)
    BY <2>1 DEF ReadersToldLast, ReadersFollow
  <2>3. worker = "returned"
    BY <2>2 DEF RecordFollowsWorker
  <2>4. box # "empty" /\ queue = <<>> /\ Taken = Len(events) /\ ~Sealed
    BY <2>3 DEF BoxIsFinal, Ended, QueueGoesOn, Taken, Sealed
  <2>5. Len(events) = emitted
    BY <2>4 DEF QueueGoesOn
  <2>6. {q \in Readers : reader'[q] = "gone"} = {q \in Readers : reader[q] = "gone"} \cup {r}
    BY <2>1
  <2>7. r \notin {q \in Readers : reader[q] = "gone"}
    BY <2>1
  <2>8. Feed!Tell(r)
    BY <1>1, <2>1, <2>2, <2>4, <2>5, <2>6, <2>7 DEF Feed!Tell
  <2> QED
    BY <2>8 DEF Feed!Next
<1>4. CASE Connect(r) \/ Ask(r) \/ Wait(r) \/ Exhaust(r)
  <2>1. sent' = sent
    BY <1>4 DEF Connect, Ask, Wait, Exhaust
  <2>2. {q \in Readers : reader'[q] = "gone"} = {q \in Readers : reader[q] = "gone"}
    BY <1>4 DEF Connect, Ask, Wait, Exhaust, Goes
  <2> QED
    BY <1>1, <2>1, <2>2 DEF Feed!vars
<1> QED
  BY <1>2, <1>3, <1>4 DEF Reader

LEMMA FeedStep == FInv /\ [Next]_vars => [Feed!Next]_(Feed!vars)
<1> SUFFICES ASSUME FInv, [Next]_vars PROVE [Feed!Next]_(Feed!vars)
  OBVIOUS
<1>1. CASE \E p \in Polls : Poll(p)
  BY <1>1 DEF Poll, Lookup, PollStatus, PollResult, PollError, Reads, runVars, readerVars,
     Feed!vars
<1>2. CASE Over \/ UNCHANGED vars
  BY <1>2 DEF Over, vars, runVars, readerVars, Feed!vars
<1> QED
  BY <1>1, <1>2, RunRefines, WorkerRefines, ReaderRefines DEF Next

\* Whatever the threads, the queue and the buffer between them do, every reader
\* gets the run's events in order and the end only after all of them
\* (event_buffer.py:10-18).
THEOREM FeedImplemented == Spec => ImplementsLiveFeed
<1>1. Init => Feed!Init
  BY FeedStarts
<1>2. FInv /\ [Next]_vars => [Feed!Next]_(Feed!vars)
  BY FeedStep
<1> QED
  BY <1>1, <1>2, FeedInvariance, PTL DEF Spec, ImplementsLiveFeed, Feed!Spec

-----------------------------------------------------------------------------
(* Nobody waits in vain, and what goes on runs out: with the scheduling of *)
(* the threads this is why readers end.                                    *)

\* A reader sleeps only while it has been sent all there is and the buffer is
\* open: publish and close wake whoever they concern, so no wakeup is lost.
NoneMissed ==
  /\ \A r \in Readers : reader[r] = "waiting" => Len(sent[r]) = Len(events) /\ ~closed
  /\ locked <=> worker = "marking"

\* The worker in its thread and the readers in theirs are what the pool serves.
PoolBounded == Cardinality(Held) + (IF AtWork THEN 1 ELSE 0) <= Threads

\* The readers that keep a thread but wait for nobody.
Movers == {r \in Readers : reader[r] \in {"checking", "drained"}}

\* Whoever cannot go on waits for one who can: a worker at an empty queue for
\* a debate thread that runs, one that joins for nobody, one at the store for
\* no holder of its lock, a reader for a worker that has not closed the buffer
\* (engine.py:63-84, event_buffer.py:33-66, debate_store.py:72-86); and who
\* awaits a thread of the pool, for one that has it and will give it back,
\* unless the readers starve the run, which takes as many of them as there are
\* threads, or the worker died, whose readers do wait in vain
\* (debate_routes.py:55-60, 88).
NobodyWaitsInVain ==
  /\ worker = "reading" /\ queue = <<>> => debate \in {"running", "ending"}
  /\ worker = "joining" => debate = "over"
  /\ worker \in {"finishing", "closing"} => ~locked
  /\ locked => worker = "marking"
  /\ \A r \in Readers : reader[r] = "waiting" =>
       Len(sent[r]) = Len(events) /\ ~closed /\ worker # "returned"
  /\ worker = "returned" => closed
  /\ worker = "scheduled" /\ ~HasRoom => Movers # {} \/ Starved
  /\ \A r \in Readers : reader[r] = "asking" /\ ~HasRoom =>
       Movers # {} \/ AtWork \/ Starved \/ Died
  /\ Starved => Cardinality(Readers) >= Threads

LEMMA NoneMissedKept == ASSUME FInv, NoneMissed, [Next]_vars PROVE NoneMissed'
<1> USE FeedTypes
<1>1. CASE UNCHANGED <<events, closed, reader, sent, locked>>
            /\ (worker = "marking" <=> worker' = "marking")
  BY <1>1 DEF NoneMissed
<1>2. CASE Publish \/ Close
  <2>1. \A r \in Readers : reader'[r] # "waiting"
    BY <1>2 DEF Publish, Close, Notify
  <2>2. UNCHANGED locked /\ worker # "marking" /\ worker' # "marking"
    BY <1>2 DEF Publish, Close, storeVars
  <2> QED
    BY <2>1, <2>2 DEF NoneMissed
<1>3. CASE Mark \/ Store
  BY <1>3 DEF Mark, Store, NoneMissed, bufferVars, readerVars
<1>4. ASSUME NEW r \in Readers, Connect(r) \/ Ask(r) \/ Reader(r)
      PROVE  NoneMissed'
  <2>1. UNCHANGED <<events, closed, locked, worker>>
    BY <1>4 DEF Connect, Ask, Reader, Wait, Send, Exhaust, SayDone, workerVars, bufferVars,
     storeVars
  <2>2. \A q \in Readers \ {r} : reader'[q] = reader[q] /\ sent'[q] = sent[q]
    BY <1>4 DEF Connect, Ask, Reader, Wait, Send, Exhaust, SayDone, Goes
  <2>3. reader'[r] = "waiting" => sent'[r] = sent[r] /\ Len(sent[r]) >= Len(events) /\ ~closed
    <3>1. CASE Wait(r)
      BY <3>1 DEF Wait
    <3>2. CASE Connect(r) \/ Ask(r) \/ Exhaust(r) \/ SayDone(r)
      BY <3>2 DEF Connect, Ask, Exhaust, SayDone, Goes
    <3>3. CASE Send(r)
      BY <3>3 DEF Send, Goes
    <3> QED
      BY <1>4, <3>1, <3>2, <3>3 DEF Reader
  <2>4. Len(sent[r]) <= Len(events)
    BY DEF ReadersFollow
  <2> QED
    BY <2>1, <2>2, <2>3, <2>4 DEF NoneMissed
<1>5. CASE DebateThread
  BY <1>1, <1>5 DEF DebateThread, Emit, CompleteRun, RunRaises, EndsWith, PutDone,
     workerVars, bufferVars, storeVars, readerVars
<1>6. CASE TakeThread \/ StartRun \/ SetupRaises \/ GetEvent \/ Join
  BY <1>1, <1>6 DEF TakeThread, StartRun, SetupRaises, GetEvent, Join, Handles, bufferVars,
     storeVars, readerVars
<1>7. ASSUME NEW p \in Polls, Poll(p)
      PROVE  NoneMissed'
  BY <1>1, <1>7 DEF Poll, Lookup, PollStatus, PollResult, PollError, Reads, workerVars,
     bufferVars, storeVars, readerVars
<1>8. CASE Over \/ UNCHANGED vars
  BY <1>1, <1>8 DEF Over, vars, workerVars, bufferVars, storeVars, readerVars
<1> QED
  BY <1>2, <1>3, <1>4, <1>5, <1>6, <1>7, <1>8 DEF Next, Worker

LEMMA PoolKept == ASSUME FInv, PoolBounded, [Next]_vars PROVE PoolBounded'
<1> USE FeedTypes
<1>1. IsFiniteSet(Held) /\ Cardinality(Held) \in Nat
  BY FS_Subset, FS_CardinalityType, DebateApiAssumption DEF Held
<1>2. CASE TakeThread
  <2>1. Held' = Held /\ ~AtWork /\ HasRoom
    BY <1>2 DEF TakeThread, Held, AtWork, readerVars
  <2> QED
    BY <1>1, <2>1, DebateApiAssumption DEF PoolBounded, HasRoom
<1>3. CASE Worker
  <2>1. Held' = Held
    BY <1>3 DEF Worker, StartRun, SetupRaises, GetEvent, Publish, Join, Mark, Store, Close,
       Notify, Held, readerVars
  <2>2. AtWork
    BY <1>3 DEF Worker, StartRun, SetupRaises, GetEvent, Publish, Join, Mark, Store, Close, AtWork
  <2> QED
    BY <1>1, <2>1, <2>2, DebateApiAssumption DEF PoolBounded
<1>4. ASSUME NEW r \in Readers, Ask(r)
      PROVE  PoolBounded'
  <2>1. Held' = Held \cup {r} /\ UNCHANGED worker /\ HasRoom
    BY <1>4 DEF Ask, Goes, Held, workerVars
  <2>2. Cardinality(Held \cup {r}) =
          IF r \in Held THEN Cardinality(Held) ELSE Cardinality(Held) + 1
    <3> DEFINE h == Held
    <3>1. IsFiniteSet(h)
      BY <1>1
    <3> HIDE DEF h
    <3>2. Cardinality(h \cup {r}) = IF r \in h THEN Cardinality(h) ELSE Cardinality(h) + 1
      BY <3>1, FS_AddElement
    <3> QED
      BY <3>2 DEF h
  <2>3. AtWork' = AtWork
    BY <2>1 DEF AtWork
  <2> QED
    BY <1>1, <2>1, <2>2, <2>3, DebateApiAssumption DEF PoolBounded, HasRoom
<1>5. ASSUME NEW r \in Readers, Connect(r) \/ Reader(r)
      PROVE  PoolBounded'
  <2>1. Held' \subseteq Held /\ UNCHANGED worker
    BY <1>5 DEF Connect, Reader, Wait, Send, Exhaust, SayDone, Goes, Held, workerVars
  <2>2. Cardinality(Held') <= Cardinality(Held) /\ Cardinality(Held') \in Nat
    BY <1>1, <2>1, FS_Subset, FS_CardinalityType
  <2>3. AtWork' = AtWork
    BY <2>1 DEF AtWork
  <2> QED
    BY <1>1, <2>2, <2>3, DebateApiAssumption DEF PoolBounded
<1>6. CASE DebateThread \/ (\E p \in Polls : Poll(p)) \/ Over \/ UNCHANGED vars
  <2>1. UNCHANGED <<reader, worker>>
    BY <1>6 DEF DebateThread, Emit, CompleteRun, RunRaises, EndsWith, PutDone, Poll, Lookup,
       PollStatus, PollResult, PollError, Reads, Over, vars, workerVars, readerVars
  <2> QED
    BY <2>1 DEF PoolBounded, Held, AtWork
<1> QED
  BY <1>2, <1>3, <1>4, <1>5, <1>6 DEF Next

LEMMA NoneMissedAlways == Spec => [](FInv /\ NoneMissed /\ PoolBounded)
<1>1. Init => NoneMissed /\ PoolBounded
  <2> SUFFICES ASSUME Init PROVE NoneMissed /\ PoolBounded
    OBVIOUS
  <2>1. Held = {} /\ ~AtWork
    BY DEF Init, Held, AtWork
  <2> QED
    BY <2>1, FS_EmptySet, DebateApiAssumption DEF Init, NoneMissed, PoolBounded
<1>2. FInv /\ NoneMissed /\ PoolBounded /\ [Next]_vars => NoneMissed' /\ PoolBounded'
  BY NoneMissedKept, PoolKept
<1> QED
  BY <1>1, <1>2, FeedInvariance, PTL DEF Spec

LEMMA ThreadsComeBack ==
  ASSUME FInv, NoneMissed, PoolBounded
  PROVE  /\ worker = "scheduled" /\ ~HasRoom => Movers # {} \/ Starved
         /\ \A r \in Readers : reader[r] = "asking" /\ ~HasRoom =>
              Movers # {} \/ AtWork \/ Starved \/ Died
         /\ Starved => Cardinality(Readers) >= Threads
<1> DEFINE Waiters == {r \in Readers : reader[r] = "waiting"}
<1>1. /\ IsFiniteSet(Held) /\ Cardinality(Held) \in Nat
      /\ Cardinality(Waiters) <= Cardinality(Readers)
      /\ Cardinality(Waiters) \in Nat /\ Cardinality(Readers) \in Nat
  <2>1. Waiters \in SUBSET Readers /\ Held \in SUBSET Readers
    BY DEF Held
  <2> QED
    BY <2>1, FS_Subset, FS_CardinalityType, DebateApiAssumption
<1>2. ASSUME ~AtWork, ~HasRoom, Movers = {}
      PROVE  Cardinality(Waiters) = Threads /\ Waiters # {}
  <2>1. Held = Waiters
    BY <1>2 DEF Held, Movers
  <2>2. Cardinality(Held) = Threads
    BY <1>1, <1>2, DebateApiAssumption DEF HasRoom, PoolBounded
  <2> QED
    BY <2>1, <2>2, FS_EmptySet, DebateApiAssumption
<1>3. ASSUME Waiters # {} PROVE worker # "returned"
  BY <1>3, FeedTypes DEF NoneMissed, RecordFollowsWorker
<1>4. worker = "scheduled" => ~AtWork
  BY DEF AtWork
<1>5. ~AtWork => worker = "scheduled" \/ worker = "returned" \/ Died
  BY DEF AtWork, Died
<1>6. worker = "scheduled" /\ Cardinality(Waiters) = Threads => Starved
  BY DEF Starved
<1>7. Starved => Cardinality(Waiters) = Threads
  BY DEF Starved
<1> HIDE DEF Waiters
<1>8. Starved => Cardinality(Readers) >= Threads
  BY <1>1, <1>7, DebateApiAssumption
<1> QED
  BY <1>2, <1>3, <1>4, <1>5, <1>6, <1>8

THEOREM NoWakeupLost == Spec => []NobodyWaitsInVain
<1>1. FInv /\ NoneMissed /\ PoolBounded => NobodyWaitsInVain
  <2> SUFFICES ASSUME FInv, NoneMissed, PoolBounded PROVE NobodyWaitsInVain
    OBVIOUS
  <2>1. worker = "reading" /\ queue = <<>> => debate \in {"running", "ending"}
    <3>1. debate \in {"unborn", "running", "ending", "over"}
      BY DEF FInv, IInv, TypeOK
    <3> QED
      BY <3>1, FeedTypes DEF BoxFollowsDebate, QueueGoesOn, Sealed
  <2>2. worker = "joining" => debate = "over"
    <3>1. debate \in {"unborn", "running", "ending", "over"}
      BY DEF FInv, IInv, TypeOK
    <3> QED
      BY <3>1, FeedTypes DEF BoxFollowsDebate
  <2> QED
    BY <2>1, <2>2, ThreadsComeBack, FeedTypes DEF NoneMissed, NobodyWaitsInVain, RecordFollowsWorker
<1> QED
  BY <1>1, NoneMissedAlways, PTL

ThreadStage ==
  CASE debate = "ending" -> 3
    [] debate = "over"   -> 0
    [] OTHER             -> 4

WorkerStage ==
  CASE worker = "scheduled"  -> 7
    [] worker = "setup"      -> 6
    [] worker = "reading"    -> 5
    [] worker = "publishing" -> 6
    [] worker = "joining"    -> 4
    [] worker = "finishing"  -> 3
    [] worker = "marking"    -> 2
    [] worker = "closing"    -> 1
    [] OTHER                 -> 0

\* What the debate thread and the worker have still to do ...
RunLeft == 3 * (LastEvent - emitted) + 2 * Len(queue) + ThreadStage + WorkerStage

ReaderStage(where) ==
  CASE where = "away"                   -> 4
    [] where = "asking"                 -> 3
    [] where = "checking"               -> 2
    [] where \in {"waiting", "drained"} -> 1
    [] OTHER                            -> 0

\* ... twice, since a step of theirs may wake the reader, and what the reader
\* has still to be sent.
ReaderLeft ==
  [r \in Readers |-> 2 * RunLeft + 2 * (LastEvent - Len(sent[r])) + ReaderStage(reader[r])]

LEMMA LeftTyped ==
  ASSUME FInv
  PROVE  RunLeft \in Nat /\ \A r \in Readers : ReaderLeft[r] \in Nat
<1> USE FeedTypes
<1>1. LastEvent - emitted \in Nat
  BY Types, DebateApiAssumption DEF FInv
<1>2. ThreadStage \in Nat /\ WorkerStage \in Nat
  BY DEF ThreadStage, WorkerStage
<1>3. RunLeft \in Nat
  BY <1>1, <1>2 DEF RunLeft
<1>4. ASSUME NEW r \in Readers
      PROVE  ReaderLeft[r] \in Nat
  <2>1. Len(sent[r]) <= emitted
    BY EventsEmitted DEF ReadersFollow
  <2>2. LastEvent - Len(sent[r]) \in Nat
    BY <1>1, <2>1, DebateApiAssumption
  <2>3. ReaderStage(reader[r]) \in Nat
    BY DEF ReaderStage
  <2> QED
    BY <1>3, <2>2, <2>3 DEF ReaderLeft
<1> QED
  BY <1>3, <1>4

LEMMA RunStepsLeft ==
  ASSUME FInv, DebateThread \/ TakeThread \/ Worker
  PROVE  RunLeft' <= RunLeft - 1
<1>1. LastEvent \in Nat /\ emitted \in Nat /\ Len(queue) \in Nat
  BY FeedTypes, DebateApiAssumption DEF FInv
<1>2. ThreadStage \in 0 .. 4 /\ WorkerStage \in 0 .. 7
  BY DEF ThreadStage, WorkerStage
<1>3. UNCHANGED worker => WorkerStage' = WorkerStage
  BY DEF WorkerStage
<1>4. UNCHANGED debate => ThreadStage' = ThreadStage
  BY DEF ThreadStage
<1>5. CASE Emit
  <2>1. /\ emitted' = emitted + 1 /\ Len(queue') = Len(queue) + 1
        /\ WorkerStage' = WorkerStage /\ ThreadStage' = ThreadStage
    BY <1>3, <1>4, <1>5, FeedTypes DEF Emit, workerVars
  <2> QED
    BY <1>1, <1>2, <2>1 DEF RunLeft
<1>6. CASE CompleteRun \/ RunRaises
  <2>1. /\ emitted' = emitted /\ Len(queue') = Len(queue)
        /\ WorkerStage' = WorkerStage /\ ThreadStage' = 3 /\ ThreadStage = 4
    BY <1>3, <1>6, FeedTypes DEF CompleteRun, RunRaises, EndsWith, ThreadStage, workerVars
  <2> QED
    BY <1>1, <1>2, <2>1 DEF RunLeft
<1>7. CASE PutDone
  <2>1. /\ emitted' = emitted /\ Len(queue') = Len(queue) + 1
        /\ WorkerStage' = WorkerStage /\ ThreadStage' = 0 /\ ThreadStage = 3
    BY <1>3, <1>7, FeedTypes DEF PutDone, ThreadStage, Done, workerVars
  <2> QED
    BY <1>1, <1>2, <2>1 DEF RunLeft
<1>8. CASE GetEvent
  <2>1. /\ emitted' = emitted /\ Len(queue') = Len(queue) - 1
        /\ WorkerStage = 5 /\ WorkerStage' \in {4, 6} /\ ThreadStage' = ThreadStage
    BY <1>4, <1>8, FeedTypes DEF GetEvent, WorkerStage
  <2> QED
    BY <1>1, <1>2, <2>1 DEF RunLeft
<1>9. CASE StartRun
  <2>1. /\ emitted' = emitted /\ Len(queue') = Len(queue)
        /\ WorkerStage = 6 /\ WorkerStage' = 5 /\ ThreadStage = 4 /\ ThreadStage' = 4
    BY <1>9, FeedTypes DEF StartRun, WorkerStage, ThreadStage, BoxIsFinal
  <2> QED
    BY <1>1, <1>2, <2>1 DEF RunLeft
<1>10. CASE TakeThread \/ SetupRaises \/ Publish \/ Join \/ Mark \/ Store \/ Close
  <2>1. emitted' = emitted /\ Len(queue') = Len(queue) /\ ThreadStage' = ThreadStage
    BY <1>4, <1>10, FeedTypes DEF TakeThread, SetupRaises, Publish, Join, Mark, Store, Close,
       runVars
  <2>2. WorkerStage' \in Nat /\ WorkerStage' < WorkerStage
    BY <1>10 DEF TakeThread, SetupRaises, Handles, Publish, Join, Mark, Store, Close, WorkerStage
  <2> QED
    BY <1>1, <1>2, <2>1, <2>2 DEF RunLeft
<1> QED
  BY <1>5, <1>6, <1>7, <1>8, <1>9, <1>10 DEF DebateThread, Worker

LEMMA ReaderStepsLeft ==
  ASSUME FInv, NEW r \in Readers, Connect(r) \/ Ask(r) \/ Reader(r)
  PROVE  RunLeft' = RunLeft /\ ReaderLeft'[r] < ReaderLeft[r]
         /\ \A q \in Readers \ {r} : ReaderLeft'[q] = ReaderLeft[q]
<1>1. UNCHANGED <<emitted, queue, debate, worker>>
  BY DEF Connect, Ask, Reader, Wait, Send, Exhaust, SayDone, runVars, workerVars
<1>2. RunLeft' = RunLeft
  BY <1>1 DEF RunLeft, ThreadStage, WorkerStage
<1>3. \A q \in Readers \ {r} : reader'[q] = reader[q] /\ sent'[q] = sent[q]
  BY FeedTypes DEF Connect, Ask, Reader, Wait, Send, Exhaust, SayDone, Goes
<1>4. \A q \in Readers \ {r} : ReaderLeft'[q] = ReaderLeft[q]
  BY <1>2, <1>3 DEF ReaderLeft
<1>5. \/ Len(sent'[r]) = Len(sent[r]) + 1 /\ ReaderStage(reader'[r]) = ReaderStage(reader[r]) + 1
      \/ Len(sent'[r]) = Len(sent[r]) /\ ReaderStage(reader'[r]) = ReaderStage(reader[r]) - 1
  <2>1. CASE Send(r)
    BY <2>1, FeedTypes DEF Send, Goes, ReaderStage
  <2>2. CASE Connect(r) \/ Ask(r) \/ Wait(r) \/ Exhaust(r) \/ SayDone(r)
    BY <2>2, FeedTypes DEF Connect, Ask, Wait, Exhaust, SayDone, Goes, ReaderStage
  <2> QED
    BY <2>1, <2>2 DEF Reader
<1>6. RunLeft \in Nat /\ ReaderStage(reader[r]) \in Nat /\ LastEvent \in Nat /\ Len(sent[r]) \in Nat
  BY LeftTyped, FeedTypes, DebateApiAssumption DEF ReaderStage
<1>7. ReaderLeft'[r] = 2 * RunLeft' + 2 * (LastEvent - Len(sent'[r])) + ReaderStage(reader'[r])
  BY DEF ReaderLeft, ReaderStage
<1>8. ReaderLeft[r] = 2 * RunLeft + 2 * (LastEvent - Len(sent[r])) + ReaderStage(reader[r])
  BY DEF ReaderLeft
<1>9. ReaderLeft'[r] < ReaderLeft[r]
  <2> DEFINE n == RunLeft
             k == ReaderStage(reader[r])
             j == ReaderStage(reader'[r])
             l == Len(sent[r])
             m == Len(sent'[r])
  <2>1. n \in Nat /\ k \in Nat /\ l \in Nat /\ LastEvent \in Nat
    BY <1>6
  <2>2. ReaderLeft'[r] = 2 * n + 2 * (LastEvent - m) + j
    BY <1>2, <1>7
  <2>3. ReaderLeft[r] = 2 * n + 2 * (LastEvent - l) + k
    BY <1>8
  <2>4. \/ m = l + 1 /\ j = k + 1
        \/ m = l /\ j = k - 1
    BY <1>5
  <2> HIDE DEF n, k, j, l, m
  <2> QED
    BY <2>1, <2>2, <2>3, <2>4
<1> QED
  BY <1>2, <1>4, <1>9

LEMMA WakingCosts ==
  ASSUME FInv, DebateThread \/ TakeThread \/ Worker, NEW r \in Readers
  PROVE  ReaderLeft'[r] < ReaderLeft[r]
<1>1. sent'[r] = sent[r]
  BY DEF DebateThread, Emit, CompleteRun, RunRaises, EndsWith, PutDone, TakeThread, Worker,
     StartRun,
     SetupRaises, GetEvent, Publish, Join, Mark, Store, Close, readerVars
<1>2. reader'[r] = reader[r] \/ (reader[r] = "waiting" /\ reader'[r] = "checking")
  BY FeedTypes DEF DebateThread, Emit, CompleteRun, RunRaises, EndsWith, PutDone, TakeThread, Worker,
     StartRun,
     SetupRaises, GetEvent, Publish, Join, Mark, Store, Close, readerVars, Notify
<1>3. ReaderStage(reader'[r]) <= ReaderStage(reader[r]) + 1
      /\ ReaderStage(reader[r]) \in Nat /\ ReaderStage(reader'[r]) \in Nat
  BY <1>2 DEF ReaderStage
<1>4. /\ RunLeft \in Nat /\ LastEvent \in Nat /\ Len(sent[r]) \in Nat
      /\ RunLeft' <= RunLeft - 1 /\ RunLeft' \in Int
  <2>1. RunLeft' \in Nat
    <3>1. FInv'
      BY FeedKeeps DEF Next
    <3>2. FInv' => (RunLeft \in Nat)'
      BY LeftTyped, PTL
    <3> QED
      BY <3>1, <3>2
  <2> QED
    BY <2>1, LeftTyped, RunStepsLeft, FeedTypes, DebateApiAssumption
<1>5. ReaderLeft'[r] = 2 * RunLeft' + 2 * (LastEvent - Len(sent'[r])) + ReaderStage(reader'[r])
  BY DEF ReaderLeft, ReaderStage
<1>6. ReaderLeft[r] = 2 * RunLeft + 2 * (LastEvent - Len(sent[r])) + ReaderStage(reader[r])
  BY DEF ReaderLeft
<1> DEFINE m == RunLeft
           n == RunLeft'
           k == ReaderStage(reader[r])
           j == ReaderStage(reader'[r])
           l == Len(sent[r])
<1>7. m \in Nat /\ n \in Int /\ n <= m - 1 /\ k \in Nat /\ j \in Nat /\ j <= k + 1
      /\ l \in Nat /\ LastEvent \in Nat
  BY <1>3, <1>4
<1>8. ReaderLeft'[r] = 2 * n + 2 * (LastEvent - l) + j
  BY <1>1, <1>5
<1>9. ReaderLeft[r] = 2 * m + 2 * (LastEvent - l) + k
  BY <1>6
<1> HIDE DEF m, n, k, j, l
<1> QED
  BY <1>7, <1>8, <1>9

\* What brings a reader nearer to its done record.
Serves(r) == DebateThread \/ TakeThread \/ Worker \/ Connect(r) \/ Ask(r) \/ Reader(r)

\* A reader's way to its done record has a number of steps that no step of
\* anyone makes longer, and every step of the debate thread, of the worker and
\* of the reader makes shorter: a reader that is not told done is one that waits,
\* and for whom, NobodyWaitsInVain says.
ServingRunsOut ==
  /\ \A r \in Readers : [](ReaderLeft[r] \in Nat)
  /\ \A r \in Readers :
       [][/\ ReaderLeft'[r] <= ReaderLeft[r]
          /\ Serves(r) => ReaderLeft'[r] < ReaderLeft[r]]_vars

THEOREM ServingEnds == Spec => ServingRunsOut
<1> SUFFICES ASSUME NEW r \in Readers
             PROVE  Spec => /\ [](ReaderLeft[r] \in Nat)
                            /\ [][/\ ReaderLeft'[r] <= ReaderLeft[r]
                                  /\ Serves(r) =>
                                       ReaderLeft'[r] < ReaderLeft[r]]_vars
  BY DEF ServingRunsOut
<1>1. FInv => ReaderLeft[r] \in Nat
  BY LeftTyped
<1>2. ASSUME FInv, ReaderLeft[r] \in Nat, (ReaderLeft[r] \in Nat)', [Next]_vars
      PROVE  [/\ ReaderLeft'[r] <= ReaderLeft[r]
              /\ Serves(r) => ReaderLeft'[r] < ReaderLeft[r]]_vars
  <2>1. Serves(r) => ReaderLeft'[r] < ReaderLeft[r]
    BY <1>2, WakingCosts, ReaderStepsLeft DEF Serves
  <2>2. ASSUME ~Serves(r), ~UNCHANGED vars
        PROVE  ReaderLeft'[r] = ReaderLeft[r]
    <3>1. CASE \E q \in Readers : Connect(q) \/ Ask(q) \/ Reader(q)
      BY <1>2, <2>2, <3>1, ReaderStepsLeft DEF Serves
    <3>2. CASE \E p \in Polls : Poll(p)
      <4>1. UNCHANGED <<runVars, workerVars, readerVars>>
        BY <3>2 DEF Poll, Lookup, PollStatus, PollResult, PollError, Reads
      <4> QED
        BY <4>1 DEF runVars, workerVars, readerVars, ReaderLeft, RunLeft, ThreadStage,
           WorkerStage, ReaderStage
    <3> QED
      BY <1>2, <2>2, <3>1, <3>2 DEF Next, Over, Serves
  <2> QED
    BY <1>2, <2>1, <2>2
<1> QED
  BY <1>1, <1>2, FeedInvariance, PTL DEF Spec


-----------------------------------------------------------------------------
(* The debate behind the events (Outcome).  A turn that agrees is nudged in *)
(* its round; the scores are counts of marked turns of each side, so the   *)
(* verdict turns over with the sides and a leader's turn adds to its side. *)

Markers == {VERDICT_REBUTTAL_MARKERS, VERDICT_ENGAGEMENT_MARKERS, VERDICT_AGREEMENT_MARKERS}

LEMMA LexiconsFinite ==
  /\ \A markers \in Markers : IsFiniteSet(markers)
  /\ IsFiniteSet(DRIFT_CONCEDE_PHRASES) /\ IsFiniteSet(DRIFT_AGREEMENT_PHRASES)
<1>1. \A a, b, c, d : IsFiniteSet({a, b, c, d})
  <2> TAKE a, b, c, d
  <2>1. IsFiniteSet({a}) /\ IsFiniteSet({b}) /\ IsFiniteSet({c}) /\ IsFiniteSet({d})
    BY FS_Singleton
  <2>2. IsFiniteSet({a} \cup {b}) /\ IsFiniteSet({c} \cup {d})
    BY <2>1, FS_Union
  <2>3. IsFiniteSet(({a} \cup {b}) \cup ({c} \cup {d}))
    BY <2>2, FS_Union
  <2>4. ({a} \cup {b}) \cup ({c} \cup {d}) = {a, b, c, d}
    OBVIOUS
  <2> QED
    BY <2>3, <2>4
<1>2. \A S, T : IsFiniteSet(S) /\ IsFiniteSet(T) => IsFiniteSet(S \cup T)
  BY FS_Union
<1>3. IsFiniteSet(VERDICT_REBUTTAL_MARKERS)
  <2>1. VERDICT_REBUTTAL_MARKERS =
          {"however", "but ", "this does not hold", "fails"}
          \cup {"wrong because", "on the contrary", "i disagree", "rebut"}
          \cup {"counter", "does not follow", "flawed", "false"}
          \cup {"mistaken", "mistaken", "mistaken", "mistaken"}
    BY DEF VERDICT_REBUTTAL_MARKERS
  <2>2. IsFiniteSet({"however", "but ", "this does not hold", "fails"}
                    \cup {"wrong because", "on the contrary", "i disagree", "rebut"})
    BY <1>1, <1>2
  <2>3. IsFiniteSet({"however", "but ", "this does not hold", "fails"}
                    \cup {"wrong because", "on the contrary", "i disagree", "rebut"}
                    \cup {"counter", "does not follow", "flawed", "false"})
    BY <1>1, <1>2, <2>2
  <2>4. IsFiniteSet({"however", "but ", "this does not hold", "fails"}
                    \cup {"wrong because", "on the contrary", "i disagree", "rebut"}
                    \cup {"counter", "does not follow", "flawed", "false"}
                    \cup {"mistaken", "mistaken", "mistaken", "mistaken"})
    BY <1>1, <1>2, <2>3
  <2> QED
    BY <2>1, <2>4
<1>4. IsFiniteSet(VERDICT_ENGAGEMENT_MARKERS)
  <2>1. VERDICT_ENGAGEMENT_MARKERS =
          {"your point", "your claim", "your argument", "the opponent"}
          \cup {"you said", "you claim", "you argue", "as you"}
          \cup {"that claim", "that claim", "that claim", "that claim"}
    BY DEF VERDICT_ENGAGEMENT_MARKERS
  <2>2. IsFiniteSet({"your point", "your claim", "your argument", "the opponent"}
                    \cup {"you said", "you claim", "you argue", "as you"})
    BY <1>1, <1>2
  <2>3. IsFiniteSet({"your point", "your claim", "your argument", "the opponent"}
                    \cup {"you said", "you claim", "you argue", "as you"}
                    \cup {"that claim", "that claim", "that claim", "that claim"})
    BY <1>1, <1>2, <2>2
  <2> QED
    BY <2>1, <2>3
<1>5. IsFiniteSet(VERDICT_AGREEMENT_MARKERS)
  <2>1. VERDICT_AGREEMENT_MARKERS =
          {"i agree", "you're right", "you are right", "fair point"}
          \cup {"i concede", "i accept that", "good point", "that is true"}
    BY DEF VERDICT_AGREEMENT_MARKERS
  <2> QED
    BY <1>1, <1>2, <2>1
<1>6. IsFiniteSet(DRIFT_CONCEDE_PHRASES)
  <2>1. DRIFT_CONCEDE_PHRASES =
          {"i concede", "i was wrong", "i accept that", "i accept the"}
          \cup {"i withdraw", "i can't argue with that", "i cannot argue with that", "the opponent has the stronger"}
          \cup {"the opponent is correct", "you have convinced me", "you have convinced me", "you have convinced me"}
    BY DEF DRIFT_CONCEDE_PHRASES
  <2>2. IsFiniteSet({"i concede", "i was wrong", "i accept that", "i accept the"}
                    \cup {"i withdraw", "i can't argue with that", "i cannot argue with that", "the opponent has the stronger"})
    BY <1>1, <1>2
  <2>3. IsFiniteSet({"i concede", "i was wrong", "i accept that", "i accept the"}
                    \cup {"i withdraw", "i can't argue with that", "i cannot argue with that", "the opponent has the stronger"}
                    \cup {"the opponent is correct", "you have convinced me", "you have convinced me", "you have convinced me"})
    BY <1>1, <1>2, <2>2
  <2> QED
    BY <2>1, <2>3
<1>7. IsFiniteSet(DRIFT_AGREEMENT_PHRASES)
  <2>1. DRIFT_AGREEMENT_PHRASES =
          {"you're right", "you are right", "i agree", "fair point"}
          \cup {"good point", "that's true", "that is true", "i must agree"}
    BY DEF DRIFT_AGREEMENT_PHRASES
  <2> QED
    BY <1>1, <1>2, <2>1
<1> QED
  BY <1>3, <1>4, <1>5, <1>6, <1>7 DEF Markers

\* The pairs of a turn and a marker found in it.
LEMMA MarkedPairs ==
  ASSUME NEW turns, NEW s, NEW markers
  PROVE  Marked(turns, s, markers) =
           {found \in Turns(turns, s) \X markers : found[2] \in Contents(turns[found[1]].text)}
<1> DEFINE Found(i) == {i} \X (Contents(turns[i].text) \cap markers)
           Pairs == {found \in Turns(turns, s) \X markers :
                       found[2] \in Contents(turns[found[1]].text)}
<1>1. Marked(turns, s, markers) = UNION {Found(i) : i \in Turns(turns, s)}
  BY DEF Marked
<1>2. ASSUME NEW found \in Pairs
      PROVE  found \in UNION {Found(i) : i \in Turns(turns, s)}
  <2>1. found \in Found(found[1]) /\ found[1] \in Turns(turns, s)
    BY <1>2
  <2> QED
    BY <2>1
<1>3. ASSUME NEW i \in Turns(turns, s), NEW found \in Found(i)
      PROVE  found \in Pairs
  BY <1>3
<1> QED
  BY <1>1, <1>2, <1>3

LEMMA MarkedFinite ==
  ASSUME NEW turns \in Seq(Messages), NEW s \in Sides, NEW markers \in Markers
  PROVE  /\ IsFiniteSet(Turns(turns, s)) /\ Cardinality(Turns(turns, s)) \in Nat
         /\ IsFiniteSet(Marked(turns, s, markers))
         /\ Counted(turns, s, markers) = Cardinality(Marked(turns, s, markers))
         /\ Counted(turns, s, markers) \in Nat
<1>1. IsFiniteSet(Turns(turns, s))
  <2>1. DOMAIN turns = 1 .. Len(turns) /\ Len(turns) \in Nat
    OBVIOUS
  <2>2. IsFiniteSet(1 .. Len(turns)) /\ Turns(turns, s) \subseteq 1 .. Len(turns)
    BY <2>1, FS_Interval DEF Turns
  <2> QED
    BY <2>2, FS_Subset
<1>2. IsFiniteSet(Marked(turns, s, markers))
  <2>1. IsFiniteSet(Turns(turns, s) \X markers)
    BY <1>1, LexiconsFinite, FS_Product
  <2>2. Marked(turns, s, markers) \subseteq Turns(turns, s) \X markers
    BY MarkedPairs
  <2> QED
    BY <2>1, <2>2, FS_Subset
<1>3. Counted(turns, s, markers) = Cardinality(Marked(turns, s, markers))
  BY DEF Counted
<1> QED
  BY <1>1, <1>2, <1>3, FS_CardinalityType

\* How far the run has come, and that nothing is said after the verdict.
StagesInStep ==
  /\ stage = "turn" => slot < 2 * Rounds /\ closing = <<>>
  /\ stage = "closing" => slot >= 2 * Rounds /\ slot < 2 * Rounds + 2
  /\ stage \in {"turn", "closing", "judge"} => verdict = None
  /\ verdict \in {None, BuildVerdict(Spoken)}

\* What counts as agreement was corrected in its round.
AgreementsCorrected ==
  \A i \in DOMAIN transcript :
    CountMarkers(transcript[i].text, VERDICT_AGREEMENT_MARKERS) > 0
      => <<transcript[i].side, transcript[i].round>> \in nudges

OInv == OutcomeTypeOK /\ StagesInStep /\ AgreementsCorrected

LEMMA OutcomeConstants ==
  /\ Rounds \in Nat \ {0} /\ None \notin Sides
  /\ Arguments \subseteq [text : SUBSET Phrases, input : Nat, output : Nat]
  BY OutcomeAssumption

LEMMA SpokenTyped ==
  ASSUME OutcomeTypeOK
  PROVE  /\ transcript \in Seq(Messages) /\ closing \in Seq(Messages)
         /\ Spoken \in Seq(Messages) /\ Len(Spoken) = Len(transcript) + Len(closing)
         /\ \A i \in 1 .. Len(Spoken) :
              Spoken[i] = IF i <= Len(transcript) THEN transcript[i]
                          ELSE closing[i - Len(transcript)]
<1>1. transcript \in Seq(Messages) /\ closing \in Seq(Messages)
  BY DEF OutcomeTypeOK
<1> QED
  BY <1>1, ConcatProperties DEF Spoken

\* A side's score is a natural number.
LEMMA CriteriaTyped ==
  ASSUME NEW turns \in Seq(Messages), NEW s \in Sides
  PROVE  /\ SideCriteria(turns, s).argumentation = 4 * Cardinality(Turns(turns, s))
         /\ SideCriteria(turns, s).rebuttal = 6 * Counted(turns, s, VERDICT_REBUTTAL_MARKERS)
         /\ SideCriteria(turns, s).engagement = 3 * Counted(turns, s, VERDICT_ENGAGEMENT_MARKERS)
         /\ Cardinality(Turns(turns, s)) \in Nat
         /\ Counted(turns, s, VERDICT_REBUTTAL_MARKERS) \in Nat
         /\ Counted(turns, s, VERDICT_ENGAGEMENT_MARKERS) \in Nat
         /\ Total(SideCriteria(turns, s)) \in Nat
         /\ SideAgreement(turns, s) \in Nat
<1>1. /\ Cardinality(Turns(turns, s)) \in Nat
      /\ Counted(turns, s, VERDICT_REBUTTAL_MARKERS) \in Nat
      /\ Counted(turns, s, VERDICT_ENGAGEMENT_MARKERS) \in Nat
      /\ Counted(turns, s, VERDICT_AGREEMENT_MARKERS) \in Nat
  BY MarkedFinite DEF Markers
<1>2. /\ SideCriteria(turns, s).argumentation = 4 * Cardinality(Turns(turns, s))
      /\ SideCriteria(turns, s).rebuttal = 6 * Counted(turns, s, VERDICT_REBUTTAL_MARKERS)
      /\ SideCriteria(turns, s).engagement = 3 * Counted(turns, s, VERDICT_ENGAGEMENT_MARKERS)
  BY DEF SideCriteria
<1>3. Total(SideCriteria(turns, s)) \in Nat
  BY <1>1, <1>2 DEF Total
<1> QED
  BY <1>1, <1>2, <1>3 DEF SideAgreement

\* The first step of the cascade that separates the sides.
Steps(criteria, agreement) ==
  <<[criterion |-> "rebuttal",
     pro |-> criteria[Pro].rebuttal, con |-> criteria[Con].rebuttal],
    [criterion |-> "stayed-on-side", pro |-> agreement[Con], con |-> agreement[Pro]],
    [criterion |-> "engagement",
     pro |-> criteria[Pro].engagement, con |-> criteria[Con].engagement]>>

LEMMA Cascade ==
  ASSUME NEW criteria, NEW agreement
  PROVE  BreakTie(criteria, agreement) =
           LET Winner(p, c) == IF p > c THEN Pro ELSE Con
           IN  IF criteria[Pro].rebuttal # criteria[Con].rebuttal
                 THEN [winner |-> Winner(criteria[Pro].rebuttal, criteria[Con].rebuttal),
                       decided_by |-> "rebuttal"]
               ELSE IF agreement[Con] # agreement[Pro]
                 THEN [winner |-> Winner(agreement[Con], agreement[Pro]),
                       decided_by |-> "stayed-on-side"]
               ELSE IF criteria[Pro].engagement # criteria[Con].engagement
                 THEN [winner |-> Winner(criteria[Pro].engagement, criteria[Con].engagement),
                       decided_by |-> "engagement"]
               ELSE [winner |-> Pro, decided_by |-> Pro]
<1> DEFINE cascade == Steps(criteria, agreement)
           Separating == {i \in DOMAIN cascade : cascade[i].pro # cascade[i].con}
<1>1. /\ DOMAIN cascade = {1, 2, 3}
      /\ cascade[1] = [criterion |-> "rebuttal", pro |-> criteria[Pro].rebuttal,
                       con |-> criteria[Con].rebuttal]
      /\ cascade[2] = [criterion |-> "stayed-on-side", pro |-> agreement[Con],
                       con |-> agreement[Pro]]
      /\ cascade[3] = [criterion |-> "engagement", pro |-> criteria[Pro].engagement,
                       con |-> criteria[Con].engagement]
  <2>1. DOMAIN cascade = 1 .. 3 /\ 1 .. 3 = {1, 2, 3}
    BY DEF Steps
  <2> QED
    BY <2>1 DEF Steps
<1>2. BreakTie(criteria, agreement) =
        IF Separating = {}
          THEN [winner |-> Pro, decided_by |-> Pro]
          ELSE [winner |-> IF cascade[Min(Separating)].pro > cascade[Min(Separating)].con
                             THEN Pro ELSE Con,
                decided_by |-> cascade[Min(Separating)].criterion]
  BY DEF BreakTie, Steps, VERDICT_DECISIVE_FALLBACK_SIDE
<1> HIDE DEF cascade
<1>3. Separating \subseteq {1, 2, 3}
  BY <1>1
<1>4. 1 \in Separating => Min(Separating) = 1
  BY <1>3 DEF Min
<1>5. 1 \notin Separating /\ 2 \in Separating => Min(Separating) = 2
  BY <1>3 DEF Min
<1>6. 1 \notin Separating /\ 2 \notin Separating /\ 3 \in Separating => Min(Separating) = 3
  BY <1>3 DEF Min
<1>7. /\ 1 \in Separating <=> criteria[Pro].rebuttal # criteria[Con].rebuttal
      /\ 2 \in Separating <=> agreement[Con] # agreement[Pro]
      /\ 3 \in Separating <=> criteria[Pro].engagement # criteria[Con].engagement
  BY <1>1
<1> HIDE DEF Separating
<1>8. CASE 1 \in Separating
  BY <1>1, <1>2, <1>4, <1>7, <1>8
<1>9. CASE 1 \notin Separating /\ 2 \in Separating
  BY <1>1, <1>2, <1>5, <1>7, <1>9
<1>10. CASE 1 \notin Separating /\ 2 \notin Separating /\ 3 \in Separating
  BY <1>1, <1>2, <1>6, <1>7, <1>10
<1>11. CASE 1 \notin Separating /\ 2 \notin Separating /\ 3 \notin Separating
  <2>1. Separating = {}
    BY <1>3, <1>11
  <2> QED
    BY <1>2, <1>7, <1>11, <2>1
<1> QED
  BY <1>8, <1>9, <1>10, <1>11

LEMMA VerdictTyped ==
  ASSUME NEW turns \in Seq(Messages)
  PROVE  BuildVerdict(turns) \in Verdicts
<1> DEFINE criteria  == [s \in Sides |-> SideCriteria(turns, s)]
           agreement == [s \in Sides |-> SideAgreement(turns, s)]
           decision  == Decide(criteria, agreement)
<1>1. decision.winner \in Sides
      /\ decision.decided_by \in Sides \cup {None, "rebuttal", "stayed-on-side", "engagement"}
  <2>1. /\ BreakTie(criteria, agreement).winner \in Sides
        /\ BreakTie(criteria, agreement).decided_by
             \in Sides \cup {"rebuttal", "stayed-on-side", "engagement"}
    <3> HIDE DEF criteria, agreement
    <3> QED
      BY Cascade DEF Sides
  <2> HIDE DEF criteria, agreement
  <2> QED
    BY <2>1 DEF Decide, Sides
<1>2. [s \in Sides |-> Total(criteria[s])] \in [Sides -> Nat]
  BY CriteriaTyped
<1> HIDE DEF decision
<1>3. BuildVerdict(turns) =
        [winner     |-> decision.winner,
         decided_by |-> decision.decided_by,
         scores     |-> [s \in Sides |-> Total(criteria[s])],
         converged  |-> \A s \in Sides : agreement[s] > 0]
  BY DEF BuildVerdict, decision
<1>4. (\A s \in Sides : agreement[s] > 0) \in BOOLEAN
  OBVIOUS
<1> HIDE DEF criteria, agreement
<1> QED
  BY <1>1, <1>2, <1>3, <1>4 DEF Verdicts

LEMMA OutcomeEstablishes == OutcomeInit => OInv
<1> SUFFICES ASSUME OutcomeInit PROVE OInv
  OBVIOUS
<1>1. <<>> \in Seq(Messages) /\ DOMAIN <<>> = {}
  OBVIOUS
<1>2. OutcomeTypeOK
  <2>1. slot \in 0 .. 2 * Rounds + 2
    BY OutcomeConstants DEF OutcomeInit
  <2>2. transcript \in Seq(Messages) /\ closing \in Seq(Messages)
    BY <1>1 DEF OutcomeInit
  <2> QED
    BY <2>1, <2>2 DEF OutcomeInit, OutcomeTypeOK
<1>3. StagesInStep
  BY OutcomeConstants DEF OutcomeInit, StagesInStep
<1> QED
  BY <1>1, <1>2, <1>3 DEF OInv, OutcomeInit, AgreementsCorrected

\* The turn of the present slot is a numbered one, of a round there is.
LEMMA SlotTyped ==
  ASSUME OInv, stage = "turn"
  PROVE  Side \in Sides /\ Round \in 1 .. Rounds
<1>1. slot \in Nat /\ slot < 2 * Rounds /\ Rounds \in Nat
  BY OutcomeConstants DEF OInv, OutcomeTypeOK, StagesInStep
<1>2. slot \div 2 + 1 \in 1 .. Rounds
  BY <1>1
<1> QED
  BY <1>2 DEF Side, Round, Sides

LEMMA NextSlotTyped ==
  ASSUME OInv, stage \in {"turn", "closing"}, NextSlot
  PROVE  /\ slot' \in 0 .. 2 * Rounds + 2
         /\ stage' \in {"turn", "closing", "judge"}
         /\ stage' = "turn" => stage = "turn" /\ slot' < 2 * Rounds
         /\ stage' = "closing" => slot' >= 2 * Rounds /\ slot' < 2 * Rounds + 2
<1>1. slot \in Nat /\ slot < 2 * Rounds + 2 /\ Rounds \in Nat
      /\ (stage = "closing" => slot >= 2 * Rounds)
  BY OutcomeConstants DEF OInv, OutcomeTypeOK, StagesInStep
<1> QED
  BY <1>1 DEF NextSlot

\* The weights of agreement reach the threshold by themselves.
LEMMA AgreementIsCaptured ==
  ASSUME NEW text, CountMarkers(text, VERDICT_AGREEMENT_MARKERS) > 0
  PROVE  Captured(text)
<1> DEFINE A == Contents(text) \cap VERDICT_AGREEMENT_MARKERS
           C == Contents(text) \cap DRIFT_CONCEDE_PHRASES
           D == Contents(text) \cap DRIFT_AGREEMENT_PHRASES
<1>1. A # {}
  BY FS_EmptySet DEF CountMarkers
<1>2. C # {} \/ D # {}
  BY <1>1 DEF VERDICT_AGREEMENT_MARKERS, DRIFT_CONCEDE_PHRASES, DRIFT_AGREEMENT_PHRASES
<1>3. \A S, T : IsFiniteSet(T) /\ S \subseteq T /\ S # {} => Cardinality(S) > 0
  BY FS_Subset, FS_EmptySet, FS_CardinalityType
<1>4. C # {} => CountMarkers(text, DRIFT_CONCEDE_PHRASES) > 0
  BY <1>3, LexiconsFinite DEF CountMarkers
<1>5. D # {} => CountMarkers(text, DRIFT_AGREEMENT_PHRASES) > 0
  BY <1>3, LexiconsFinite DEF CountMarkers
<1>6. \A phrases : \A weight \in {10, 11, 16} : Signal(text, phrases, weight) \in {0, weight}
  BY DEF Signal
<1>7. Signal(text, DRIFT_CONCEDE_PHRASES, 16) = 16 \/ Signal(text, DRIFT_AGREEMENT_PHRASES, 11) = 11
  BY <1>2, <1>4, <1>5 DEF Signal
<1> HIDE DEF A, C, D
<1>8. /\ Signal(text, DRIFT_CONCEDE_PHRASES, 16) \in {0, 16}
      /\ Signal(text, DRIFT_AGREEMENT_PHRASES, 11) \in {0, 11}
      /\ Signal(text, DRIFT_HEDGE_PHRASES, 10) \in {0, 10}
  BY <1>6
<1> QED
  BY <1>7, <1>8 DEF Captured, DetectDrift, DRIFT_CAPTURE_THRESHOLD

LEMMA ArgueKeeps == ASSUME OInv, Argue PROVE OInv'
<1>1. PICK argument \in Arguments :
        /\ transcript' = Append(transcript, Message(Side, Round, argument))
        /\ nudges' = nudges \cup {correction \in {Nudge} : Captured(argument.text)}
  BY DEF Argue
<1> DEFINE m == Message(Side, Round, argument)
<1>2. stage = "turn" /\ NextSlot /\ UNCHANGED <<config, closing, verdict, result, alert>>
  BY DEF Argue
<1>3. m \in Messages /\ m.side = Side /\ m.round = Round /\ m.text = argument.text
  BY <1>2, SlotTyped, OutcomeConstants DEF Message, Messages
<1> HIDE DEF m
<1>4. transcript \in Seq(Messages) /\ transcript' = Append(transcript, m)
  BY <1>1 DEF OInv, OutcomeTypeOK, m
<1>5. nudges' \subseteq Sides \X (1 .. Rounds)
  BY <1>1, <1>2, SlotTyped DEF Nudge, OInv, OutcomeTypeOK
<1>6. OutcomeTypeOK'
  BY <1>2, <1>3, <1>4, <1>5, NextSlotTyped DEF OInv, OutcomeTypeOK
<1>7. StagesInStep'
  BY <1>2, NextSlotTyped DEF OInv, StagesInStep
<1>8. AgreementsCorrected'
  <2> SUFFICES ASSUME NEW i \in 1 .. Len(transcript) + 1,
                      CountMarkers(transcript'[i].text, VERDICT_AGREEMENT_MARKERS) > 0
               PROVE  <<transcript'[i].side, transcript'[i].round>> \in nudges'
    BY <1>3, <1>4 DEF AgreementsCorrected
  <2>1. CASE i = Len(transcript) + 1
    <3>1. transcript'[i] = m
      BY <1>3, <1>4, <2>1
    <3>2. Captured(argument.text)
      BY <1>3, <3>1, AgreementIsCaptured
    <3> QED
      BY <1>1, <1>3, <3>1, <3>2 DEF Nudge
  <2>2. CASE i # Len(transcript) + 1
    <3>1. transcript'[i] = transcript[i] /\ i \in DOMAIN transcript
      BY <1>3, <1>4, <2>2
    <3> QED
      BY <1>1, <3>1 DEF OInv, AgreementsCorrected
  <2> QED
    BY <2>1, <2>2
<1> QED
  BY <1>6, <1>7, <1>8 DEF OInv

LEMMA FailTurnKeeps == ASSUME OInv, FailTurn PROVE OInv'
<1> DEFINE m == FailedMarker(Side, Round)
<1>2. stage = "turn" /\ NextSlot /\ UNCHANGED <<config, closing, nudges, verdict, result, alert>>
  BY DEF FailTurn
<1>3. m \in Messages /\ m.text = {}
  BY <1>2, SlotTyped, OutcomeConstants DEF FailedMarker, Messages
<1>4. transcript \in Seq(Messages) /\ transcript' = Append(transcript, m)
  BY DEF OInv, OutcomeTypeOK, FailTurn
<1> HIDE DEF m
<1>6. OutcomeTypeOK'
  BY <1>2, <1>3, <1>4, NextSlotTyped DEF OInv, OutcomeTypeOK
<1>7. StagesInStep'
  BY <1>2, NextSlotTyped DEF OInv, StagesInStep
<1>8. AgreementsCorrected'
  <2> SUFFICES ASSUME NEW i \in 1 .. Len(transcript) + 1,
                      CountMarkers(transcript'[i].text, VERDICT_AGREEMENT_MARKERS) > 0
               PROVE  <<transcript'[i].side, transcript'[i].round>> \in nudges'
    BY <1>3, <1>4 DEF AgreementsCorrected
  <2>1. i # Len(transcript) + 1
    <3>1. CountMarkers({}, VERDICT_AGREEMENT_MARKERS) = 0
      <4>1. Contents({}) \cap VERDICT_AGREEMENT_MARKERS = {}
        BY DEF Contents, VERDICT_AGREEMENT_MARKERS
      <4> QED
        BY <4>1, FS_EmptySet DEF CountMarkers
    <3> QED
      <4>1. i = Len(transcript) + 1 => transcript'[i] = m
        BY <1>3, <1>4
      <4> QED
        <5> SUFFICES ASSUME i = Len(transcript) + 1 PROVE FALSE
          OBVIOUS
        <5>1. transcript'[i].text = {}
          BY <1>3, <4>1
        <5>2. CountMarkers(transcript'[i].text, VERDICT_AGREEMENT_MARKERS) = 0
          BY <3>1, <5>1, Zenon
        <5> QED
          BY <5>2
  <2>2. transcript'[i] = transcript[i] /\ i \in DOMAIN transcript
    BY <1>3, <1>4, <2>1
  <2> QED
    BY <1>2, <2>2 DEF OInv, AgreementsCorrected
<1> QED
  BY <1>6, <1>7, <1>8 DEF OInv

LEMMA ClosingKeeps == ASSUME OInv, GiveClosing \/ SkipClosing PROVE OInv'
<1>1. /\ stage = "closing" /\ NextSlot
      /\ UNCHANGED <<config, transcript, nudges, verdict, result, alert>>
  BY DEF GiveClosing, SkipClosing
<1>2. closing' \in Seq(Messages)
  <2>1. CASE SkipClosing
    BY <2>1 DEF SkipClosing, OInv, OutcomeTypeOK
  <2>2. CASE GiveClosing
    <3>1. PICK argument \in Arguments :
            closing' = Append(closing, Message(Side, CLOSING_STAMP, argument))
      BY <2>2 DEF GiveClosing
    <3>2. Message(Side, CLOSING_STAMP, argument) \in Messages
      BY OutcomeConstants DEF Message, Messages, Side, Sides, CLOSING_STAMP
    <3> QED
      BY <3>1, <3>2 DEF OInv, OutcomeTypeOK
  <2> QED
    BY <2>1, <2>2
<1>3. OutcomeTypeOK'
  BY <1>1, <1>2, NextSlotTyped DEF OInv, OutcomeTypeOK
<1>4. StagesInStep'
  BY <1>1, NextSlotTyped DEF OInv, StagesInStep
<1>5. AgreementsCorrected'
  BY <1>1 DEF OInv, AgreementsCorrected
<1> QED
  BY <1>3, <1>4, <1>5 DEF OInv

LEMMA JudgeKeeps == ASSUME OInv, RenderLoopVerdict PROVE OInv'
<1>1. /\ verdict' \in {None, BuildVerdict(Spoken)} /\ stage' = "price"
      /\ UNCHANGED <<config, slot, transcript, closing, nudges, result, alert>>
  BY DEF RenderLoopVerdict
<1>2. BuildVerdict(Spoken) \in Verdicts
  BY SpokenTyped, VerdictTyped DEF OInv
<1>3. Spoken' = Spoken
  BY <1>1 DEF Spoken
<1>4. OutcomeTypeOK'
  BY <1>1, <1>2 DEF OInv, OutcomeTypeOK
<1>5. StagesInStep'
  BY <1>1, <1>3 DEF StagesInStep
<1> QED
  BY <1>1, <1>4, <1>5 DEF OInv, AgreementsCorrected

\* What is done with the verdict in place says nothing more.
LEMMA PricingKeeps ==
  ASSUME OInv, PriceResult \/ FailToPrice \/ CheckRunBudget \/ UNCHANGED outcomeVars
  PROVE  OInv'
<1>1. UNCHANGED <<config, slot, transcript, closing, nudges, verdict>>
  BY DEF PriceResult, FailToPrice, CheckRunBudget, outcomeVars
<1>2. stage' = stage \/ stage' \in {"budget", "lost", "done"}
  BY DEF PriceResult, FailToPrice, CheckRunBudget, outcomeVars
<1>3. alert' \in BOOLEAN
  BY DEF PriceResult, FailToPrice, CheckRunBudget, outcomeVars, OInv, OutcomeTypeOK, CheckBudget
<1>4. Spoken' = Spoken
  BY <1>1 DEF Spoken
<1>5. OutcomeTypeOK'
  BY <1>1, <1>2, <1>3 DEF OInv, OutcomeTypeOK
<1>6. StagesInStep'
  BY <1>1, <1>2, <1>4 DEF OInv, StagesInStep
<1> QED
  BY <1>1, <1>5, <1>6 DEF OInv, AgreementsCorrected

LEMMA OutcomeInvariance == OutcomeSpec => []OInv
<1>1. OInv /\ [OutcomeNext]_outcomeVars => OInv'
  BY ArgueKeeps, FailTurnKeeps, ClosingKeeps, JudgeKeeps, PricingKeeps DEF OutcomeNext, OutcomeOver
<1> QED
  BY <1>1, OutcomeEstablishes, PTL DEF OutcomeSpec

\* How the counts of the two sides decide.
LEMMA VerdictDecided ==
  ASSUME NEW turns \in Seq(Messages)
  PROVE  LET C(s) == SideCriteria(turns, s)
             A(s) == SideAgreement(turns, s)
             v == BuildVerdict(turns)
         IN  /\ Total(C(Pro)) > Total(C(Con)) => v.winner = Pro /\ v.decided_by = None
             /\ Total(C(Pro)) < Total(C(Con)) => v.winner = Con /\ v.decided_by = None
             /\ Total(C(Pro)) = Total(C(Con)) =>
                  IF C(Pro).rebuttal # C(Con).rebuttal
                    THEN /\ v.winner = IF C(Pro).rebuttal > C(Con).rebuttal THEN Pro ELSE Con
                         /\ v.decided_by = "rebuttal"
                  ELSE IF A(Con) # A(Pro)
                    THEN /\ v.winner = IF A(Con) > A(Pro) THEN Pro ELSE Con
                         /\ v.decided_by = "stayed-on-side"
                  ELSE IF C(Pro).engagement # C(Con).engagement
                    THEN /\ v.winner = IF C(Pro).engagement > C(Con).engagement THEN Pro ELSE Con
                         /\ v.decided_by = "engagement"
                  ELSE v.winner = Pro /\ v.decided_by = Pro
<1> DEFINE criteria  == [s \in Sides |-> SideCriteria(turns, s)]
           agreement == [s \in Sides |-> SideAgreement(turns, s)]
           v == BuildVerdict(turns)
<1>1. /\ criteria[Pro] = SideCriteria(turns, Pro) /\ criteria[Con] = SideCriteria(turns, Con)
      /\ agreement[Pro] = SideAgreement(turns, Pro) /\ agreement[Con] = SideAgreement(turns, Con)
  BY DEF Sides
<1>2. /\ v.winner = Decide(criteria, agreement).winner
      /\ v.decided_by = Decide(criteria, agreement).decided_by
  BY DEF BuildVerdict
<1>3. Total(criteria[Pro]) \in Nat /\ Total(criteria[Con]) \in Nat
  BY <1>1, CriteriaTyped DEF Sides
<1> HIDE DEF criteria, agreement, v
<1>4. /\ Total(criteria[Pro]) > Total(criteria[Con]) =>
           Decide(criteria, agreement) = [winner |-> Pro, decided_by |-> None]
      /\ Total(criteria[Pro]) < Total(criteria[Con]) =>
           Decide(criteria, agreement) = [winner |-> Con, decided_by |-> None]
      /\ Total(criteria[Pro]) = Total(criteria[Con]) =>
           Decide(criteria, agreement) = BreakTie(criteria, agreement)
  BY <1>3 DEF Decide
<1>5. Total(criteria[Pro]) > Total(criteria[Con]) => v.winner = Pro /\ v.decided_by = None
  BY <1>2, <1>4
<1>6. Total(criteria[Pro]) < Total(criteria[Con]) => v.winner = Con /\ v.decided_by = None
  BY <1>2, <1>4
<1>7. ASSUME Total(criteria[Pro]) = Total(criteria[Con])
      PROVE  IF criteria[Pro].rebuttal # criteria[Con].rebuttal
               THEN /\ v.winner = IF criteria[Pro].rebuttal > criteria[Con].rebuttal
                                    THEN Pro ELSE Con
                    /\ v.decided_by = "rebuttal"
             ELSE IF agreement[Con] # agreement[Pro]
               THEN /\ v.winner = IF agreement[Con] > agreement[Pro] THEN Pro ELSE Con
                    /\ v.decided_by = "stayed-on-side"
             ELSE IF criteria[Pro].engagement # criteria[Con].engagement
               THEN /\ v.winner = IF criteria[Pro].engagement > criteria[Con].engagement
                                    THEN Pro ELSE Con
                    /\ v.decided_by = "engagement"
             ELSE v.winner = Pro /\ v.decided_by = Pro
  BY <1>2, <1>4, <1>7, Cascade
<1> QED
  BY <1>1, <1>5, <1>6, <1>7 DEF v

-----------------------------------------------------------------------------
LEMMA MirrorSwaps ==
  ASSUME OutcomeTypeOK, NEW s \in Sides
  PROVE  /\ Mirrored \in Seq(Messages)
         /\ SideCriteria(Mirrored, s) = SideCriteria(Spoken, Opponent(s))
         /\ SideAgreement(Mirrored, s) = SideAgreement(Spoken, Opponent(s))
<1>1. Spoken \in Seq(Messages) /\ DOMAIN Spoken = 1 .. Len(Spoken) /\ Len(Spoken) \in Nat
      /\ \A i \in DOMAIN Spoken : Spoken[i] \in Messages
  BY SpokenTyped
<1>2. /\ DOMAIN Mirrored = DOMAIN Spoken
      /\ \A i \in DOMAIN Spoken :
           /\ Mirrored[i] \in Messages
           /\ Mirrored[i].side = Opponent(Spoken[i].side)
           /\ Mirrored[i].failed = Spoken[i].failed /\ Mirrored[i].text = Spoken[i].text
  BY <1>1 DEF Mirrored, Messages, Opponent, Sides
<1>3. Mirrored \in Seq(Messages)
  <2>1. Mirrored \in [1 .. Len(Spoken) -> Messages]
    BY <1>1, <1>2 DEF Mirrored
  <2> QED
    BY <1>1, <2>1
<1>4. Turns(Mirrored, s) = Turns(Spoken, Opponent(s))
  <2>1. \A i \in DOMAIN Spoken : Opponent(Spoken[i].side) = s <=> Spoken[i].side = Opponent(s)
    BY <1>1 DEF Messages, Opponent, Sides, Pro, Con
  <2> QED
    BY <1>2, <2>1 DEF Turns
<1>5. \A markers : Counted(Mirrored, s, markers) = Counted(Spoken, Opponent(s), markers)
  <2> TAKE markers
  <2>1. Marked(Mirrored, s, markers) = Marked(Spoken, Opponent(s), markers)
    BY <1>2, <1>4, MarkedPairs DEF Turns
  <2> QED
    BY <2>1 DEF Counted
<1> QED
  BY <1>3, <1>4, <1>5 DEF SideCriteria, SideAgreement

LEMMA NeutralState == OInv => VerdictIsNeutral
<1> SUFFICES ASSUME OInv, verdict # None
             PROVE  /\ verdict.decided_by # Pro =>
                         /\ BuildVerdict(Mirrored).winner = Opponent(verdict.winner)
                         /\ BuildVerdict(Mirrored).decided_by = verdict.decided_by
                    /\ verdict.decided_by = Pro =>
                         /\ BuildVerdict(Mirrored).winner = verdict.winner
                         /\ \A markers \in Markers :
                              Counted(Spoken, Pro, markers) = Counted(Spoken, Con, markers)
  BY DEF VerdictIsNeutral, VERDICT_DECISIVE_FALLBACK_SIDE, Markers
<1>1. verdict = BuildVerdict(Spoken) /\ Spoken \in Seq(Messages) /\ Mirrored \in Seq(Messages)
  BY SpokenTyped, MirrorSwaps DEF OInv, StagesInStep, Sides
<1> DEFINE p == SideCriteria(Spoken, Pro)
           c == SideCriteria(Spoken, Con)
           ap == SideAgreement(Spoken, Pro)
           ac == SideAgreement(Spoken, Con)
           m == BuildVerdict(Mirrored)
<1>2. /\ SideCriteria(Mirrored, Pro) = c /\ SideCriteria(Mirrored, Con) = p
      /\ SideAgreement(Mirrored, Pro) = ac /\ SideAgreement(Mirrored, Con) = ap
  BY MirrorSwaps DEF OInv, Sides, Opponent, Pro, Con
<1>3. /\ Total(p) \in Nat /\ Total(c) \in Nat /\ ap \in Nat /\ ac \in Nat
      /\ p.rebuttal \in Nat /\ c.rebuttal \in Nat /\ p.engagement \in Nat /\ c.engagement \in Nat
  <2>1. \A s \in Sides :
          /\ SideCriteria(Spoken, s).rebuttal = 6 * Counted(Spoken, s, VERDICT_REBUTTAL_MARKERS)
          /\ SideCriteria(Spoken, s).engagement
               = 3 * Counted(Spoken, s, VERDICT_ENGAGEMENT_MARKERS)
          /\ Counted(Spoken, s, VERDICT_REBUTTAL_MARKERS) \in Nat
          /\ Counted(Spoken, s, VERDICT_ENGAGEMENT_MARKERS) \in Nat
          /\ Total(SideCriteria(Spoken, s)) \in Nat /\ SideAgreement(Spoken, s) \in Nat
    BY <1>1, CriteriaTyped
  <2>2. \A s \in Sides : SideCriteria(Spoken, s).rebuttal \in Nat
                        /\ SideCriteria(Spoken, s).engagement \in Nat
    BY <2>1
  <2> QED
    BY <2>1, <2>2 DEF Sides
<1>4. /\ Total(p) > Total(c) => verdict.winner = Pro /\ verdict.decided_by = None
      /\ Total(p) < Total(c) => verdict.winner = Con /\ verdict.decided_by = None
      /\ Total(p) = Total(c) =>
           IF p.rebuttal # c.rebuttal
             THEN /\ verdict.winner = IF p.rebuttal > c.rebuttal THEN Pro ELSE Con
                  /\ verdict.decided_by = "rebuttal"
           ELSE IF ac # ap
             THEN /\ verdict.winner = IF ac > ap THEN Pro ELSE Con
                  /\ verdict.decided_by = "stayed-on-side"
           ELSE IF p.engagement # c.engagement
             THEN /\ verdict.winner = IF p.engagement > c.engagement THEN Pro ELSE Con
                  /\ verdict.decided_by = "engagement"
           ELSE verdict.winner = Pro /\ verdict.decided_by = Pro
  BY <1>1, VerdictDecided
<1>5. /\ Total(c) > Total(p) => m.winner = Pro /\ m.decided_by = None
      /\ Total(c) < Total(p) => m.winner = Con /\ m.decided_by = None
      /\ Total(c) = Total(p) =>
           IF c.rebuttal # p.rebuttal
             THEN /\ m.winner = IF c.rebuttal > p.rebuttal THEN Pro ELSE Con
                  /\ m.decided_by = "rebuttal"
           ELSE IF ap # ac
             THEN /\ m.winner = IF ap > ac THEN Pro ELSE Con
                  /\ m.decided_by = "stayed-on-side"
           ELSE IF c.engagement # p.engagement
             THEN /\ m.winner = IF c.engagement > p.engagement THEN Pro ELSE Con
                  /\ m.decided_by = "engagement"
           ELSE m.winner = Pro /\ m.decided_by = Pro
  BY <1>1, <1>2, VerdictDecided
<1>6. Pro # Con /\ Pro \notin {"rebuttal", "stayed-on-side", "engagement"} /\ None # Pro
      /\ Opponent(Pro) = Con /\ Opponent(Con) = Pro
  BY OutcomeConstants DEF Pro, Con, Sides, Opponent
<1>7. verdict.decided_by = Pro =>
        \A markers \in Markers : Counted(Spoken, Pro, markers) = Counted(Spoken, Con, markers)
  <2>1. /\ p.rebuttal = 6 * Counted(Spoken, Pro, VERDICT_REBUTTAL_MARKERS)
        /\ c.rebuttal = 6 * Counted(Spoken, Con, VERDICT_REBUTTAL_MARKERS)
        /\ p.engagement = 3 * Counted(Spoken, Pro, VERDICT_ENGAGEMENT_MARKERS)
        /\ c.engagement = 3 * Counted(Spoken, Con, VERDICT_ENGAGEMENT_MARKERS)
        /\ Counted(Spoken, Pro, VERDICT_REBUTTAL_MARKERS) \in Nat
        /\ Counted(Spoken, Con, VERDICT_REBUTTAL_MARKERS) \in Nat
        /\ Counted(Spoken, Pro, VERDICT_ENGAGEMENT_MARKERS) \in Nat
        /\ Counted(Spoken, Con, VERDICT_ENGAGEMENT_MARKERS) \in Nat
        /\ ap = Counted(Spoken, Pro, VERDICT_AGREEMENT_MARKERS)
        /\ ac = Counted(Spoken, Con, VERDICT_AGREEMENT_MARKERS)
    BY <1>1, CriteriaTyped DEF Sides, SideAgreement
  <2> HIDE DEF p, c, ap, ac
  <2>2. verdict.decided_by = Pro =>
          p.rebuttal = c.rebuttal /\ ac = ap /\ p.engagement = c.engagement
    BY <1>3, <1>4, <1>6
  <2>3. verdict.decided_by = Pro =>
          /\ Counted(Spoken, Pro, VERDICT_REBUTTAL_MARKERS)
               = Counted(Spoken, Con, VERDICT_REBUTTAL_MARKERS)
          /\ Counted(Spoken, Pro, VERDICT_ENGAGEMENT_MARKERS)
               = Counted(Spoken, Con, VERDICT_ENGAGEMENT_MARKERS)
          /\ Counted(Spoken, Pro, VERDICT_AGREEMENT_MARKERS)
               = Counted(Spoken, Con, VERDICT_AGREEMENT_MARKERS)
    BY <2>1, <2>2
  <2> QED
    BY <2>3 DEF Markers
<1> HIDE DEF p, c, ap, ac, m
<1>8. /\ verdict.decided_by # Pro =>
           m.winner = Opponent(verdict.winner) /\ m.decided_by = verdict.decided_by
      /\ verdict.decided_by = Pro => m.winner = verdict.winner
  <2>1. CASE Total(p) # Total(c)
    BY <1>3, <1>4, <1>5, <1>6, <2>1
  <2>2. CASE Total(p) = Total(c)
    BY <1>3, <1>4, <1>5, <1>6, <2>2
  <2> QED
    BY <2>1, <2>2
<1> QED
  BY <1>7, <1>8 DEF m

-----------------------------------------------------------------------------
LEMMA ConvergedState == OInv => AgreementWasCorrected
<1> SUFFICES ASSUME OInv, verdict # None, verdict.converged, NEW s \in Sides
             PROVE  \/ \E r \in 1 .. Rounds : <<s, r>> \in nudges
                    \/ SideAgreement(closing, s) > 0
  BY DEF AgreementWasCorrected, OInv, AgreementsCorrected
<1> DEFINE markers == VERDICT_AGREEMENT_MARKERS
<1>0. markers \in Markers
  BY DEF Markers
<1> HIDE DEF markers
<1>1. /\ Spoken \in Seq(Messages) /\ transcript \in Seq(Messages) /\ closing \in Seq(Messages)
      /\ Len(Spoken) = Len(transcript) + Len(closing)
      /\ Len(transcript) \in Nat /\ Len(closing) \in Nat
      /\ \A i \in 1 .. Len(Spoken) :
           Spoken[i] = IF i <= Len(transcript) THEN transcript[i] ELSE closing[i - Len(transcript)]
  BY SpokenTyped DEF OInv
<1>2. SideAgreement(Spoken, s) > 0
  <2>1. verdict = BuildVerdict(Spoken)
    BY DEF OInv, StagesInStep
  <2>2. BuildVerdict(Spoken).converged
          = (\A side \in Sides : [t \in Sides |-> SideAgreement(Spoken, t)][side] > 0)
    BY DEF BuildVerdict
  <2> QED
    BY <2>1, <2>2
<1>3. PICK found \in Marked(Spoken, s, markers) : TRUE
  <2>1. Marked(Spoken, s, markers) # {}
    BY <1>2, FS_EmptySet DEF SideAgreement, Counted, markers
  <2> QED
    BY <2>1
<1> DEFINE i == found[1]
           j == i - Len(transcript)
<1>4. /\ i \in 1 .. Len(Spoken) /\ ~Spoken[i].failed /\ Spoken[i].side = s
      /\ found[2] \in markers /\ found[2] \in Contents(Spoken[i].text)
  BY <1>1, <1>3, MarkedPairs DEF Turns
<1>5. CASE i <= Len(transcript)
  <2>1. i \in DOMAIN transcript /\ Spoken[i] = transcript[i] /\ transcript[i] \in Messages
    BY <1>1, <1>4, <1>5
  <2>2. CountMarkers(transcript[i].text, markers) > 0
    <3>1. Contents(transcript[i].text) \cap markers # {}
      BY <1>4, <2>1
    <3>2. IsFiniteSet(Contents(transcript[i].text) \cap markers)
      BY <1>0, LexiconsFinite, FS_Subset
    <3> QED
      BY <3>1, <3>2, FS_EmptySet, FS_CardinalityType DEF CountMarkers
  <2>3. <<s, transcript[i].round>> \in nudges
    BY <1>4, <2>1, <2>2 DEF OInv, AgreementsCorrected, markers
  <2>4. transcript[i].round \in 1 .. Rounds
    BY <2>1 DEF Messages
  <2> QED
    BY <2>3, <2>4
<1>6. CASE ~(i <= Len(transcript))
  <2>1. j \in 1 .. Len(closing) /\ Spoken[i] = closing[j]
    BY <1>1, <1>4, <1>6
  <2>2. <<j, found[2]>> \in Marked(closing, s, markers)
    BY <1>1, <1>4, <2>1, MarkedPairs DEF Turns
  <2>3. Counted(closing, s, markers) > 0
    BY <1>0, <1>1, <2>2, MarkedFinite, FS_EmptySet
  <2> QED
    BY <2>3 DEF SideAgreement, markers
<1> QED
  BY <1>5, <1>6

\* What another turn of side s adds: more for s, nothing for the other side.
LEMMA TurnAdds ==
  ASSUME NEW turns \in Seq(Messages), NEW m \in Messages, ~m.failed
  PROVE  LET longer == Append(turns, m)
             o == Opponent(m.side)
         IN  /\ Total(SideCriteria(longer, m.side)) > Total(SideCriteria(turns, m.side))
             /\ Total(SideCriteria(longer, o)) = Total(SideCriteria(turns, o))
<1> DEFINE longer == Append(turns, m)
           s == m.side
           o == Opponent(s)
           n == Len(turns)
<1>1. s \in Sides /\ o \in Sides /\ o # s
  BY DEF Messages, Sides, Opponent, Pro, Con
<1>2. /\ longer \in Seq(Messages) /\ n \in Nat /\ DOMAIN longer = 1 .. n + 1
      /\ DOMAIN turns = 1 .. n
      /\ longer[n + 1] = m /\ \A i \in 1 .. n : longer[i] = turns[i]
  OBVIOUS
<1> HIDE DEF longer, n
<1>3. Turns(longer, s) = Turns(turns, s) \cup {n + 1} /\ n + 1 \notin Turns(turns, s)
  BY <1>2 DEF Turns
<1>4. Turns(longer, o) = Turns(turns, o)
  BY <1>1, <1>2 DEF Turns
<1>5. \A markers : Marked(turns, s, markers) \subseteq Marked(longer, s, markers)
  BY <1>2, <1>3, MarkedPairs DEF Turns
<1>6. \A markers : Marked(turns, o, markers) = Marked(longer, o, markers)
  BY <1>2, <1>4, MarkedPairs DEF Turns
<1> HIDE DEF s, o
<1>7. \A markers \in Markers : Counted(turns, s, markers) <= Counted(longer, s, markers)
  BY <1>1, <1>2, <1>5, MarkedFinite, FS_Subset
<1>8. Cardinality(Turns(longer, s)) = Cardinality(Turns(turns, s)) + 1
  <2>1. IsFiniteSet(Turns(turns, s))
    BY <1>1, MarkedFinite DEF Markers
  <2> QED
    BY <1>3, <2>1, FS_AddElement
<1>9. SideCriteria(longer, o) = SideCriteria(turns, o)
  BY <1>4, <1>6 DEF SideCriteria, Counted
<1>10. Total(SideCriteria(longer, s)) > Total(SideCriteria(turns, s))
  <2> DEFINE a(t) == Cardinality(Turns(t, s))
             b(t) == Counted(t, s, VERDICT_REBUTTAL_MARKERS)
             e(t) == Counted(t, s, VERDICT_ENGAGEMENT_MARKERS)
  <2>1. /\ a(turns) \in Nat /\ b(turns) \in Nat /\ e(turns) \in Nat
        /\ b(longer) \in Nat /\ e(longer) \in Nat
        /\ a(longer) = a(turns) + 1 /\ b(longer) >= b(turns) /\ e(longer) >= e(turns)
    BY <1>1, <1>2, <1>7, <1>8, CriteriaTyped DEF Markers
  <2>2. /\ Total(SideCriteria(longer, s)) = 4 * a(longer) + 6 * b(longer) + 3 * e(longer)
        /\ Total(SideCriteria(turns, s)) = 4 * a(turns) + 6 * b(turns) + 3 * e(turns)
    BY DEF SideCriteria, Total
  <2> HIDE DEF a, b, e
  <2>3. \A i, j, k, c, d \in Nat : j <= k /\ c <= d =>
          4 * (i + 1) + 6 * k + 3 * d > 4 * i + 6 * j + 3 * c
    OBVIOUS
  <2>4. 4 * a(longer) + 6 * b(longer) + 3 * e(longer)
          > 4 * a(turns) + 6 * b(turns) + 3 * e(turns)
    BY <2>1, <2>3
  <2> QED
    BY <2>2, <2>4
<1> QED
  BY <1>9, <1>10 DEF longer, s, o

LEMMA LeadKept ==
  ASSUME NEW turns \in Seq(Messages), NEW m \in Messages, ~m.failed,
         m.side = BuildVerdict(turns).winner
  PROVE  BuildVerdict(Append(turns, m)).winner = m.side
<1> DEFINE longer == Append(turns, m)
           s == m.side
           o == Opponent(s)
           T(t, side) == Total(SideCriteria(t, side))
<1>1. /\ s \in Sides /\ longer \in Seq(Messages)
      /\ Opponent(Pro) = Con /\ Opponent(Con) = Pro /\ Pro # Con
  BY DEF Messages, Opponent, Pro, Con, Sides
<1>2. T(longer, s) > T(turns, s) /\ T(longer, o) = T(turns, o)
  BY TurnAdds
<1>3. \A side \in Sides : T(turns, side) \in Nat /\ T(longer, side) \in Nat
  BY <1>1, CriteriaTyped
<1>4. /\ T(turns, Pro) > T(turns, Con) => BuildVerdict(turns).winner = Pro
      /\ T(turns, Pro) < T(turns, Con) => BuildVerdict(turns).winner = Con
  BY VerdictDecided
<1>5. /\ T(longer, Pro) > T(longer, Con) => BuildVerdict(longer).winner = Pro
      /\ T(longer, Pro) < T(longer, Con) => BuildVerdict(longer).winner = Con
  BY <1>1, VerdictDecided
<1>6. BuildVerdict(turns).winner = s
  OBVIOUS
<1> HIDE DEF T, longer
<1>7. CASE s = Pro
  BY <1>1, <1>2, <1>3, <1>4, <1>5, <1>6, <1>7 DEF Sides, longer
<1>8. CASE s = Con
  BY <1>1, <1>2, <1>3, <1>4, <1>5, <1>6, <1>8 DEF Sides, longer
<1> QED
  BY <1>1, <1>7, <1>8 DEF Sides

\* What a step adds to what was said.
LEMMA StepSpeaks ==
  ASSUME OInv, [OutcomeNext]_outcomeVars
  PROVE  \/ Spoken' = Spoken
         \/ \E m \in Messages : Spoken' = Append(Spoken, m)
<1>0. transcript \in Seq(Messages) /\ closing \in Seq(Messages)
  BY DEF OInv, OutcomeTypeOK
<1>1. CASE Argue \/ FailTurn
  <2>1. PICK m \in Messages : transcript' = Append(transcript, m) /\ UNCHANGED closing
    <3>1. stage = "turn"
      BY <1>1 DEF Argue, FailTurn
    <3>2. \A argument \in Arguments : Message(Side, Round, argument) \in Messages
      BY <3>1, SlotTyped, OutcomeConstants DEF Message, Messages
    <3>3. FailedMarker(Side, Round) \in Messages
      BY <3>1, SlotTyped DEF FailedMarker, Messages
    <3> QED
      BY <1>1, <3>2, <3>3 DEF Argue, FailTurn
  <2>2. closing = <<>> /\ closing' = <<>>
    BY <1>1, <2>1 DEF Argue, FailTurn, OInv, StagesInStep
  <2>3. \A t \in Seq(Messages) : t \o <<>> = t
    BY ConcatEmptySeq
  <2>4. Spoken = transcript /\ Spoken' = Append(transcript, m)
    <3>1. Append(transcript, m) \in Seq(Messages)
      BY <1>0
    <3> QED
      BY <1>0, <2>1, <2>2, <2>3, <3>1 DEF Spoken
  <2> QED
    BY <2>4
<1>2. CASE GiveClosing
  <2>1. PICK m \in Messages : closing' = Append(closing, m) /\ UNCHANGED transcript
    <3>1. \A argument \in Arguments : Message(Side, CLOSING_STAMP, argument) \in Messages
      BY OutcomeConstants DEF Message, Messages, Side, Sides, CLOSING_STAMP
    <3> QED
      BY <1>2, <3>1 DEF GiveClosing
  <2>2. transcript \o Append(closing, m) = Append(transcript \o closing, m)
    BY <1>0, AppendIsConcat, ConcatAssociative
  <2> QED
    BY <2>1, <2>2 DEF Spoken
<1>3. CASE ~(Argue \/ FailTurn \/ GiveClosing)
  <2>1. UNCHANGED <<transcript, closing>>
    BY <1>3 DEF OutcomeNext, SkipClosing, RenderLoopVerdict, PriceResult, FailToPrice,
       CheckRunBudget, OutcomeOver, outcomeVars
  <2> QED
    BY <2>1 DEF Spoken
<1> QED
  BY <1>1, <1>2, <1>3

LEMMA LeadStep ==
  ASSUME OInv, [OutcomeNext]_outcomeVars
  PROVE  LET said == Last(Spoken')
         IN  Answered # {} /\ Answered' # Answered /\ said.side = Leader => Leader' = Leader
<1> SUFFICES ASSUME Answered' # Answered, Last(Spoken').side = Leader
             PROVE  Leader' = Leader
  OBVIOUS
<1>0. Spoken \in Seq(Messages)
  BY SpokenTyped DEF OInv
<1>1. PICK m \in Messages : Spoken' = Append(Spoken, m)
  BY StepSpeaks DEF Answered
<1>2. Last(Append(Spoken, m)) = m
  BY <1>0 DEF Last
<1>3. ~m.failed
  <2> SUFFICES ASSUME m.failed PROVE Answered' = Answered
    OBVIOUS
  <2>1. /\ DOMAIN Append(Spoken, m) = 1 .. Len(Spoken) + 1 /\ DOMAIN Spoken = 1 .. Len(Spoken)
        /\ Len(Spoken) \in Nat /\ Append(Spoken, m)[Len(Spoken) + 1] = m
        /\ \A i \in 1 .. Len(Spoken) : Append(Spoken, m)[i] = Spoken[i]
    BY <1>0
  <2>2. {i \in 1 .. Len(Spoken) + 1 : ~Append(Spoken, m)[i].failed}
          = {i \in 1 .. Len(Spoken) : ~Spoken[i].failed}
    BY <2>1
  <2> QED
    BY <1>1, <2>1, <2>2 DEF Answered
<1>4. m.side = BuildVerdict(Spoken).winner
  BY <1>1, <1>2 DEF Leader
<1> QED
  BY <1>0, <1>1, <1>3, <1>4, LeadKept DEF Leader

-----------------------------------------------------------------------------
\* Induction over data, from the one ordering of the library that is well founded
\* without an operator for a parameter: finite sets by inclusion.
LEMMA LeastNatural ==
  ASSUME NEW N \in SUBSET Nat, N # {}
  PROVE  \E n \in N : \A m \in N : n <= m
<1> DEFINE Upto == {0 .. n : n \in N}
<1>1. Upto \subseteq FiniteSubsetsOf(Nat)
  <2>1. \A n \in N : IsFiniteSet(0 .. n) /\ 0 .. n \in SUBSET Nat
    BY FS_Interval
  <2> QED
    BY <2>1 DEF FiniteSubsetsOf
<1>2. IsWellFoundedOn(StrictSubsetOrdering(Nat), FiniteSubsetsOf(Nat))
  BY FS_StrictSubsetOrderingWellFounded
<1>3. Upto # {}
  OBVIOUS
<1>4. PICK T \in Upto : \A U \in Upto : ~ (<<U, T>> \in StrictSubsetOrdering(Nat))
  <2> HIDE DEF Upto
  <2> QED
    BY <1>1, <1>2, <1>3, WFMin
<1>5. PICK n \in N : T = 0 .. n
  OBVIOUS
<1>6. ASSUME NEW m \in N PROVE n <= m
  <2>1. ~ (<<0 .. m, 0 .. n>> \in StrictSubsetOrdering(Nat))
    BY <1>4, <1>5
  <2>2. 0 .. m \in SUBSET Nat /\ 0 .. n \in SUBSET Nat
    OBVIOUS
  <2>3. ~(0 .. m \subseteq 0 .. n) \/ 0 .. m = 0 .. n
    BY <2>1, <2>2 DEF StrictSubsetOrdering
  <2> QED
    BY <2>3
<1> QED
  BY <1>6

LEMMA Inductive ==
  ASSUME NEW N \in SUBSET Nat, 0 \in N, \A n \in N : n + 1 \in N
  PROVE  N = Nat
<1>1. SUFFICES ASSUME N # Nat PROVE FALSE
  OBVIOUS
<1>2. PICK n \in Nat \ N : \A m \in Nat \ N : n <= m
  BY <1>1, LeastNatural
<1>3. n # 0 /\ n - 1 \in Nat /\ n - 1 \notin Nat \ N
  BY <1>2
<1> QED
  BY <1>2, <1>3

\* What holds of the empty set and of a set with one element more holds of every
\* finite set.
LEMMA GrowingSets ==
  ASSUME NEW S, IsFiniteSet(S), NEW Good, {} \in Good,
         \A T \in SUBSET S : \A x \in S \ T : T \in Good => T \cup {x} \in Good
  PROVE  S \in Good
<1> DEFINE N == {n \in Nat : \A T \in SUBSET S : Cardinality(T) = n => T \in Good}
<1>1. \A T \in SUBSET S : IsFiniteSet(T) /\ Cardinality(T) \in Nat
  BY FS_Subset, FS_CardinalityType
<1>2. 0 \in N
  BY <1>1, FS_EmptySet
<1>3. ASSUME NEW n \in N PROVE n + 1 \in N
  <2>1. SUFFICES ASSUME NEW T \in SUBSET S, Cardinality(T) = n + 1 PROVE T \in Good
    OBVIOUS
  <2>2. PICK x : x \in T
    BY <1>1, <2>1, FS_EmptySet
  <2>3. Cardinality(T \ {x}) = n /\ T \ {x} \in SUBSET S
    <3>1. Cardinality(T \ {x}) = Cardinality(T) - 1
      BY <1>1, <2>2, FS_RemoveElement
    <3> QED
      BY <2>1, <3>1
  <2>4. T \ {x} \in Good /\ x \in S \ (T \ {x}) /\ T = (T \ {x}) \cup {x}
    BY <2>2, <2>3
  <2> QED
    BY <2>3, <2>4
<1>4. N = Nat
  <2>1. N \in SUBSET Nat
    OBVIOUS
  <2> HIDE DEF N
  <2> QED
    BY <1>2, <1>3, <2>1, Inductive
<1> QED
  BY <1>1, <1>4

-----------------------------------------------------------------------------
\* SumFunctionOnSet adds its terms in an order nobody chose.  It is the fold of
\* the community modules, unfolded, and does not depend on that order.
ElementOf(s) == CHOOSE x \in s : TRUE

Added(f, g, s) == IF s = {} THEN 0 ELSE f[ElementOf(s)] + g[s \ {ElementOf(s)}]

Sums(f, S) == CHOOSE g : g = [s \in SUBSET S |-> Added(f, g, s)]

LEMMA SumUnfolds ==
  ASSUME NEW f, NEW S
  PROVE  SumFunctionOnSet(f, S) = Sums(f, S)[S]
  BY DEF SumFunctionOnSet, FoldFunctionOnSet, MapThenFoldSet, ElementOf, Sums, Added

LEMMA ElementRemoved ==
  ASSUME NEW s, IsFiniteSet(s), s # {}
  PROVE  /\ ElementOf(s) \in s /\ s \ {ElementOf(s)} \subseteq s
         /\ IsFiniteSet(s \ {ElementOf(s)})
         /\ Cardinality(s) \in Nat /\ Cardinality(s \ {ElementOf(s)}) = Cardinality(s) - 1
<1>1. ElementOf(s) \in s
  BY DEF ElementOf
<1> QED
  BY <1>1, FS_RemoveElement, FS_CardinalityType

\* The recursion of the fold has a solution: one that is right for sets of n
\* elements gives one that is right for sets of n + 1.
LEMMA SumsDefined ==
  ASSUME NEW f, NEW S, IsFiniteSet(S)
  PROVE  \A s \in SUBSET S : Sums(f, S)[s] = Added(f, Sums(f, S), s)
<1> DEFINE Again(g) == [s \in SUBSET S |-> Added(f, g, s)]
           Right(g, n) == \A s \in SUBSET S : Cardinality(s) <= n => g[s] = Again(g)[s]
           N == {n \in Nat : \E g : Right(g, n)}
<1>1. \A s \in SUBSET S : IsFiniteSet(s) /\ Cardinality(s) \in Nat
  BY FS_Subset, FS_CardinalityType
<1>2. 0 \in N
  <2> DEFINE zero == [s \in SUBSET S |-> 0]
  <2>1. \A s \in SUBSET S : Cardinality(s) <= 0 => s = {}
    BY <1>1, FS_EmptySet
  <2>2. Right(zero, 0)
    BY <2>1 DEF Added
  <2> HIDE DEF zero, Right
  <2> QED
    BY <2>2
<1>3. ASSUME NEW n \in N PROVE n + 1 \in N
  <2>1. PICK g : Right(g, n)
    OBVIOUS
  <2>2. ASSUME NEW s \in SUBSET S, Cardinality(s) <= n + 1
        PROVE  Again(g)[s] = Again(Again(g))[s]
    <3>1. CASE s = {}
      BY <3>1 DEF Added
    <3>2. CASE s # {}
      <4> DEFINE rest == s \ {ElementOf(s)}
      <4>1. rest \in SUBSET S /\ Cardinality(rest) <= n
        BY <1>1, <2>2, <3>2, ElementRemoved
      <4>2. g[rest] = Again(g)[rest]
        BY <2>1, <4>1
      <4>3. Added(f, g, s) = Added(f, Again(g), s)
        BY <3>2, <4>2 DEF Added
      <4> QED
        BY <4>3
    <3> QED
      BY <3>1, <3>2
  <2>3. Right(Again(g), n + 1)
    BY <2>2
  <2> HIDE DEF Right, Again
  <2> QED
    BY <2>3
<1>4. N = Nat
  <2>1. N \in SUBSET Nat
    OBVIOUS
  <2> HIDE DEF N
  <2> QED
    BY <1>2, <1>3, <2>1, Inductive
<1>5. PICK g : Right(g, Cardinality(S))
  <2> HIDE DEF Right
  <2> QED
    BY <1>1, <1>4
<1>6. \A s \in SUBSET S : g[s] = Again(g)[s]
  BY <1>1, <1>5, FS_Subset
<1>7. \A s \in SUBSET S : Added(f, g, s) = Added(f, Again(g), s)
  <2> TAKE s \in SUBSET S
  <2>1. s \ {ElementOf(s)} \in SUBSET S
    OBVIOUS
  <2> HIDE DEF Again
  <2> QED
    BY <1>6, <2>1 DEF Added
<1>8. Again(g) = [s \in SUBSET S |-> Added(f, Again(g), s)]
  BY <1>7
<1> HIDE DEF Again
<1>9. Sums(f, S) = [s \in SUBSET S |-> Added(f, Sums(f, S), s)]
  BY <1>8 DEF Sums
<1> QED
  BY <1>9

\* What a set sums to does not depend on the set it is taken from.
LEMMA SumsAgree ==
  ASSUME NEW f, NEW S, IsFiniteSet(S), NEW T \in SUBSET S
  PROVE  Sums(f, S)[T] = SumFunctionOnSet(f, T)
<1> DEFINE N == {n \in Nat : \A s \in SUBSET T : Cardinality(s) = n => Sums(f, S)[s] = Sums(f, T)[s]}
<1>1. /\ \A s \in SUBSET T : IsFiniteSet(s) /\ Cardinality(s) \in Nat /\ s \in SUBSET S
      /\ IsFiniteSet(T)
  BY FS_Subset, FS_CardinalityType
<1>2. \A s \in SUBSET T : /\ Sums(f, S)[s] = Added(f, Sums(f, S), s)
                          /\ Sums(f, T)[s] = Added(f, Sums(f, T), s)
  BY <1>1, SumsDefined
<1>3. 0 \in N
  BY <1>1, <1>2, FS_EmptySet DEF Added
<1>4. ASSUME NEW n \in N PROVE n + 1 \in N
  <2>1. SUFFICES ASSUME NEW s \in SUBSET T, Cardinality(s) = n + 1
                 PROVE  Sums(f, S)[s] = Sums(f, T)[s]
    OBVIOUS
  <2>2. s # {}
    <3>1. n \in Nat
      OBVIOUS
    <3> HIDE DEF N
    <3> QED
      BY <2>1, <3>1, FS_EmptySet
  <2>3. s \ {ElementOf(s)} \in SUBSET T /\ Cardinality(s \ {ElementOf(s)}) = n
    BY <1>1, <2>1, <2>2, ElementRemoved
  <2>4. Sums(f, S)[s \ {ElementOf(s)}] = Sums(f, T)[s \ {ElementOf(s)}]
    BY <2>3
  <2> QED
    BY <1>2, <2>2, <2>4 DEF Added
<1>5. N = Nat
  <2>1. N \in SUBSET Nat
    OBVIOUS
  <2> HIDE DEF N
  <2> QED
    BY <1>3, <1>4, <2>1, Inductive
<1>6. Sums(f, S)[T] = Sums(f, T)[T]
  BY <1>1, <1>5
<1> QED
  BY <1>6, SumUnfolds

LEMMA SumOfNone ==
  ASSUME NEW f
  PROVE  SumFunctionOnSet(f, {}) = 0
<1>1. Sums(f, {})[{}] = Added(f, Sums(f, {}), {})
  BY FS_EmptySet, SumsDefined
<1> QED
  BY <1>1, SumUnfolds DEF Added

LEMMA SumRecurs ==
  ASSUME NEW f, NEW S, IsFiniteSet(S), S # {}
  PROVE  SumFunctionOnSet(f, S) = f[ElementOf(S)] + SumFunctionOnSet(f, S \ {ElementOf(S)})
<1>1. Sums(f, S)[S] = Added(f, Sums(f, S), S)
  BY SumsDefined
<1> QED
  BY <1>1, SumsAgree, SumUnfolds DEF Added

LEMMA SumIsInt ==
  ASSUME NEW f, NEW S, IsFiniteSet(S), \A x \in S : f[x] \in Int
  PROVE  SumFunctionOnSet(f, S) \in Int
<1> DEFINE N == {n \in Nat : \A s \in SUBSET S : Cardinality(s) = n => SumFunctionOnSet(f, s) \in Int}
<1>1. \A s \in SUBSET S : IsFiniteSet(s) /\ Cardinality(s) \in Nat
  BY FS_Subset, FS_CardinalityType
<1>2. 0 \in N
  BY <1>1, FS_EmptySet, SumOfNone
<1>3. ASSUME NEW n \in N PROVE n + 1 \in N
  <2>1. SUFFICES ASSUME NEW s \in SUBSET S, Cardinality(s) = n + 1
                 PROVE  SumFunctionOnSet(f, s) \in Int
    OBVIOUS
  <2>2. s # {}
    BY <2>1, FS_EmptySet
  <2> DEFINE e == ElementOf(s)
  <2>3. /\ e \in s /\ s \ {e} \in SUBSET S /\ Cardinality(s \ {e}) = n
        /\ SumFunctionOnSet(f, s) = f[e] + SumFunctionOnSet(f, s \ {e})
    BY <1>1, <2>1, <2>2, ElementRemoved, SumRecurs
  <2> HIDE DEF e
  <2> QED
    BY <2>3
<1>4. N = Nat
  <2>1. N \in SUBSET Nat
    OBVIOUS
  <2> HIDE DEF N
  <2> QED
    BY <1>2, <1>3, <2>1, Inductive
<1> QED
  BY <1>1, <1>4

\* Which element is taken first does not matter.
LEMMA SumOfRest ==
  ASSUME NEW f, NEW S, IsFiniteSet(S), \A x \in S : f[x] \in Int, NEW x \in S
  PROVE  SumFunctionOnSet(f, S) = f[x] + SumFunctionOnSet(f, S \ {x})
<1> DEFINE SumOf(s) == SumFunctionOnSet(f, s)
           N == {n \in Nat : \A s \in SUBSET S : Cardinality(s) = n =>
                               \A y \in s : SumOf(s) = f[y] + SumOf(s \ {y})}
<1>1. \A s \in SUBSET S : IsFiniteSet(s) /\ Cardinality(s) \in Nat /\ SumOf(s) \in Int
  BY FS_Subset, FS_CardinalityType, SumIsInt
<1>2. \A s \in SUBSET S : s # {} =>
        /\ ElementOf(s) \in s
        /\ SumOf(s) = f[ElementOf(s)] + SumOf(s \ {ElementOf(s)})
  BY <1>1, ElementRemoved, SumRecurs
<1> HIDE DEF SumOf
<1>3. 0 \in N
  BY <1>1, FS_EmptySet
<1>4. ASSUME NEW n \in N PROVE n + 1 \in N
  <2>1. SUFFICES ASSUME NEW s \in SUBSET S, Cardinality(s) = n + 1, NEW y \in s
                 PROVE  SumOf(s) = f[y] + SumOf(s \ {y})
    OBVIOUS
  <2>2. PICK e \in s : SumOf(s) = f[e] + SumOf(s \ {e})
    BY <1>2
  <2>3. CASE y = e
    BY <2>2, <2>3
  <2>4. CASE y # e
    <3>1. \A z \in s : s \ {z} \in SUBSET S /\ Cardinality(s \ {z}) = n
      <4> TAKE z \in s
      <4>1. Cardinality(s \ {z}) = Cardinality(s) - 1
        BY <1>1, FS_RemoveElement
      <4> QED
        BY <2>1, <4>1
    <3>2. SumOf(s \ {e}) = f[y] + SumOf((s \ {e}) \ {y})
      BY <2>4, <3>1
    <3>3. SumOf(s \ {y}) = f[e] + SumOf((s \ {y}) \ {e})
      BY <2>4, <3>1
    <3>4. (s \ {y}) \ {e} = (s \ {e}) \ {y}
      OBVIOUS
    <3>5. SumOf((s \ {e}) \ {y}) \in Int /\ f[y] \in Int /\ f[e] \in Int
      BY <1>1
    <3>6. SumOf(s) = f[e] + (f[y] + SumOf((s \ {e}) \ {y}))
      BY <2>2, <3>2
    <3>7. f[y] + SumOf(s \ {y}) = f[y] + (f[e] + SumOf((s \ {e}) \ {y}))
      BY <3>3, <3>4
    <3> HIDE DEF N
    <3> QED
      BY <3>5, <3>6, <3>7
  <2> QED
    BY <2>3, <2>4
<1>5. N = Nat
  <2>1. N \in SUBSET Nat
    OBVIOUS
  <2> HIDE DEF N
  <2> QED
    BY <1>3, <1>4, <2>1, Inductive
<1>6. SumOf(S) = f[x] + SumOf(S \ {x})
  BY <1>1, <1>5
<1> QED
  BY <1>6 DEF SumOf

LEMMA SumWith ==
  ASSUME NEW f, NEW S, IsFiniteSet(S), NEW x, x \notin S, \A y \in S \cup {x} : f[y] \in Int
  PROVE  SumFunctionOnSet(f, S \cup {x}) = SumFunctionOnSet(f, S) + f[x]
<1>1. IsFiniteSet(S \cup {x}) /\ (S \cup {x}) \ {x} = S
  BY FS_AddElement
<1>2. SumFunctionOnSet(f, S) \in Int /\ f[x] \in Int
  BY SumIsInt
<1>3. SumFunctionOnSet(f, S \cup {x}) = f[x] + SumFunctionOnSet(f, (S \cup {x}) \ {x})
  BY <1>1, SumOfRest
<1>4. SumFunctionOnSet(f, S \cup {x}) = f[x] + SumFunctionOnSet(f, S)
  BY <1>1, <1>3
<1> QED
  BY <1>2, <1>4

LEMMA SumIsNat ==
  ASSUME NEW f, NEW S, IsFiniteSet(S), \A x \in S : f[x] \in Nat
  PROVE  SumFunctionOnSet(f, S) \in Nat
<1> DEFINE Good == {T \in SUBSET S : SumFunctionOnSet(f, T) \in Nat}
<1>1. {} \in Good
  BY SumOfNone
<1>2. ASSUME NEW T \in SUBSET S, NEW x \in S \ T, T \in Good PROVE T \cup {x} \in Good
  <2>1. SumFunctionOnSet(f, T \cup {x}) = SumFunctionOnSet(f, T) + f[x]
    BY <1>2, FS_Subset, SumWith
  <2> QED
    BY <1>2, <2>1
<1>3. S \in Good
  <2> HIDE DEF Good
  <2> QED
    BY <1>1, <1>2, GrowingSets
<1> QED
  BY <1>3

LEMMA SameSum ==
  ASSUME NEW f, NEW g, NEW S, IsFiniteSet(S), \A x \in S : f[x] \in Int /\ g[x] = f[x]
  PROVE  SumFunctionOnSet(f, S) = SumFunctionOnSet(g, S)
<1> DEFINE Good == {T \in SUBSET S : SumFunctionOnSet(f, T) = SumFunctionOnSet(g, T)}
<1>1. {} \in Good
  BY SumOfNone
<1>2. ASSUME NEW T \in SUBSET S, NEW x \in S \ T, T \in Good PROVE T \cup {x} \in Good
  <2>1. IsFiniteSet(T)
    BY FS_Subset
  <2>2. SumFunctionOnSet(f, T \cup {x}) = SumFunctionOnSet(f, T) + f[x]
    BY <1>2, <2>1, SumWith
  <2>3. SumFunctionOnSet(g, T \cup {x}) = SumFunctionOnSet(g, T) + g[x]
    BY <1>2, <2>1, SumWith
  <2> QED
    BY <1>2, <2>2, <2>3
<1>3. S \in Good
  <2> HIDE DEF Good
  <2> QED
    BY <1>1, <1>2, GrowingSets
<1> QED
  BY <1>3

LEMMA SumOfSums ==
  ASSUME NEW f, NEW g, NEW h, NEW S, IsFiniteSet(S),
         \A x \in S : f[x] \in Int /\ g[x] \in Int /\ h[x] = f[x] + g[x]
  PROVE  SumFunctionOnSet(h, S) = SumFunctionOnSet(f, S) + SumFunctionOnSet(g, S)
<1> DEFINE Good == {T \in SUBSET S :
              SumFunctionOnSet(h, T) = SumFunctionOnSet(f, T) + SumFunctionOnSet(g, T)}
<1>1. {} \in Good
  BY SumOfNone
<1>2. ASSUME NEW T \in SUBSET S, NEW x \in S \ T, T \in Good PROVE T \cup {x} \in Good
  <2>1. IsFiniteSet(T) /\ \A y \in T \cup {x} : f[y] \in Int /\ g[y] \in Int /\ h[y] \in Int
    BY FS_Subset
  <2>2. SumFunctionOnSet(f, T \cup {x}) = SumFunctionOnSet(f, T) + f[x]
    BY <1>2, <2>1, SumWith
  <2>3. SumFunctionOnSet(g, T \cup {x}) = SumFunctionOnSet(g, T) + g[x]
    BY <1>2, <2>1, SumWith
  <2>4. SumFunctionOnSet(h, T \cup {x}) = SumFunctionOnSet(h, T) + h[x]
    BY <1>2, <2>1, SumWith
  <2>5. SumFunctionOnSet(f, T) \in Int /\ SumFunctionOnSet(g, T) \in Int
    BY <2>1, SumIsInt
  <2> QED
    BY <1>2, <2>2, <2>3, <2>4, <2>5
<1>3. S \in Good
  <2> HIDE DEF Good
  <2> QED
    BY <1>1, <1>2, GrowingSets
<1> QED
  BY <1>3

LEMMA SumOfMultiples ==
  ASSUME NEW f, NEW g, NEW c \in Int, NEW S, IsFiniteSet(S),
         \A x \in S : f[x] \in Int /\ g[x] = f[x] * c
  PROVE  SumFunctionOnSet(g, S) = SumFunctionOnSet(f, S) * c
<1> DEFINE Good == {T \in SUBSET S : SumFunctionOnSet(g, T) = SumFunctionOnSet(f, T) * c}
<1>1. {} \in Good
  BY SumOfNone
<1>2. ASSUME NEW T \in SUBSET S, NEW x \in S \ T, T \in Good PROVE T \cup {x} \in Good
  <2>1. IsFiniteSet(T) /\ \A y \in T \cup {x} : f[y] \in Int /\ g[y] \in Int
    BY FS_Subset
  <2>2. SumFunctionOnSet(f, T \cup {x}) = SumFunctionOnSet(f, T) + f[x]
    BY <1>2, <2>1, SumWith
  <2>3. SumFunctionOnSet(g, T \cup {x}) = SumFunctionOnSet(g, T) + g[x]
    BY <1>2, <2>1, SumWith
  <2>4. SumFunctionOnSet(f, T) \in Int /\ f[x] \in Int
    BY <2>1, SumIsInt
  <2>5. \A a, b \in Int : (a + b) * c = a * c + b * c
    OBVIOUS
  <2> QED
    BY <1>2, <2>2, <2>3, <2>4, <2>5
<1>3. S \in Good
  <2> HIDE DEF Good
  <2> QED
    BY <1>1, <1>2, GrowingSets
<1> QED
  BY <1>3

LEMMA SumOfBoth ==
  ASSUME NEW f, NEW S, NEW R, IsFiniteSet(S), IsFiniteSet(R), S \cap R = {},
         \A x \in S \cup R : f[x] \in Int
  PROVE  SumFunctionOnSet(f, S \cup R) = SumFunctionOnSet(f, S) + SumFunctionOnSet(f, R)
<1> DEFINE Good == {T \in SUBSET S :
              SumFunctionOnSet(f, T \cup R) = SumFunctionOnSet(f, T) + SumFunctionOnSet(f, R)}
<1>1. {} \in Good
  <2>1. {} \cup R = R /\ SumFunctionOnSet(f, R) \in Int
    BY SumIsInt
  <2> QED
    BY <2>1, SumOfNone
<1>2. ASSUME NEW T \in SUBSET S, NEW x \in S \ T, T \in Good PROVE T \cup {x} \in Good
  <2>1. IsFiniteSet(T) /\ IsFiniteSet(T \cup R)
    BY FS_Subset, FS_Union
  <2>2. SumFunctionOnSet(f, T \cup {x}) = SumFunctionOnSet(f, T) + f[x]
    BY <1>2, <2>1, SumWith
  <2>3. x \notin T \cup R /\ (T \cup {x}) \cup R = (T \cup R) \cup {x}
    OBVIOUS
  <2>4. SumFunctionOnSet(f, (T \cup R) \cup {x}) = SumFunctionOnSet(f, T \cup R) + f[x]
    BY <1>2, <2>1, <2>3, SumWith
  <2>5. SumFunctionOnSet(f, T) \in Int /\ SumFunctionOnSet(f, R) \in Int /\ f[x] \in Int
    BY <2>1, SumIsInt
  <2>6. SumFunctionOnSet(f, (T \cup {x}) \cup R)
          = (SumFunctionOnSet(f, T) + SumFunctionOnSet(f, R)) + f[x]
    BY <1>2, <2>3, <2>4
  <2>7. SumFunctionOnSet(f, (T \cup {x}) \cup R)
          = SumFunctionOnSet(f, T \cup {x}) + SumFunctionOnSet(f, R)
    BY <2>2, <2>5, <2>6
  <2> QED
    BY <2>7
<1>3. S \in Good
  <2> HIDE DEF Good
  <2> QED
    BY <1>1, <1>2, GrowingSets
<1> QED
  BY <1>3

\* A sum over groups of the sums over each group is the sum over all.
LEMMA SumOfGroups ==
  ASSUME NEW f, NEW S, IsFiniteSet(S), \A x \in S : f[x] \in Int,
         NEW key, NEW K, IsFiniteSet(K), \A x \in S : key[x] \in K,
         NEW g, \A k \in K : g[k] = SumFunctionOnSet(f, {x \in S : key[x] = k})
  PROVE  SumFunctionOnSet(g, K) = SumFunctionOnSet(f, S)
<1> DEFINE Of(L) == {x \in S : key[x] \in L}
           Good == {L \in SUBSET K : SumFunctionOnSet(g, L) = SumFunctionOnSet(f, Of(L))}
<1>1. {} \in Good
  <2>1. Of({}) = {}
    OBVIOUS
  <2> QED
    BY <2>1, SumOfNone
<1>2. ASSUME NEW L \in SUBSET K, NEW k \in K \ L, L \in Good PROVE L \cup {k} \in Good
  <2> DEFINE Ofk == {x \in S : key[x] = k}
  <2>1. IsFiniteSet(L) /\ IsFiniteSet(Of(L)) /\ IsFiniteSet(Ofk)
    BY FS_Subset
  <2>2. Of(L \cup {k}) = Of(L) \cup Ofk /\ Of(L) \cap Ofk = {}
    OBVIOUS
  <2>3. SumFunctionOnSet(f, Of(L) \cup Ofk) = SumFunctionOnSet(f, Of(L)) + SumFunctionOnSet(f, Ofk)
    <3>1. \A x \in Of(L) \cup Ofk : f[x] \in Int
      OBVIOUS
    <3>2. Of(L) \cap Ofk = {}
      BY <2>2
    <3> HIDE DEF Of, Ofk
    <3> QED
      BY <2>1, <3>1, <3>2, SumOfBoth
  <2>4. \A l \in L \cup {k} : g[l] \in Int
    <3> TAKE l \in L \cup {k}
    <3>1. IsFiniteSet({x \in S : key[x] = l})
      BY FS_Subset
    <3>2. SumFunctionOnSet(f, {x \in S : key[x] = l}) \in Int
      BY <3>1, SumIsInt
    <3> QED
      BY <3>2
  <2>5. SumFunctionOnSet(g, L \cup {k}) = SumFunctionOnSet(g, L) + g[k]
    BY <1>2, <2>1, <2>4, SumWith
  <2>6. g[k] = SumFunctionOnSet(f, Ofk)
    OBVIOUS
  <2> HIDE DEF Of, Ofk
  <2> QED
    BY <1>2, <2>2, <2>3, <2>5, <2>6
<1>3. K \in Good
  <2> HIDE DEF Good
  <2> QED
    BY <1>1, <1>2, GrowingSets
<1>4. Of(K) = S
  OBVIOUS
<1> QED
  BY <1>3, <1>4

-----------------------------------------------------------------------------
\* The positions a part of a sequence has behind another part.
Moved(S, a) == {i + a : i \in S}

LEMMA MovedFinite ==
  ASSUME NEW S, IsFiniteSet(S), NEW a
  PROVE  IsFiniteSet(Moved(S, a))
<1> DEFINE move == [i \in S |-> i + a]
<1>1. move \in Surjection(S, Moved(S, a))
  BY DEF Surjection, Moved
<1> QED
  BY <1>1, FS_Surjection

LEMMA SumMoved ==
  ASSUME NEW f, NEW g, NEW S \in SUBSET Int, IsFiniteSet(S), NEW a \in Int,
         \A i \in S : g[i] \in Int /\ f[i + a] = g[i]
  PROVE  SumFunctionOnSet(f, Moved(S, a)) = SumFunctionOnSet(g, S)
<1> DEFINE Good == {T \in SUBSET S : /\ IsFiniteSet(Moved(T, a))
                                     /\ SumFunctionOnSet(f, Moved(T, a)) = SumFunctionOnSet(g, T)}
<1>1. {} \in Good
  <2>1. Moved({}, a) = {}
    BY DEF Moved
  <2> QED
    BY <2>1, SumOfNone, FS_EmptySet
<1>2. ASSUME NEW T \in SUBSET S, NEW x \in S \ T, T \in Good PROVE T \cup {x} \in Good
  <2>1. IsFiniteSet(T) /\ IsFiniteSet(Moved(T, a))
    BY <1>2, FS_Subset
  <2>2. Moved(T \cup {x}, a) = Moved(T, a) \cup {x + a} /\ x + a \notin Moved(T, a)
    BY DEF Moved
  <2>3. \A y \in Moved(T, a) \cup {x + a} : f[y] \in Int
    BY DEF Moved
  <2>4. SumFunctionOnSet(g, T \cup {x}) = SumFunctionOnSet(g, T) + g[x]
    BY <1>2, <2>1, SumWith
  <2>5. SumFunctionOnSet(f, Moved(T, a) \cup {x + a}) = SumFunctionOnSet(f, Moved(T, a)) + f[x + a]
    BY <2>1, <2>2, <2>3, SumWith
  <2>6. IsFiniteSet(Moved(T \cup {x}, a))
    <3>1. IsFiniteSet(Moved(T, a) \cup {x + a})
      BY <2>1, FS_AddElement
    <3> QED
      BY <2>2, <3>1
  <2>7. SumFunctionOnSet(f, Moved(T \cup {x}, a)) = SumFunctionOnSet(g, T \cup {x})
    BY <1>2, <2>2, <2>4, <2>5
  <2> QED
    BY <2>6, <2>7
<1>3. S \in Good
  <2> HIDE DEF Good
  <2> QED
    BY <1>1, <1>2, GrowingSets
<1> QED
  BY <1>3

Tokens(messages) == [i \in DOMAIN messages |-> messages[i].input]
Replies(messages) == [i \in DOMAIN messages |-> messages[i].output]
KeyedBy(messages, key, k) == {i \in DOMAIN messages : key[i] = k}

LEMMA MessagesTyped ==
  ASSUME NEW M \in Seq(Messages)
  PROVE  /\ IsFiniteSet(DOMAIN M) /\ DOMAIN M = 1 .. Len(M) /\ Len(M) \in Nat
         /\ \A i \in DOMAIN M : Tokens(M)[i] = M[i].input /\ Replies(M)[i] = M[i].output
         /\ \A i \in DOMAIN M : Tokens(M)[i] \in Nat /\ Replies(M)[i] \in Nat
         /\ \A S \in SUBSET DOMAIN M : IsFiniteSet(S)
         /\ \A i \in DOMAIN M : M[i].side \in Sides /\ M[i] \in Messages
<1>1. IsFiniteSet(DOMAIN M) /\ DOMAIN M = 1 .. Len(M) /\ Len(M) \in Nat
  BY FS_Interval
<1>2. \A i \in DOMAIN M : M[i] \in Messages
  BY <1>1
<1>3. \A S \in SUBSET DOMAIN M : IsFiniteSet(S)
  BY <1>1, FS_Subset
<1> QED
  BY <1>1, <1>2, <1>3 DEF Tokens, Replies, Messages

LEMMA UsageTyped ==
  ASSUME NEW M \in Seq(Messages), NEW S \in SUBSET DOMAIN M
  PROVE  /\ Usage(M, S) = [input |-> SumFunctionOnSet(Tokens(M), S),
                           output |-> SumFunctionOnSet(Replies(M), S)]
         /\ SumFunctionOnSet(Tokens(M), S) \in Nat /\ SumFunctionOnSet(Replies(M), S) \in Nat
<1>1. SumFunctionOnSet(Tokens(M), S) \in Nat /\ SumFunctionOnSet(Replies(M), S) \in Nat
  BY MessagesTyped, SumIsNat
<1> QED
  BY <1>1 DEF Usage, Tokens, Replies

\* Grouping by a key loses no token and counts none twice.
LEMMA GroupsAddUp ==
  ASSUME NEW M \in Seq(Messages), NEW key, DOMAIN key = DOMAIN M,
         NEW f, \A i \in DOMAIN M : f[i] \in Int,
         NEW g, DOMAIN g = Range(key),
         \A k \in Range(key) : g[k] = SumFunctionOnSet(f, KeyedBy(M, key, k))
  PROVE  SumFunction(g) = SumFunctionOnSet(f, DOMAIN M)
<1>1. Range(key) = {key[i] : i \in DOMAIN M}
  BY DEF Range
<1>2. IsFiniteSet(Range(key)) /\ \A i \in DOMAIN M : key[i] \in Range(key)
  <2>1. IsFiniteSet(DOMAIN M)
    BY MessagesTyped
  <2> DEFINE onto == [i \in DOMAIN M |-> key[i]]
  <2>2. onto \in Surjection(DOMAIN M, Range(key))
    BY <1>1 DEF Surjection
  <2> QED
    BY <1>1, <2>1, <2>2, FS_Surjection
<1>3. SumFunctionOnSet(g, Range(key)) = SumFunctionOnSet(f, DOMAIN M)
  BY <1>2, MessagesTyped, SumOfGroups DEF KeyedBy
<1> QED
  BY <1>3 DEF SumFunction

LEMMA GroupedAddsUp ==
  ASSUME NEW M \in Seq(Messages), NEW key, DOMAIN key = DOMAIN M
  PROVE  LET grouped == Grouped(M, key)
         IN  [input  |-> SumFunction([k \in DOMAIN grouped |-> grouped[k].input]),
              output |-> SumFunction([k \in DOMAIN grouped |-> grouped[k].output])]
             = Usage(M, DOMAIN M)
<1> DEFINE grouped == Grouped(M, key)
           inputs == [k \in DOMAIN grouped |-> grouped[k].input]
           outputs == [k \in DOMAIN grouped |-> grouped[k].output]
<1>1. DOMAIN grouped = Range(key)
  BY DEF Grouped
<1>2. \A k \in Range(key) : /\ inputs[k] = SumFunctionOnSet(Tokens(M), KeyedBy(M, key, k))
                            /\ outputs[k] = SumFunctionOnSet(Replies(M), KeyedBy(M, key, k))
  <2> TAKE k \in Range(key)
  <2>1. grouped[k] = Usage(M, KeyedBy(M, key, k))
    BY DEF Grouped, KeyedBy
  <2>2. KeyedBy(M, key, k) \in SUBSET DOMAIN M
    BY DEF KeyedBy
  <2> HIDE DEF grouped
  <2> QED
    BY <1>1, <2>1, <2>2, UsageTyped
<1>3. DOMAIN inputs = Range(key) /\ DOMAIN outputs = Range(key)
  BY <1>1
<1> HIDE DEF inputs, outputs, grouped
<1>4. SumFunction(inputs) = SumFunctionOnSet(Tokens(M), DOMAIN M)
  BY <1>2, <1>3, MessagesTyped, GroupsAddUp
<1>5. SumFunction(outputs) = SumFunctionOnSet(Replies(M), DOMAIN M)
  BY <1>2, <1>3, MessagesTyped, GroupsAddUp
<1>6. Usage(M, DOMAIN M) = [input |-> SumFunction(inputs), output |-> SumFunction(outputs)]
  BY <1>4, <1>5, UsageTyped
<1> QED
  BY <1>6 DEF inputs, outputs, grouped

LEMMA SumOfJoined ==
  ASSUME NEW a \in Nat, NEW S \in SUBSET (1 .. a), NEW T \in SUBSET (Nat \ {0}),
         IsFiniteSet(S), IsFiniteSet(T), NEW f, NEW g, NEW h,
         \A i \in S : f[i] \in Int /\ h[i] = f[i],
         \A i \in T : g[i] \in Int /\ h[i + a] = g[i]
  PROVE  SumFunctionOnSet(h, S \cup Moved(T, a)) = SumFunctionOnSet(f, S) + SumFunctionOnSet(g, T)
<1>1. S \cap Moved(T, a) = {}
  BY DEF Moved
<1>2. \A i \in S \cup Moved(T, a) : h[i] \in Int
  BY DEF Moved
<1>3. IsFiniteSet(Moved(T, a))
  BY MovedFinite
<1>4. SumFunctionOnSet(h, Moved(T, a)) = SumFunctionOnSet(g, T)
  <2>1. T \in SUBSET Int /\ a \in Int
    OBVIOUS
  <2> QED
    BY <2>1, SumMoved
<1>5. SumFunctionOnSet(h, S) = SumFunctionOnSet(f, S)
  BY SameSum
<1>6. SumFunctionOnSet(h, S \cup Moved(T, a))
        = SumFunctionOnSet(h, S) + SumFunctionOnSet(h, Moved(T, a))
  BY <1>1, <1>2, <1>3, SumOfBoth
<1> QED
  BY <1>4, <1>5, <1>6

LEMMA JoinedUsage ==
  ASSUME NEW A \in Seq(Messages), NEW C \in Seq(Messages),
         NEW S \in SUBSET DOMAIN A, NEW T \in SUBSET DOMAIN C
  PROVE  LET both == S \cup Moved(T, Len(A))
         IN  Usage(A \o C, both) = [input  |-> Usage(A, S).input + Usage(C, T).input,
                                    output |-> Usage(A, S).output + Usage(C, T).output]
<1> DEFINE both == S \cup Moved(T, Len(A))
<1>1. /\ DOMAIN A = 1 .. Len(A) /\ Len(A) \in Nat /\ DOMAIN C = 1 .. Len(C) /\ Len(C) \in Nat
  BY MessagesTyped
<1>2. /\ A \o C \in Seq(Messages) /\ DOMAIN (A \o C) = 1 .. Len(A) + Len(C)
      /\ \A i \in DOMAIN A : (A \o C)[i] = A[i]
      /\ \A i \in DOMAIN C : (A \o C)[i + Len(A)] = C[i]
  BY <1>1
<1>3. both \in SUBSET DOMAIN (A \o C)
  BY <1>1, <1>2 DEF Moved
<1>4. /\ \A i \in DOMAIN A : i \in DOMAIN (A \o C)
      /\ \A i \in DOMAIN C : i + Len(A) \in DOMAIN (A \o C)
  BY <1>1, <1>2
<1>5. /\ \A i \in DOMAIN A : Tokens(A)[i] \in Int /\ Tokens(A \o C)[i] = Tokens(A)[i]
      /\ \A i \in DOMAIN C : Tokens(C)[i] \in Int /\ Tokens(A \o C)[i + Len(A)] = Tokens(C)[i]
      /\ \A i \in DOMAIN A : Replies(A)[i] \in Int /\ Replies(A \o C)[i] = Replies(A)[i]
      /\ \A i \in DOMAIN C : Replies(C)[i] \in Int /\ Replies(A \o C)[i + Len(A)] = Replies(C)[i]
  <2>1. /\ \A i \in DOMAIN A : Tokens(A)[i] = A[i].input /\ Replies(A)[i] = A[i].output
        /\ \A i \in DOMAIN A : Tokens(A)[i] \in Int /\ Replies(A)[i] \in Int
    BY MessagesTyped
  <2>2. /\ \A i \in DOMAIN C : Tokens(C)[i] = C[i].input /\ Replies(C)[i] = C[i].output
        /\ \A i \in DOMAIN C : Tokens(C)[i] \in Int /\ Replies(C)[i] \in Int
    BY MessagesTyped
  <2>3. \A i \in DOMAIN (A \o C) : /\ Tokens(A \o C)[i] = (A \o C)[i].input
                                   /\ Replies(A \o C)[i] = (A \o C)[i].output
    BY <1>2, MessagesTyped
  <2> QED
    BY <1>2, <1>4, <2>1, <2>2, <2>3
<1>6. /\ SumFunctionOnSet(Tokens(A \o C), both)
           = SumFunctionOnSet(Tokens(A), S) + SumFunctionOnSet(Tokens(C), T)
      /\ SumFunctionOnSet(Replies(A \o C), both)
           = SumFunctionOnSet(Replies(A), S) + SumFunctionOnSet(Replies(C), T)
  <2>1. /\ Len(A) \in Nat /\ S \in SUBSET (1 .. Len(A)) /\ T \in SUBSET (Nat \ {0})
        /\ IsFiniteSet(S) /\ IsFiniteSet(T)
    BY <1>1, MessagesTyped
  <2>2. /\ \A i \in S : Tokens(A)[i] \in Int /\ Tokens(A \o C)[i] = Tokens(A)[i]
        /\ \A i \in T : Tokens(C)[i] \in Int /\ Tokens(A \o C)[i + Len(A)] = Tokens(C)[i]
    BY <1>5
  <2>3. /\ \A i \in S : Replies(A)[i] \in Int /\ Replies(A \o C)[i] = Replies(A)[i]
        /\ \A i \in T : Replies(C)[i] \in Int /\ Replies(A \o C)[i + Len(A)] = Replies(C)[i]
    BY <1>5
  <2>4. SumFunctionOnSet(Tokens(A \o C), both)
          = SumFunctionOnSet(Tokens(A), S) + SumFunctionOnSet(Tokens(C), T)
    BY <2>1, <2>2, SumOfJoined
  <2>5. SumFunctionOnSet(Replies(A \o C), both)
          = SumFunctionOnSet(Replies(A), S) + SumFunctionOnSet(Replies(C), T)
    BY <2>1, <2>3, SumOfJoined
  <2> QED
    BY <2>4, <2>5
<1> HIDE DEF both
<1>7. /\ Usage(A, S).input = SumFunctionOnSet(Tokens(A), S)
      /\ Usage(A, S).output = SumFunctionOnSet(Replies(A), S)
      /\ Usage(C, T).input = SumFunctionOnSet(Tokens(C), T)
      /\ Usage(C, T).output = SumFunctionOnSet(Replies(C), T)
  BY UsageTyped
<1>8. Usage(A \o C, both) = [input  |-> SumFunctionOnSet(Tokens(A \o C), both),
                             output |-> SumFunctionOnSet(Replies(A \o C), both)]
  BY <1>2, <1>3, UsageTyped
<1> QED
  BY <1>6, <1>7, <1>8 DEF both

-----------------------------------------------------------------------------
\* The price of every model in use is known, whatever model it is.
LEMMA PriceKnown ==
  ASSUME NEW table \in Tables, Usable(table), NEW model
  PROVE  GetModelPrice(table, model).input \in Nat /\ GetModelPrice(table, model).output \in Nat
<1>1. table # None /\ DEFAULT_MODEL \in DOMAIN table
  BY DEF Usable
<1>2. GetModelPrice(table, model) \in Prices
  BY <1>1, OutcomeAssumption DEF GetModelPrice
<1> QED
  BY <1>2 DEF Prices

\* The messages of a model.
Group(M, model) == KeyedBy(M, SpokenBy(M), model)

LEMMA GroupTyped ==
  ASSUME NEW M \in Seq(Messages)
  PROVE  /\ DOMAIN SpokenBy(M) = DOMAIN M
         /\ \A i \in DOMAIN M : SpokenBy(M)[i] = ModelOf(M[i].side)
         /\ \A model : Group(M, model) \in SUBSET DOMAIN M
         /\ \A model : Group(M, model) = {i \in DOMAIN M : ModelOf(M[i].side) = model}
         /\ \A model : model \in Range(SpokenBy(M)) <=> Group(M, model) # {}
<1>1. DOMAIN SpokenBy(M) = DOMAIN M /\ \A i \in DOMAIN M : SpokenBy(M)[i] = ModelOf(M[i].side)
  BY DEF SpokenBy
<1>2. \A model : Group(M, model) = {i \in DOMAIN M : ModelOf(M[i].side) = model}
  BY <1>1 DEF Group, KeyedBy
<1>3. \A model : model \in Range(SpokenBy(M)) <=> \E i \in DOMAIN M : ModelOf(M[i].side) = model
  BY <1>1 DEF Range
<1>4. \A model : model \in Range(SpokenBy(M)) <=> Group(M, model) # {}
  <2> TAKE model
  <2>1. Group(M, model) = {i \in DOMAIN M : ModelOf(M[i].side) = model}
    BY <1>2
  <2>2. Group(M, model) # {} <=> \E i \in DOMAIN M : ModelOf(M[i].side) = model
    BY <2>1
  <2> QED
    BY <1>3, <2>2
<1>5. \A model : Group(M, model) \in SUBSET DOMAIN M
  BY DEF Group, KeyedBy
<1> QED
  BY <1>1, <1>2, <1>4, <1>5, Zenon

LEMMA RowsTyped ==
  ASSUME NEW M \in Seq(Messages), NEW table
  PROVE  /\ DOMAIN Rows(M, table) = Range(SpokenBy(M))
         /\ \A model \in Range(SpokenBy(M)) :
              Rows(M, table)[model] = Row(Usage(M, Group(M, model)), GetModelPrice(table, model))
<1>1. /\ DOMAIN PerModelTokens(M) = Range(SpokenBy(M))
      /\ \A model \in Range(SpokenBy(M)) : PerModelTokens(M)[model] = Usage(M, Group(M, model))
  BY DEF PerModelTokens, Grouped, Group, KeyedBy
<1>2. Rows(M, table) = [model \in DOMAIN PerModelTokens(M) |->
                          Row(PerModelTokens(M)[model], GetModelPrice(table, model))]
  BY DEF Rows
<1> QED
  BY <1>1, <1>2

\* A row costs what its messages do.
LEMMA RowCosts ==
  ASSUME NEW M \in Seq(Messages), NEW table \in Tables, Usable(table), NEW model,
         NEW costs, \A i \in DOMAIN M :
           costs[i] = M[i].input * GetModelPrice(table, ModelOf(M[i].side)).input
                      + M[i].output * GetModelPrice(table, ModelOf(M[i].side)).output
  PROVE  RowCost(Row(Usage(M, Group(M, model)), GetModelPrice(table, model)))
           = SumFunctionOnSet(costs, Group(M, model))
<1> DEFINE S == Group(M, model)
           price == GetModelPrice(table, model)
           ins == [i \in DOMAIN M |-> Tokens(M)[i] * price.input]
           outs == [i \in DOMAIN M |-> Replies(M)[i] * price.output]
<1>1. price.input \in Nat /\ price.output \in Nat
  BY PriceKnown
<1>2. S \in SUBSET DOMAIN M /\ IsFiniteSet(S) /\ \A i \in S : ModelOf(M[i].side) = model
  BY GroupTyped, MessagesTyped
<1>3. \A i \in S : /\ M[i].input \in Nat /\ M[i].output \in Nat
                   /\ Tokens(M)[i] = M[i].input /\ Replies(M)[i] = M[i].output
  BY <1>2, MessagesTyped
<1> HIDE DEF S, price
<1>4. \A i \in S : /\ Tokens(M)[i] \in Int /\ ins[i] = Tokens(M)[i] * price.input
                   /\ Replies(M)[i] \in Int /\ outs[i] = Replies(M)[i] * price.output
                   /\ ins[i] \in Int /\ outs[i] \in Int
  BY <1>1, <1>2, <1>3
<1>5. \A i \in S : costs[i] = ins[i] + outs[i]
  <2> TAKE i \in S
  <2>1. costs[i] = M[i].input * price.input + M[i].output * price.output
    BY <1>2 DEF price
  <2> QED
    BY <1>3, <1>4, <2>1
<1> HIDE DEF ins, outs
<1>6. SumFunctionOnSet(costs, S) = SumFunctionOnSet(ins, S) + SumFunctionOnSet(outs, S)
  BY <1>2, <1>4, <1>5, SumOfSums
<1>7. SumFunctionOnSet(ins, S) = SumFunctionOnSet(Tokens(M), S) * price.input
  BY <1>1, <1>2, <1>4, SumOfMultiples
<1>8. SumFunctionOnSet(outs, S) = SumFunctionOnSet(Replies(M), S) * price.output
  BY <1>1, <1>2, <1>4, SumOfMultiples
<1>9. Usage(M, S) = [input |-> SumFunctionOnSet(Tokens(M), S),
                     output |-> SumFunctionOnSet(Replies(M), S)]
  BY <1>2, UsageTyped
<1>10. RowCost(Row(Usage(M, S), price))
         = SumFunctionOnSet(Tokens(M), S) * price.input + SumFunctionOnSet(Replies(M), S) * price.output
  BY <1>9 DEF RowCost, Row
<1> QED
  BY <1>6, <1>7, <1>8, <1>10 DEF S, price

\* The breakdown adds up to its messages.
LEMMA BreakdownAddsUp ==
  ASSUME NEW M \in Seq(Messages), NEW table \in Tables, Usable(table), NEW costs,
         \A i \in DOMAIN M :
           costs[i] = M[i].input * GetModelPrice(table, ModelOf(M[i].side)).input
                      + M[i].output * GetModelPrice(table, ModelOf(M[i].side)).output
  PROVE  LET b == CostBreakdownFromResult(M, table)
         IN  /\ b.input = SumFunctionOnSet(Tokens(M), DOMAIN M)
             /\ b.output = SumFunctionOnSet(Replies(M), DOMAIN M)
             /\ b.cost = SumFunctionOnSet(costs, DOMAIN M)
<1> DEFINE rows == Rows(M, table)
           key == SpokenBy(M)
           inputs == [model \in DOMAIN rows |-> rows[model].input]
           outputs == [model \in DOMAIN rows |-> rows[model].output]
           spent == [model \in DOMAIN rows |-> RowCost(rows[model])]
<1>1. DOMAIN key = DOMAIN M /\ DOMAIN rows = Range(key)
  BY GroupTyped, RowsTyped
<1>2. \A model \in Range(key) :
        rows[model] = Row(Usage(M, Group(M, model)), GetModelPrice(table, model))
  BY RowsTyped
<1>3. \A model \in Range(key) :
        /\ rows[model].input = SumFunctionOnSet(Tokens(M), Group(M, model))
        /\ rows[model].output = SumFunctionOnSet(Replies(M), Group(M, model))
  <2> TAKE model \in Range(key)
  <2>1. Usage(M, Group(M, model)) = [input |-> SumFunctionOnSet(Tokens(M), Group(M, model)),
                                     output |-> SumFunctionOnSet(Replies(M), Group(M, model))]
    BY GroupTyped, UsageTyped
  <2>2. rows[model] = Row(Usage(M, Group(M, model)), GetModelPrice(table, model))
    BY <1>2
  <2> HIDE DEF rows
  <2> QED
    BY <2>1, <2>2 DEF Row
<1>4. \A model \in Range(key) : RowCost(rows[model]) = SumFunctionOnSet(costs, Group(M, model))
  BY <1>2, RowCosts
<1>5. \A i \in DOMAIN M : Tokens(M)[i] \in Int /\ Replies(M)[i] \in Int /\ costs[i] \in Int
  <2> TAKE i \in DOMAIN M
  <2>1. /\ Tokens(M)[i] \in Nat /\ Replies(M)[i] \in Nat
        /\ M[i].input = Tokens(M)[i] /\ M[i].output = Replies(M)[i]
    BY MessagesTyped
  <2> DEFINE price == GetModelPrice(table, ModelOf(M[i].side))
  <2>2. price.input \in Nat /\ price.output \in Nat
    BY PriceKnown
  <2>3. costs[i] = Tokens(M)[i] * price.input + Replies(M)[i] * price.output
    BY <2>1
  <2> HIDE DEF price
  <2> QED
    BY <2>1, <2>2, <2>3
<1>6. /\ DOMAIN inputs = Range(key) /\ DOMAIN outputs = Range(key) /\ DOMAIN spent = Range(key)
      /\ \A k \in Range(key) : /\ inputs[k] = SumFunctionOnSet(Tokens(M), KeyedBy(M, key, k))
                               /\ outputs[k] = SumFunctionOnSet(Replies(M), KeyedBy(M, key, k))
                               /\ spent[k] = SumFunctionOnSet(costs, KeyedBy(M, key, k))
  BY <1>1, <1>3, <1>4 DEF Group
<1>7. CostBreakdownFromResult(M, table) =
        [rows |-> rows, input |-> SumFunction(inputs), output |-> SumFunction(outputs),
         cost |-> SumFunction(spent)]
  BY DEF CostBreakdownFromResult, FromRows
<1> HIDE DEF rows, key, inputs, outputs, spent
<1>8. SumFunction(inputs) = SumFunctionOnSet(Tokens(M), DOMAIN M)
  BY <1>1, <1>5, <1>6, GroupsAddUp
<1>9. SumFunction(outputs) = SumFunctionOnSet(Replies(M), DOMAIN M)
  BY <1>1, <1>5, <1>6, GroupsAddUp
<1>10. SumFunction(spent) = SumFunctionOnSet(costs, DOMAIN M)
  BY <1>1, <1>5, <1>6, GroupsAddUp
<1> QED
  BY <1>7, <1>8, <1>9, <1>10

-----------------------------------------------------------------------------
LEMMA JoinedGroup ==
  ASSUME NEW A \in Seq(Messages), NEW C \in Seq(Messages), NEW model
  PROVE  Group(A \o C, model) = Group(A, model) \cup Moved(Group(C, model), Len(A))
<1>1. /\ DOMAIN A = 1 .. Len(A) /\ Len(A) \in Nat /\ DOMAIN C = 1 .. Len(C) /\ Len(C) \in Nat
  BY MessagesTyped
<1>2. /\ A \o C \in Seq(Messages) /\ DOMAIN (A \o C) = 1 .. Len(A) + Len(C)
      /\ \A i \in DOMAIN A : (A \o C)[i] = A[i]
      /\ \A i \in DOMAIN C : (A \o C)[i + Len(A)] = C[i]
  BY <1>1
<1> DEFINE AC == A \o C
<1>3. /\ Group(AC, model) = {i \in DOMAIN AC : ModelOf(AC[i].side) = model}
      /\ Group(A, model) = {i \in DOMAIN A : ModelOf(A[i].side) = model}
      /\ Group(C, model) = {i \in DOMAIN C : ModelOf(C[i].side) = model}
  <2>1. Group(AC, model) = {i \in DOMAIN AC : ModelOf(AC[i].side) = model}
    BY <1>2, GroupTyped
  <2>2. Group(A, model) = {i \in DOMAIN A : ModelOf(A[i].side) = model}
    BY GroupTyped
  <2>3. Group(C, model) = {i \in DOMAIN C : ModelOf(C[i].side) = model}
    BY GroupTyped
  <2> QED
    BY <2>1, <2>2, <2>3
<1>4. ASSUME NEW i \in Group(AC, model) PROVE i \in Group(A, model) \cup Moved(Group(C, model), Len(A))
  <2>1. i \in 1 .. Len(A) + Len(C) /\ ModelOf(AC[i].side) = model
    BY <1>2, <1>3
  <2>2. CASE i <= Len(A)
    BY <1>1, <1>2, <1>3, <2>1, <2>2
  <2>3. CASE i > Len(A)
    <3>1. i - Len(A) \in DOMAIN C /\ (i - Len(A)) + Len(A) = i
      BY <1>1, <2>1, <2>3
    <3>2. i - Len(A) \in Group(C, model)
      BY <1>2, <1>3, <2>1, <3>1
    <3> QED
      BY <3>1, <3>2 DEF Moved
  <2> QED
    BY <1>1, <2>1, <2>2, <2>3
<1>5. ASSUME NEW i \in Group(A, model) PROVE i \in Group(AC, model)
  BY <1>1, <1>2, <1>3
<1>6. ASSUME NEW i \in Moved(Group(C, model), Len(A)) PROVE i \in Group(AC, model)
  <2>1. PICK j \in Group(C, model) : i = j + Len(A)
    BY DEF Moved
  <2>2. j \in DOMAIN C /\ ModelOf(C[j].side) = model
    BY <1>3
  <2>3. i \in DOMAIN AC /\ AC[i] = C[j]
    BY <1>1, <1>2, <2>1, <2>2
  <2> QED
    BY <1>3, <2>2, <2>3
<1> QED
  BY <1>4, <1>5, <1>6

\* Two breakdowns of two parts of a run pool to that of the whole.
LEMMA BreakdownsPool ==
  ASSUME NEW A \in Seq(Messages), NEW C \in Seq(Messages), NEW table \in Tables, Usable(table)
  PROVE  CostBreakdownFromResult(A \o C, table)
           = AggregateCosts(CostBreakdownFromResult(A, table), CostBreakdownFromResult(C, table))
<1> DEFINE AC == A \o C
           pooled == [model \in DOMAIN Rows(A, table) \cup DOMAIN Rows(C, table) |->
                        IF model \notin DOMAIN Rows(C, table) THEN Rows(A, table)[model]
                        ELSE IF model \notin DOMAIN Rows(A, table) THEN Rows(C, table)[model]
                        ELSE AddRows(Rows(A, table)[model], Rows(C, table)[model])]
<1>1. AC \in Seq(Messages)
  BY ConcatProperties
<1>2. /\ CostBreakdownFromResult(AC, table) = FromRows(Rows(AC, table))
      /\ CostBreakdownFromResult(A, table).rows = Rows(A, table)
      /\ CostBreakdownFromResult(C, table).rows = Rows(C, table)
  BY DEF CostBreakdownFromResult, FromRows
<1>3. AggregateCosts(CostBreakdownFromResult(A, table), CostBreakdownFromResult(C, table))
        = FromRows(pooled)
  BY <1>2 DEF AggregateCosts
<1>4. \A model : /\ model \in DOMAIN Rows(A, table) <=> Group(A, model) # {}
                 /\ model \in DOMAIN Rows(C, table) <=> Group(C, model) # {}
                 /\ model \in DOMAIN Rows(AC, table) <=> Group(AC, model) # {}
  BY <1>1, GroupTyped, RowsTyped
<1>5. \A model : Group(AC, model) = Group(A, model) \cup Moved(Group(C, model), Len(A))
  BY JoinedGroup
<1>6. \A model : Moved(Group(C, model), Len(A)) = {} <=> Group(C, model) = {}
  BY DEF Moved
<1>7. DOMAIN pooled = DOMAIN Rows(AC, table)
  <2>1. \A model : model \in DOMAIN pooled <=> model \in DOMAIN Rows(AC, table)
    BY <1>4, <1>5, <1>6
  <2> HIDE DEF pooled, AC
  <2> QED
    BY <2>1
<1>8. ASSUME NEW model \in DOMAIN pooled PROVE pooled[model] = Rows(AC, table)[model]
  <2> DEFINE price == GetModelPrice(table, model)
             a == Usage(A, Group(A, model))
             c == Usage(C, Group(C, model))
             ac == Usage(AC, Group(AC, model))
  <2>1. Rows(AC, table)[model] = Row(ac, price)
    BY <1>1, <1>7, RowsTyped
  <2>2. /\ model \in DOMAIN Rows(A, table) => Rows(A, table)[model] = Row(a, price)
        /\ model \in DOMAIN Rows(C, table) => Rows(C, table)[model] = Row(c, price)
    BY RowsTyped
  <2>3. price.input \in Nat /\ price.output \in Nat
    BY PriceKnown
  <2>4. Group(A, model) \in SUBSET DOMAIN A /\ Group(C, model) \in SUBSET DOMAIN C
    BY GroupTyped
  <2>5. /\ a = [input |-> SumFunctionOnSet(Tokens(A), Group(A, model)),
                output |-> SumFunctionOnSet(Replies(A), Group(A, model))]
        /\ c = [input |-> SumFunctionOnSet(Tokens(C), Group(C, model)),
                output |-> SumFunctionOnSet(Replies(C), Group(C, model))]
        /\ a.input \in Nat /\ a.output \in Nat /\ c.input \in Nat /\ c.output \in Nat
    <3>1. /\ SumFunctionOnSet(Tokens(A), Group(A, model)) \in Nat
          /\ SumFunctionOnSet(Replies(A), Group(A, model)) \in Nat
          /\ a = [input |-> SumFunctionOnSet(Tokens(A), Group(A, model)),
                  output |-> SumFunctionOnSet(Replies(A), Group(A, model))]
      BY <2>4, UsageTyped
    <3>2. /\ SumFunctionOnSet(Tokens(C), Group(C, model)) \in Nat
          /\ SumFunctionOnSet(Replies(C), Group(C, model)) \in Nat
          /\ c = [input |-> SumFunctionOnSet(Tokens(C), Group(C, model)),
                  output |-> SumFunctionOnSet(Replies(C), Group(C, model))]
      BY <2>4, UsageTyped
    <3> HIDE DEF a, c
    <3> QED
      BY <3>1, <3>2
  <2>6. ac = [input |-> a.input + c.input, output |-> a.output + c.output]
    <3>1. Usage(AC, Group(A, model) \cup Moved(Group(C, model), Len(A)))
            = [input |-> a.input + c.input, output |-> a.output + c.output]
      BY <2>4, JoinedUsage
    <3> QED
      BY <1>5, <3>1
  <2>7. /\ Group(A, model) = {} => a.input = 0 /\ a.output = 0
        /\ Group(C, model) = {} => c.input = 0 /\ c.output = 0
    <3>1. /\ SumFunctionOnSet(Tokens(A), {}) = 0 /\ SumFunctionOnSet(Replies(A), {}) = 0
          /\ SumFunctionOnSet(Tokens(C), {}) = 0 /\ SumFunctionOnSet(Replies(C), {}) = 0
      BY SumOfNone
    <3> HIDE DEF a, c
    <3> QED
      BY <2>5, <3>1
  <2>8. pooled[model] =
          IF model \notin DOMAIN Rows(C, table) THEN Rows(A, table)[model]
          ELSE IF model \notin DOMAIN Rows(A, table) THEN Rows(C, table)[model]
          ELSE AddRows(Rows(A, table)[model], Rows(C, table)[model])
    OBVIOUS
  <2>9. model \in DOMAIN Rows(A, table) \/ model \in DOMAIN Rows(C, table)
    OBVIOUS
  <2>10. \A x, y, p \in Nat : (x + y) * p = x * p + y * p
    OBVIOUS
  <2> HIDE DEF price, a, c, ac, pooled, AC
  <2>11. CASE Group(C, model) = {}
    <3>1. pooled[model] = Row(a, price)
      BY <1>4, <2>2, <2>8, <2>9, <2>11
    <3>2. ac.input = a.input /\ ac.output = a.output
      BY <2>5, <2>6, <2>7, <2>11
    <3> QED
      BY <2>1, <3>1, <3>2 DEF Row
  <2>12. CASE Group(C, model) # {} /\ Group(A, model) = {}
    <3>1. pooled[model] = Row(c, price)
      BY <1>4, <2>2, <2>8, <2>12
    <3>2. ac.input = c.input /\ ac.output = c.output
      BY <2>5, <2>6, <2>7, <2>12
    <3> QED
      BY <2>1, <3>1, <3>2 DEF Row
  <2>13. CASE Group(C, model) # {} /\ Group(A, model) # {}
    <3>1. pooled[model] = AddRows(Row(a, price), Row(c, price))
      BY <1>4, <2>2, <2>8, <2>13
    <3>2. ac.input = a.input + c.input /\ ac.output = a.output + c.output
      BY <2>6
    <3>3. /\ a.input * price.input + c.input * price.input = ac.input * price.input
          /\ a.output * price.output + c.output * price.output = ac.output * price.output
      BY <2>3, <2>5, <2>10, <3>2
    <3> QED
      BY <2>1, <3>1, <3>2, <3>3 DEF Row, AddRows
  <2> QED
    BY <2>11, <2>12, <2>13
<1>9. Rows(AC, table) = [model \in DOMAIN Rows(AC, table) |-> Rows(AC, table)[model]]
  BY DEF Rows
<1>10. pooled = [model \in DOMAIN pooled |-> pooled[model]]
  OBVIOUS
<1>11. pooled = Rows(AC, table)
  <2> HIDE DEF pooled, AC
  <2> QED
    BY <1>7, <1>8, <1>9, <1>10
<1> QED
  BY <1>2, <1>3, <1>11

-----------------------------------------------------------------------------
OutcomePriced(table) ==
  [totals |-> CostTotals(Spoken), table |-> table,
   cost_breakdown |-> CostBreakdownFromResult(Spoken, table)]

\* The result is what its turns and one price table make of it, and the alert
\* what its cost does.
PricedInStep ==
  /\ stage \in {"budget", "done"} => \E table \in Tables : Usable(table) /\ result = OutcomePriced(table)
  /\ stage \notin {"budget", "done"} => result = None
  /\ stage = "done" => alert = CheckBudget(result.cost_breakdown.cost, config.budget_usd)
  /\ stage # "done" => ~alert
  /\ stage \in {"price", "budget", "done", "lost"} => (verdict = None <=> Answered = {})

\* What any table charges for what was said adds up.
LEMMA PricedAddsUp ==
  ASSUME Spoken \in Seq(Messages), transcript \in Seq(Messages), closing \in Seq(Messages),
         NEW table \in Tables, Usable(table), result = OutcomePriced(table)
  PROVE  MoneyAddsUp /\ result.cost_breakdown.cost = Costs(Spoken)
<1> DEFINE b == result.cost_breakdown
           t == result.totals
           costs == [i \in DOMAIN Spoken |-> CostOf(Spoken[i])]
<1>1. /\ result.table = table /\ t = CostTotals(Spoken)
      /\ b = CostBreakdownFromResult(Spoken, table)
  BY DEF OutcomePriced
<1>2. \A i \in DOMAIN Spoken :
        costs[i] = Spoken[i].input * GetModelPrice(table, ModelOf(Spoken[i].side)).input
                   + Spoken[i].output * GetModelPrice(table, ModelOf(Spoken[i].side)).output
  BY <1>1 DEF CostOf, PriceOf
<1>3. Costs(Spoken) = SumFunctionOnSet(costs, DOMAIN Spoken)
  BY DEF Costs, SumFunction
<1> HIDE DEF costs
<1>4. /\ CostBreakdownFromResult(Spoken, table).input = SumFunctionOnSet(Tokens(Spoken), DOMAIN Spoken)
      /\ CostBreakdownFromResult(Spoken, table).output = SumFunctionOnSet(Replies(Spoken), DOMAIN Spoken)
      /\ CostBreakdownFromResult(Spoken, table).cost = SumFunctionOnSet(costs, DOMAIN Spoken)
  BY <1>2, BreakdownAddsUp
<1>5. Usage(Spoken, DOMAIN Spoken) =
        [input |-> SumFunctionOnSet(Tokens(Spoken), DOMAIN Spoken),
         output |-> SumFunctionOnSet(Replies(Spoken), DOMAIN Spoken)]
  BY UsageTyped
<1>6. b.cost = Costs(Spoken)
  BY <1>1, <1>3, <1>4
<1>7. t.usage = Usage(Spoken, DOMAIN Spoken)
  BY <1>1 DEF CostTotals
<1>8. [input |-> b.input, output |-> b.output] = t.usage
  BY <1>1, <1>4, <1>5, <1>7
<1> DEFINE All(grouped) == [input  |-> SumFunction([k \in DOMAIN grouped |-> grouped[k].input]),
                            output |-> SumFunction([k \in DOMAIN grouped |-> grouped[k].output])]
<1>9. All(t.by_agent) = t.usage
  <2> DEFINE key == [i \in DOMAIN Spoken |-> Spoken[i].side]
  <2>1. t.by_agent = Grouped(Spoken, key)
    BY <1>1 DEF CostTotals
  <2>2. DOMAIN key = DOMAIN Spoken
    OBVIOUS
  <2> HIDE DEF key, t
  <2> QED
    BY <1>7, <2>1, <2>2, GroupedAddsUp
<1>10. All(t.by_round) = t.usage
  <2> DEFINE key == [i \in DOMAIN Spoken |-> Spoken[i].round]
  <2>1. t.by_round = Grouped(Spoken, key)
    BY <1>1 DEF CostTotals
  <2>2. DOMAIN key = DOMAIN Spoken
    OBVIOUS
  <2> HIDE DEF key, t
  <2> QED
    BY <1>7, <2>1, <2>2, GroupedAddsUp
<1>11. b = AggregateCosts(CostBreakdownFromResult(transcript, table),
                          CostBreakdownFromResult(closing, table))
  BY <1>1, BreakdownsPool DEF Spoken
<1> HIDE DEF b, t
<1>12. MoneyAddsUp
  BY <1>1, <1>6, <1>8, <1>9, <1>10, <1>11 DEF MoneyAddsUp, b, t
<1> QED
  BY <1>6, <1>12 DEF b

LEMMA PricedUnchanged ==
  ASSUME UNCHANGED <<config, transcript, closing>>
  PROVE  Spoken' = Spoken /\ Answered' = Answered
         /\ \A table : OutcomePriced(table)' = OutcomePriced(table)
<1>1. Spoken' = Spoken
  BY DEF Spoken
<1>2. Answered' = Answered
  BY <1>1 DEF Answered
<1>3. SpokenBy(Spoken)' = SpokenBy(Spoken)
  BY <1>1 DEF SpokenBy, ModelOf
<1>4. PerModelTokens(Spoken)' = PerModelTokens(Spoken)
  BY <1>1, <1>3 DEF PerModelTokens, Grouped, Usage
<1>5. CostTotals(Spoken)' = CostTotals(Spoken)
  BY <1>1 DEF CostTotals, Grouped, Usage
<1>6. \A table : Rows(Spoken, table)' = Rows(Spoken, table)
  BY <1>4 DEF Rows, Row, GetModelPrice
<1>7. \A table : CostBreakdownFromResult(Spoken, table)' = CostBreakdownFromResult(Spoken, table)
  BY <1>6 DEF CostBreakdownFromResult, FromRows, RowCost
<1> QED
  BY <1>1, <1>2, <1>5, <1>7 DEF OutcomePriced

LEMMA PricedStep ==
  ASSUME OInv, PricedInStep, OutcomeNext \/ UNCHANGED outcomeVars
  PROVE  PricedInStep'
<1>1. CASE Argue \/ FailTurn \/ GiveClosing \/ SkipClosing
  <2>1. stage \in {"turn", "closing"} /\ stage' \in {"turn", "closing", "judge"}
        /\ UNCHANGED <<result, alert>>
    BY <1>1 DEF Argue, FailTurn, GiveClosing, SkipClosing, NextSlot
  <2> QED
    BY <2>1 DEF PricedInStep
<1>2. CASE RenderLoopVerdict
  <2>1. /\ stage = "judge" /\ stage' = "price"
        /\ verdict' = IF Answered = {} THEN None ELSE BuildVerdict(Spoken)
        /\ UNCHANGED <<config, transcript, closing, result, alert>>
    BY <1>2 DEF RenderLoopVerdict
  <2>2. BuildVerdict(Spoken) # None
    BY SpokenTyped, VerdictTyped, OutcomeAssumption DEF OInv
  <2>3. Answered' = Answered
    BY <2>1, PricedUnchanged
  <2> QED
    BY <2>1, <2>2, <2>3 DEF PricedInStep
<1>3. CASE PriceResult
  <2>1. PICK table \in Tables : Usable(table) /\ result' = OutcomePriced(table)
    BY <1>3 DEF PriceResult, OutcomePriced
  <2>2. /\ stage = "price" /\ stage' = "budget"
        /\ UNCHANGED <<config, transcript, closing, verdict, alert>>
    BY <1>3 DEF PriceResult
  <2>3. Answered' = Answered /\ OutcomePriced(table)' = OutcomePriced(table)
    BY <2>2, PricedUnchanged
  <2>4. Usable(table)'
    BY <2>1 DEF Usable
  <2> QED
    BY <2>1, <2>2, <2>3, <2>4 DEF PricedInStep
<1>4. CASE FailToPrice
  <2>1. /\ stage = "price" /\ stage' = "lost"
        /\ UNCHANGED <<config, transcript, closing, verdict, result, alert>>
    BY <1>4 DEF FailToPrice
  <2>2. Answered' = Answered
    BY <2>1, PricedUnchanged
  <2> QED
    BY <2>1, <2>2 DEF PricedInStep
<1>5. CASE CheckRunBudget \/ UNCHANGED outcomeVars
  <2>1. UNCHANGED <<config, transcript, closing, verdict, result>>
    BY <1>5 DEF CheckRunBudget, outcomeVars
  <2>2. Answered' = Answered /\ \A table : OutcomePriced(table)' = OutcomePriced(table)
    BY <2>1, PricedUnchanged
  <2>3. CASE CheckRunBudget
    <3>1. /\ stage = "budget" /\ stage' = "done"
          /\ alert' = CheckBudget(result.cost_breakdown.cost, config.budget_usd)
      BY <2>3 DEF CheckRunBudget
    <3>2. PICK table \in Tables : Usable(table) /\ result = OutcomePriced(table)
      BY <3>1 DEF PricedInStep
    <3>3. Usable(table)' /\ result' = OutcomePriced(table)'
      BY <2>1, <2>2, <3>2 DEF Usable
    <3>4. alert' = CheckBudget(result'.cost_breakdown.cost, config'.budget_usd)
      BY <2>1, <3>1
    <3>5. (verdict = None <=> Answered = {})'
      BY <2>1, <2>2, <3>1 DEF PricedInStep
    <3> QED
      BY <3>1, <3>3, <3>4, <3>5 DEF PricedInStep, CheckBudget
  <2>4. CASE UNCHANGED outcomeVars
    <3>1. UNCHANGED <<stage, alert>>
      BY <2>4 DEF outcomeVars
    <3>2. stage \in {"budget", "done"} =>
            \E table \in Tables : Usable(table)' /\ result' = OutcomePriced(table)'
      <4> SUFFICES ASSUME stage \in {"budget", "done"}
                   PROVE  \E table \in Tables : Usable(table)' /\ result' = OutcomePriced(table)'
        OBVIOUS
      <4>1. PICK table \in Tables : Usable(table) /\ result = OutcomePriced(table)
        BY DEF PricedInStep
      <4>2. Usable(table)' /\ result' = OutcomePriced(table)'
        BY <2>1, <2>2, <4>1 DEF Usable
      <4> QED
        BY <4>2
    <3> QED
      BY <2>1, <2>2, <3>1, <3>2 DEF PricedInStep, CheckBudget
  <2> QED
    BY <1>5, <2>3, <2>4
<1> QED
  BY <1>1, <1>2, <1>3, <1>4, <1>5 DEF OutcomeNext, OutcomeOver

LEMMA MoneyInvariance == OutcomeSpec => [](OInv /\ PricedInStep)
<1>1. OutcomeInit => PricedInStep
  BY DEF OutcomeInit, PricedInStep
<1>2. OInv /\ PricedInStep /\ [OutcomeNext]_outcomeVars => PricedInStep'
  BY PricedStep
<1> QED
  BY <1>1, <1>2, OutcomeInvariance, PTL DEF OutcomeSpec

LEMMA MoneyState == OInv /\ PricedInStep => MoneyIsTold
<1> SUFFICES ASSUME OInv, PricedInStep PROVE MoneyIsTold
  OBVIOUS
<1>1. Spoken \in Seq(Messages) /\ transcript \in Seq(Messages) /\ closing \in Seq(Messages)
  BY SpokenTyped DEF OInv
<1>2. CASE stage \in {"budget", "done"}
  <2>1. PICK table \in Tables : Usable(table) /\ result = OutcomePriced(table)
    BY <1>2 DEF PricedInStep
  <2>2. MoneyAddsUp /\ result.cost_breakdown.cost = Costs(Spoken)
    BY <1>1, <2>1, PricedAddsUp
  <2>3. stage = "done" =>
          (alert <=> config.budget_usd > 0 /\ Costs(Spoken) > config.budget_usd)
    BY <2>2 DEF PricedInStep, CheckBudget
  <2> QED
    BY <1>2, <2>2, <2>3 DEF MoneyIsTold, OverrunIsTold
<1>3. CASE stage \notin {"budget", "done"}
  BY <1>3 DEF PricedInStep, MoneyIsTold, MoneyAddsUp, OverrunIsTold
<1> QED
  BY <1>2, <1>3

-----------------------------------------------------------------------------
\* Every variable of a run's outcome ranges over what the code keeps in it,
\* for any number of rounds and any arguments.
THEOREM OutcomeTypeCorrect == OutcomeSpec => []OutcomeTypeOK
  BY OutcomeInvariance, PTL DEF OInv

\* The judge favours neither side, whatever was said in however many rounds
\* (_verdict_logic.py:105-133).
THEOREM NeutralSafe == OutcomeSpec => []VerdictIsNeutral
  BY NeutralState, OutcomeInvariance, PTL

\* Agreement the verdict counts is agreement the run corrected, but for the
\* closing statements (_drift_constants.py:16-40, _verdict_constants.py:58-67).
THEOREM CorrectedSafe == OutcomeSpec => []AgreementWasCorrected
  BY ConvergedState, OutcomeInvariance, PTL

\* Speaking never costs a side its lead (_verdict_logic.py:83-102).
THEOREM LeadSafe == OutcomeSpec => SpeakingKeepsTheLead
<1>1. OInv /\ [OutcomeNext]_outcomeVars =>
        [LET said == Last(Spoken')
         IN  Answered # {} /\ Answered' # Answered /\ said.side = Leader
               => Leader' = Leader]_outcomeVars
  BY LeadStep
<1> QED
  BY <1>1, OutcomeInvariance, PTL DEF OutcomeSpec, SpeakingKeepsTheLead

\* The result charges every turn once, at the price of the model that spoke, for
\* any turns and any price table: totals, breakdowns and cost table add up to the
\* messages, the parts of a run pool to the whole, and an overrun is told exactly
\* when there is one (breakdown.py:69-137, _cost.py:24-52, _budget.py:22-47).
THEOREM MoneySafe == OutcomeSpec => []MoneyIsTold
  BY MoneyState, MoneyInvariance, PTL
=============================================================================
