--------------------------- MODULE TurnCallProofs ----------------------------
(***************************************************************************)
(* Theorems about the bounded model calls of a run, for any number of      *)
(* turns and retries, any cap, window and queue depth.                     *)
(***************************************************************************)
EXTENDS TurnCall, FiniteSetTheorems, SequenceTheorems, TLAPS

-----------------------------------------------------------------------------
(* The inductive invariant *)

Running == phase \in {"attempting", "joining", "joined", "sleeping"}
Waiting == phase \in {"joining", "joined"}

(* A worker's cells are empty until it finishes, and then hold its own     *)
(* value, None, or an exception.                                           *)
CellsAreOwn ==
  \A w \in Workers :
    /\ thread[w] # "finished" => box[w] = Unset /\ error[w] = NoError
    /\ thread[w] = "finished" => box[w] \in {w, None} \/ error[w] # NoError

(* The worker of an attempt not made yet does not exist.                   *)
NotStartedAhead ==
  /\ \A w \in Workers :
       \/ w[1] > turn
       \/ w[1] = turn /\ w[2] > retries + 1
       => thread[w] = "new"
  /\ phase \in {"attempting", "sleeping"} => thread[Current] = "new"

(* A worker that still runs is the one being waited for or a late one.     *)
OthersAreLate ==
  \A w \in Workers : thread[w] \in {"started", "executing"} =>
    w \in late \/ (Waiting /\ w = Current)

(* A late worker was started, and so was the one being waited for, which is *)
(* not late.                                                               *)
LateIsBehind ==
  /\ \A w \in late : thread[w] # "new"
  /\ Waiting => Current \notin late /\ thread[Current] # "new"

(* A turn is pending until the turn thread is past it.                     *)
Progress ==
  /\ Running => \A t \in turn .. Turns : outcome[t] = "pending"
  /\ phase = "done" => turn = Turns

(* The events of the turns: a retry event per retry, a failure event last. *)
LogTells ==
  /\ \A t \in turn + 1 .. Turns : log[t] = <<>>
  /\ outcome[turn] = "pending" =>
       Logged(turn, "retry") = retries /\ Logged(turn, "turn_failed") = 0

(* Every attempt of the turn that was given up on was late or raised a     *)
(* transient error.                                                        *)
AttemptsSpent ==
  Running => \A a \in 1 .. retries :
    <<turn, a>> \in late \/ error[<<turn, a>>] \in Transient

(* The late workers hold every slot, or the window was filled.             *)
Starved == Cardinality(late) >= ConcurrentMax \/ admitted >= PerMinute

(* The call waited for is queued only when the gatekeeper was starved.     *)
NoneWhenStarved ==
  Waiting /\ thread[Current] = "finished" /\ box[Current] = None => Starved

IInv ==
  /\ TypeOK /\ CellsAreOwn /\ NotStartedAhead /\ OthersAreLate /\ LateIsBehind
  /\ Progress /\ LogTells /\ AttemptsSpent /\ NoneWhenStarved
  /\ AnswerIsCurrent /\ FailedOnlyWhenSpent /\ QueuedOnlyWhenStarved

-----------------------------------------------------------------------------
(* Lemmas about the operators of the model *)

Occurs(s, e) == Cardinality({i \in DOMAIN s : s[i] = e})
Events == {"timeout", "retry", "turn_failed"}

LEMMA OccursType ==
  ASSUME NEW S, NEW s \in Seq(S), NEW e
  PROVE  /\ IsFiniteSet({i \in DOMAIN s : s[i] = e})
         /\ Occurs(s, e) \in Nat
<1>1. DOMAIN s = 1 .. Len(s) /\ Len(s) \in Nat
  BY LenProperties
<1>2. IsFiniteSet(1 .. Len(s))
  <2>1. 1 \in Int /\ Len(s) \in Int
    BY <1>1
  <2> QED
    BY <2>1, FS_Interval
<1>3. {i \in DOMAIN s : s[i] = e} \in SUBSET (1 .. Len(s))
  BY <1>1
<1>4. IsFiniteSet({i \in DOMAIN s : s[i] = e})
  BY <1>2, <1>3, FS_Subset
<1> QED
  BY <1>4, FS_CardinalityType DEF Occurs

(* An empty list of events has none of any kind.                           *)
LEMMA OccursEmpty ==
  ASSUME NEW e
  PROVE  Occurs(<<>>, e) = 0
<1>1. {i \in DOMAIN <<>> : <<>>[i] = e} = {}
  OBVIOUS
<1> QED
  BY <1>1, FS_EmptySet DEF Occurs

(* Appending an event adds one to its own kind and nothing to the others.  *)
LEMMA OccursAppend ==
  ASSUME NEW S, NEW s \in Seq(S), NEW x \in S, NEW e
  PROVE  Occurs(Append(s, x), e) = IF x = e THEN Occurs(s, e) + 1 ELSE Occurs(s, e)
<1> DEFINE old == {i \in DOMAIN s : s[i] = e}
           new == {i \in DOMAIN Append(s, x) : Append(s, x)[i] = e}
<1>1. Len(s) \in Nat /\ DOMAIN s = 1 .. Len(s)
  BY LenProperties
<1>2. /\ Append(s, x) \in Seq(S) /\ Len(Append(s, x)) = Len(s) + 1
      /\ \A i \in 1 .. Len(s) : Append(s, x)[i] = s[i]
      /\ Append(s, x)[Len(s) + 1] = x
  BY AppendProperties
<1>3. DOMAIN Append(s, x) = 1 .. Len(s) + 1
  BY <1>2, LenProperties
<1>4. IsFiniteSet(old)
  BY OccursType
<1>5. CASE x = e
  <2>1. new = old \cup {Len(s) + 1}
    BY <1>1, <1>2, <1>3, <1>5
  <2>2. Len(s) + 1 \notin old
    BY <1>1
  <2> QED
    <3> HIDE DEF old, new
    <3>1. Cardinality(new) = Cardinality(old) + 1
      BY <1>4, <2>1, <2>2, FS_AddElement
    <3> QED
      BY <3>1, <1>5 DEF Occurs, old, new
<1>6. CASE x # e
  <2>1. new = old
    BY <1>1, <1>2, <1>3, <1>6
  <2> QED
    BY <2>1, <1>6 DEF Occurs
<1> QED
  BY <1>5, <1>6

(* What Retry and FailTurn append to the events of a turn: one event of    *)
(* the kind they name and no other retry or failure.                       *)
LEMMA EventsOfException ==
  ASSUME NEW s \in Seq(Events), NEW x, NEW last \in {"retry", "turn_failed"}
  PROVE  LET t == s \o TimeoutEvents(x) \o <<last>>
         IN  /\ t \in Seq(Events)
             /\ \A e \in {"retry", "turn_failed"} :
                  Occurs(t, e) = IF last = e THEN Occurs(s, e) + 1 ELSE Occurs(s, e)
<1>1. last \in Events /\ "timeout" \in Events
  BY DEF Events
<1> DEFINE m == s \o TimeoutEvents(x)
<1>2. m \in Seq(Events) /\ \A e \in {"retry", "turn_failed"} : Occurs(m, e) = Occurs(s, e)
  <2>1. CASE x = "TimeoutError"
    <3>1. m = Append(s, "timeout")
      BY <1>1, <2>1, AppendIsConcat DEF TimeoutEvents
    <3>2. Append(s, "timeout") \in Seq(Events)
      BY <1>1, AppendProperties
    <3>3. \A e : Occurs(Append(s, "timeout"), e) =
                   IF "timeout" = e THEN Occurs(s, e) + 1 ELSE Occurs(s, e)
      BY <1>1, OccursAppend
    <3> QED
      BY <3>1, <3>2, <3>3
  <2>2. CASE x # "TimeoutError"
    <3>1. m = s
      BY <2>2, ConcatEmptySeq DEF TimeoutEvents
    <3> QED
      BY <3>1
  <2> QED
    BY <2>1, <2>2
<1> HIDE DEF m
<1>3. m \o <<last>> = Append(m, last)
  BY <1>1, <1>2, AppendIsConcat
<1>4. Append(m, last) \in Seq(Events)
  BY <1>1, <1>2, AppendProperties
<1>5. \A e : Occurs(Append(m, last), e) = IF last = e THEN Occurs(m, e) + 1 ELSE Occurs(m, e)
  BY <1>1, <1>2, OccursAppend
<1>6. \A e \in {"retry", "turn_failed"} :
        Occurs(m \o <<last>>, e) = IF last = e THEN Occurs(s, e) + 1 ELSE Occurs(s, e)
  BY <1>2, <1>3, <1>5
<1>7. m \o <<last>> \in Seq(Events)
  BY <1>3, <1>4
<1> QED
  BY <1>6, <1>7 DEF m

LEMMA WorkersFinite == IsFiniteSet(Workers)
<1>1. /\ 1 \in Int /\ Turns \in Int /\ MaxRetries + 1 \in Int
  BY TurnCallAssumption
<1>2. IsFiniteSet(1 .. Turns) /\ IsFiniteSet(1 .. MaxRetries + 1)
  BY <1>1, FS_Interval
<1> QED
  BY <1>2, FS_Product DEF Workers, Attempts

LEMMA CurrentIsWorker ==
  ASSUME TypeOK
  PROVE  Current \in Workers
BY TurnCallAssumption DEF TypeOK, Current, Workers, Attempts

(* More late workers or more admitted calls starve the gatekeeper no less. *)
LEMMA StarvedStays ==
  ASSUME TypeOK, TypeOK', late \subseteq late', admitted' >= admitted, Starved
  PROVE  Starved'
<1>1. IsFiniteSet(late') /\ late \in SUBSET late'
  BY WorkersFinite, FS_Subset DEF TypeOK
<1>2. Cardinality(late) <= Cardinality(late') /\ IsFiniteSet(late)
  BY <1>1, FS_Subset
<1>3. Cardinality(late) \in Nat /\ Cardinality(late') \in Nat
  BY <1>1, <1>2, FS_CardinalityType
<1> QED
  BY <1>2, <1>3, TurnCallAssumption DEF Starved, TypeOK

-----------------------------------------------------------------------------
(* Type correctness *)

LEMMA InitTypeOK == Init => TypeOK
<1> SUFFICES ASSUME Init PROVE TypeOK
  OBVIOUS
<1>1. 1 \in 1 .. Turns /\ 0 \in 0 .. MaxRetries
  BY TurnCallAssumption
<1>2. <<>> \in Seq({"timeout", "retry", "turn_failed"})
  BY EmptySeq
<1> QED
  BY <1>1, <1>2 DEF Init, TypeOK, Phases, Outcomes

(* The workers' steps leave the turn thread's state alone.                 *)
LEMMA WorkerTypeOK ==
  ASSUME TypeOK, NEW w \in Workers, WorkerThread(w)
  PROVE  TypeOK'
<1>1. UNCHANGED callVars
  BY DEF WorkerThread, Admit, Queue, RefuseCall, Answer, Fail, gateVars
<1>2. /\ turn' \in 1 .. Turns /\ retries' \in 0 .. MaxRetries /\ phase' \in Phases
      /\ late' \subseteq Workers /\ outcome' \in [1 .. Turns -> Outcomes]
      /\ answer' \in [1 .. Turns -> Workers \cup {Unset}]
      /\ log' \in [1 .. Turns -> Seq({"timeout", "retry", "turn_failed"})]
  BY <1>1 DEF callVars, TypeOK
<1>3. /\ thread' \in [Workers -> {"new", "started", "executing", "finished"}]
      /\ box' \in [Workers -> Workers \cup {Unset, None}]
      /\ error' \in [Workers -> Raised \cup {NoError}]
      /\ admitted' \in Nat /\ queued' \subseteq Workers
  <2>1. CASE Admit(w)
    BY <2>1 DEF Admit, TypeOK
  <2>2. CASE Queue(w)
    BY <2>2 DEF Queue, TypeOK, Returns, Finished, CellOf
  <2>3. CASE RefuseCall(w)
    BY <2>3 DEF RefuseCall, TypeOK, Raises, Finished, CellOf, gateVars, Raised
  <2>4. CASE Answer(w)
    BY <2>4 DEF Answer, TypeOK, Returns, Finished, CellOf, gateVars
  <2>5. CASE Fail(w)
    BY <2>5 DEF Fail, TypeOK, Raises, Finished, CellOf, gateVars, Raised
  <2> QED
    BY <2>1, <2>2, <2>3, <2>4, <2>5 DEF WorkerThread
<1> QED
  BY <1>2, <1>3 DEF TypeOK

LEMMA TurnTypeOK ==
  ASSUME TypeOK, TurnThread
  PROVE  TypeOK'
<1> USE TurnCallAssumption
<1>1. Current \in Workers
  BY CurrentIsWorker
<1>2. ASSUME NEW last \in {"retry", "turn_failed"}
      PROVE  log[turn] \o TimeoutEvents(Exception) \o <<last>>
               \in Seq({"timeout", "retry", "turn_failed"})
  <2>1. log[turn] \in Seq(Events)
    BY DEF TypeOK, Events
  <2> QED
    BY <2>1, EventsOfException DEF Events
<1>3. GiveUp => late' \subseteq Workers
  BY <1>1 DEF GiveUp, TypeOK
<1>4. NextTurn => /\ turn' \in 1 .. Turns /\ retries' \in 0 .. MaxRetries
                  /\ phase' \in Phases
  BY DEF NextTurn, TypeOK, Phases
<1>5. CASE StartAttempt
  BY <1>1, <1>5 DEF StartAttempt, Started, TypeOK, gateVars, Phases
<1>6. CASE Join
  BY <1>6 DEF Join, TypeOK, gateVars, Phases
<1>7. CASE Succeed
  <2>1. CASE box[Current] \in Workers \cup {Unset}
    BY <1>4, <1>7, <2>1 DEF Succeed, TypeOK, gateVars, Outcomes, CellOf
  <2>2. box[Current] \in Workers \cup {Unset}
    BY <1>1, <1>7 DEF Succeed, CellOf, TypeOK
  <2> QED
    BY <2>1, <2>2
<1>8. CASE NoResult
  BY <1>8 DEF NoResult, Crash, TypeOK, gateVars, Phases, Outcomes
<1>9. CASE Retry
  <2>1. log' \in [1 .. Turns -> Seq({"timeout", "retry", "turn_failed"})]
    BY <1>2, <1>9 DEF Retry, TypeOK
  <2> QED
    BY <1>3, <1>9, <2>1 DEF Retry, RetriesLeft, TypeOK, gateVars, Phases
<1>10. CASE FailTurn
  <2>1. log' \in [1 .. Turns -> Seq({"timeout", "retry", "turn_failed"})]
    BY <1>2, <1>10 DEF FailTurn, TypeOK
  <2>2. outcome' \in [1 .. Turns -> Outcomes]
    BY <1>10 DEF FailTurn, TypeOK, Outcomes
  <2> QED
    BY <1>3, <1>4, <1>10, <2>1, <2>2 DEF FailTurn, TypeOK, gateVars
<1>11. CASE Propagate
  BY <1>11 DEF Propagate, Crash, TypeOK, gateVars, Phases, Outcomes
<1>12. CASE Wake
  BY <1>12 DEF Wake, TypeOK, gateVars, Phases
<1> QED
  BY <1>5, <1>6, <1>7, <1>8, <1>9, <1>10, <1>11, <1>12 DEF TurnThread

(* Every variable keeps its type: the first promise of run_with_retry is   *)
(* that it never counts more retries than max_retries (_retry.py:79-89).   *)
THEOREM TypeCorrect == Spec => []TypeOK
<1>1. TypeOK /\ [Next]_vars => TypeOK'
  <2> SUFFICES ASSUME TypeOK, [Next]_vars PROVE TypeOK'
    OBVIOUS
  <2>1. CASE UNCHANGED vars
    BY <2>1 DEF vars, callVars, gateVars, TypeOK
  <2>2. CASE TurnThread
    BY <2>2, TurnTypeOK
  <2>3. CASE \E w \in Workers : WorkerThread(w)
    BY <2>3, WorkerTypeOK
  <2> QED
    BY <2>1, <2>2, <2>3 DEF Next, Over
<1> QED
  BY InitTypeOK, <1>1, PTL DEF Spec

-----------------------------------------------------------------------------
(* The steps of the workers *)

(* A worker's step concerns itself and its own cells.                      *)
LEMMA WorkerEffect ==
  ASSUME TypeOK, NEW w \in Workers, WorkerThread(w)
  PROVE  /\ UNCHANGED callVars /\ admitted' >= admitted
         /\ thread[w] \in {"started", "executing"}
         /\ thread'[w] \in {"executing", "finished"}
         /\ \A u \in Workers \ {w} :
              thread'[u] = thread[u] /\ box'[u] = box[u] /\ error'[u] = error[u]
         /\ thread'[w] = "executing" => box' = box /\ error' = error
         /\ thread'[w] = "finished" => box'[w] \in {w, None} \/ error'[w] # NoError
         /\ thread'[w] = "finished" /\ box'[w] = None =>
              box[w] = None \/ (thread[w] = "started" /\ NoRoom)
<1>1. CASE Admit(w)
  BY <1>1 DEF Admit, TypeOK
<1>2. CASE Queue(w)
  <2>1. /\ thread' = [thread EXCEPT ![w] = "finished"]
        /\ box' = [box EXCEPT ![w] = None] /\ error' = error
        /\ UNCHANGED <<callVars, admitted>> /\ thread[w] = "started" /\ NoRoom
    BY <1>2 DEF Queue, Returns, Finished, CellOf
  <2>2. thread'[w] = "finished" /\ box'[w] = None
    BY <2>1 DEF TypeOK
  <2>3. \A u \in Workers \ {w} : thread'[u] = thread[u] /\ box'[u] = box[u]
    BY <2>1 DEF TypeOK
  <2>4. admitted' >= admitted
    BY <2>1 DEF TypeOK
  <2> QED
    BY <2>1, <2>2, <2>3, <2>4
<1>3. CASE RefuseCall(w)
  <2>1. /\ thread' = [thread EXCEPT ![w] = "finished"]
        /\ error' = [error EXCEPT ![w] = "QueueFullError"] /\ box' = box
        /\ UNCHANGED <<callVars, admitted>> /\ thread[w] = "started"
    BY <1>3 DEF RefuseCall, Raises, Finished, CellOf, gateVars
  <2>2. thread'[w] = "finished" /\ error'[w] # NoError
    BY <2>1 DEF TypeOK, NoError
  <2>3. \A u \in Workers \ {w} : thread'[u] = thread[u] /\ error'[u] = error[u]
    BY <2>1 DEF TypeOK
  <2>4. admitted' >= admitted
    BY <2>1 DEF TypeOK
  <2> QED
    BY <2>1, <2>2, <2>3, <2>4
<1>4. CASE Answer(w)
  <2>1. /\ thread' = [thread EXCEPT ![w] = "finished"]
        /\ box' = [box EXCEPT ![w] = w] /\ error' = error
        /\ UNCHANGED <<callVars, admitted>> /\ thread[w] = "executing"
    BY <1>4 DEF Answer, Returns, Finished, CellOf, gateVars
  <2>2. thread'[w] = "finished" /\ box'[w] = w /\ w # None
    BY <2>1, SentinelAssumption DEF TypeOK
  <2>3. \A u \in Workers \ {w} : thread'[u] = thread[u] /\ box'[u] = box[u]
    BY <2>1 DEF TypeOK
  <2>4. admitted' >= admitted
    BY <2>1 DEF TypeOK
  <2> QED
    BY <2>1, <2>2, <2>3, <2>4
<1>5. CASE Fail(w)
  <2>1. PICK e \in Transient \cup {"ValueError"} : error' = [error EXCEPT ![w] = e]
    BY <1>5 DEF Fail, Raises, CellOf
  <2>2. /\ thread' = [thread EXCEPT ![w] = "finished"] /\ box' = box
        /\ UNCHANGED <<callVars, admitted>> /\ thread[w] = "executing"
    BY <1>5 DEF Fail, Raises, Finished, gateVars
  <2>3. thread'[w] = "finished" /\ error'[w] # NoError
    BY <2>1, <2>2 DEF TypeOK, NoError, Transient
  <2>4. \A u \in Workers \ {w} : thread'[u] = thread[u] /\ error'[u] = error[u]
    BY <2>1, <2>2 DEF TypeOK
  <2>5. admitted' >= admitted
    BY <2>2 DEF TypeOK
  <2> QED
    BY <2>2, <2>3, <2>4, <2>5
<1> QED
  BY <1>1, <1>2, <1>3, <1>4, <1>5 DEF WorkerThread

(* A call finds no room only when every slot is held by a late worker or   *)
(* the window was filled: the worker asking is the only one not late.      *)
LEMMA NoRoomWhenStarved ==
  ASSUME TypeOK, OthersAreLate, NoRoom, thread[Current] = "started"
  PROVE  Starved
<1>1. CASE admitted >= PerMinute
  BY <1>1 DEF Starved
<1>2. CASE InFlight >= ConcurrentMax
  <2>1. Executing \in SUBSET late
    BY DEF Executing, OthersAreLate
  <2>2. IsFiniteSet(late)
    BY WorkersFinite, FS_Subset DEF TypeOK
  <2>3. Cardinality(Executing) <= Cardinality(late) /\ IsFiniteSet(Executing)
    BY <2>1, <2>2, FS_Subset
  <2>4. Cardinality(late) \in Nat /\ Cardinality(Executing) \in Nat
    BY <2>2, <2>3, FS_CardinalityType
  <2> QED
    BY <1>2, <2>3, <2>4, TurnCallAssumption DEF Starved, InFlight
<1> QED
  BY <1>1, <1>2 DEF NoRoom

LEMMA WorkerIInv ==
  ASSUME IInv, NEW w \in Workers, WorkerThread(w)
  PROVE  IInv'
<1> USE DEF IInv
<1>1. TypeOK'
  BY WorkerTypeOK
<1>2. /\ UNCHANGED <<turn, retries, phase, late, outcome, answer, log>>
      /\ Current' = Current
  BY WorkerEffect DEF callVars, Current
<1>3. /\ thread[w] \in {"started", "executing"}
      /\ thread'[w] \in {"executing", "finished"}
      /\ \A u \in Workers \ {w} :
           thread'[u] = thread[u] /\ box'[u] = box[u] /\ error'[u] = error[u]
      /\ thread'[w] = "executing" => box' = box /\ error' = error
      /\ thread'[w] = "finished" => box'[w] \in {w, None} \/ error'[w] # NoError
  BY WorkerEffect
<1>4. CellsAreOwn'
  BY <1>3 DEF CellsAreOwn
<1>5. NotStartedAhead'
  BY <1>2, <1>3, CurrentIsWorker DEF NotStartedAhead
<1>6. OthersAreLate'
  BY <1>2, <1>3 DEF OthersAreLate, Waiting
<1>7. LateIsBehind'
  <2>1. \A u \in Workers : thread[u] # "new" => thread'[u] # "new"
    BY <1>3
  <2>2. late \subseteq Workers /\ Current \in Workers
    BY CurrentIsWorker DEF TypeOK
  <2> QED
    BY <1>2, <2>1, <2>2 DEF LateIsBehind, Waiting
<1>8. Progress' /\ LogTells' /\ AnswerIsCurrent'
  BY <1>2 DEF Progress, Running, LogTells, Logged, AnswerIsCurrent
<1>9. \A u \in Workers : error[u] \in Transient => error'[u] = error[u]
  BY <1>3 DEF CellsAreOwn, NoError, Transient
<1>10. AttemptsSpent'
  <2>1. Running => \A a \in 1 .. retries : <<turn, a>> \in Workers
    BY TurnCallAssumption DEF TypeOK, Workers, Attempts
  <2> QED
    BY <1>2, <1>9, <2>1 DEF AttemptsSpent, Running
<1>11. FailedOnlyWhenSpent'
  <2>1. \A t \in 1 .. Turns, a \in Attempts : <<t, a>> \in Workers
    BY DEF Workers
  <2> QED
    BY <1>2, <1>9, <2>1 DEF FailedOnlyWhenSpent, Logged
<1>12. Starved => Starved'
  BY <1>1, <1>2, WorkerEffect, StarvedStays
<1>13. NoneWhenStarved'
  <2> SUFFICES ASSUME Waiting, thread'[Current] = "finished", box'[Current] = None
               PROVE  Starved'
    BY <1>2 DEF NoneWhenStarved, Waiting
  <2>1. CASE w # Current
    BY <1>3, <1>12, <2>1, CurrentIsWorker DEF NoneWhenStarved
  <2>2. CASE w = Current
    <3>1. box[w] # None
      BY <1>3, TurnCallAssumption DEF CellsAreOwn
    <3>2. thread[Current] = "started" /\ NoRoom
      BY <2>2, <3>1, WorkerEffect
    <3> QED
      BY <1>12, <3>2, NoRoomWhenStarved
  <2> QED
    BY <2>1, <2>2
<1>14. QueuedOnlyWhenStarved'
  BY <1>2, <1>12 DEF QueuedOnlyWhenStarved, Starved
<1> QED
  BY <1>1, <1>4, <1>5, <1>6, <1>7, <1>8, <1>10, <1>11, <1>13, <1>14

-----------------------------------------------------------------------------
(* The steps of the turn thread *)

LEMMA InitIInv == Init => IInv
<1> SUFFICES ASSUME Init PROVE IInv
  OBVIOUS
<1>1. TypeOK
  BY InitTypeOK
<1>2. CellsAreOwn /\ OthersAreLate /\ LateIsBehind /\ NoneWhenStarved /\ AttemptsSpent
  BY DEF Init, CellsAreOwn, OthersAreLate, LateIsBehind, NoneWhenStarved, Waiting,
         AttemptsSpent
<1>3. NotStartedAhead
  BY <1>1, CurrentIsWorker DEF Init, NotStartedAhead
<1>4. Progress /\ AnswerIsCurrent /\ FailedOnlyWhenSpent /\ QueuedOnlyWhenStarved
  BY DEF Init, Progress, AnswerIsCurrent, FailedOnlyWhenSpent, QueuedOnlyWhenStarved
<1>5. LogTells
  <2>1. \A e : \A t \in 1 .. Turns : log[t] = <<>> /\ Logged(t, e) = 0
    BY OccursEmpty DEF Init, Logged, Occurs
  <2>2. turn \in 1 .. Turns
    BY <1>1 DEF TypeOK
  <2> QED
    BY <2>1, <2>2, TurnCallAssumption DEF Init, LogTells
<1> QED
  BY <1>1, <1>2, <1>3, <1>4, <1>5 DEF IInv

(* A step that only moves the turn thread on within its turn.              *)
LEMMA MovesOnly ==
  ASSUME IInv, Running, Running',
         UNCHANGED <<turn, retries, late, outcome, answer, log, error, admitted>>
  PROVE  /\ Progress' /\ LogTells' /\ AttemptsSpent' /\ AnswerIsCurrent'
         /\ FailedOnlyWhenSpent' /\ QueuedOnlyWhenStarved'
<1>1. Progress' /\ LogTells' /\ AnswerIsCurrent'
  BY DEF IInv, Progress, Running, LogTells, Logged, AnswerIsCurrent
<1>2. AttemptsSpent' /\ FailedOnlyWhenSpent' /\ QueuedOnlyWhenStarved'
  BY DEF IInv, AttemptsSpent, Running, FailedOnlyWhenSpent, Logged, QueuedOnlyWhenStarved
<1> QED
  BY <1>1, <1>2

LEMMA StartAttemptIInv ==
  ASSUME IInv, StartAttempt
  PROVE  IInv'
<1>1. TypeOK' /\ Current \in Workers
  BY TurnTypeOK, CurrentIsWorker DEF IInv, TurnThread
<1>2. /\ UNCHANGED <<turn, retries, late, outcome, answer, log, box, error, admitted, queued>>
      /\ phase = "attempting" /\ phase' = "joining" /\ Current' = Current
      /\ thread[Current] = "new" /\ thread' = [thread EXCEPT ![Current] = "started"]
  BY DEF IInv, StartAttempt, Started, gateVars, NotStartedAhead, Current
<1>3. thread'[Current] = "started" /\ \A w \in Workers \ {Current} : thread'[w] = thread[w]
  BY <1>1, <1>2 DEF IInv, TypeOK
<1> HIDE DEF Current
<1>4. CellsAreOwn' /\ OthersAreLate' /\ LateIsBehind' /\ NoneWhenStarved'
  BY <1>1, <1>2, <1>3 DEF IInv, TypeOK, CellsAreOwn, OthersAreLate, LateIsBehind,
                          NoneWhenStarved, Waiting
<1>5. NotStartedAhead'
  <2>1. Current[1] = turn /\ Current[2] = retries + 1 /\ turn \in Nat /\ retries \in Nat
    BY TurnCallAssumption DEF Current, IInv, TypeOK
  <2> QED
    BY <1>2, <1>3, <2>1 DEF IInv, NotStartedAhead
<1> QED
  BY <1>1, <1>2, <1>4, <1>5, MovesOnly DEF IInv, Running

LEMMA JoinIInv ==
  ASSUME IInv, Join
  PROVE  IInv'
<1>1. TypeOK'
  BY TurnTypeOK DEF IInv, TurnThread
<1>2. /\ UNCHANGED <<turn, retries, late, outcome, answer, log, thread, box, error,
                    admitted, queued>>
      /\ phase = "joining" /\ phase' = "joined" /\ Current' = Current
  BY DEF Join, gateVars, Current
<1>3. /\ CellsAreOwn' /\ OthersAreLate' /\ LateIsBehind' /\ NoneWhenStarved'
      /\ NotStartedAhead'
  BY <1>2 DEF IInv, CellsAreOwn, OthersAreLate, LateIsBehind, NoneWhenStarved,
              NotStartedAhead, Waiting, Starved
<1> QED
  BY <1>1, <1>2, <1>3, MovesOnly DEF IInv, Running

LEMMA WakeIInv ==
  ASSUME IInv, Wake
  PROVE  IInv'
<1>1. TypeOK'
  BY TurnTypeOK DEF IInv, TurnThread
<1>2. /\ UNCHANGED <<turn, retries, late, outcome, answer, log, thread, box, error,
                    admitted, queued>>
      /\ phase = "sleeping" /\ phase' = "attempting" /\ Current' = Current
  BY DEF Wake, gateVars, Current
<1>3. /\ CellsAreOwn' /\ OthersAreLate' /\ LateIsBehind' /\ NoneWhenStarved'
      /\ NotStartedAhead'
  BY <1>2 DEF IInv, CellsAreOwn, OthersAreLate, LateIsBehind, NoneWhenStarved,
              NotStartedAhead, Waiting, Starved
<1> QED
  BY <1>1, <1>2, <1>3, MovesOnly DEF IInv, Running

(* The run is lost: to a queued call, or to an error that is no timeout.   *)
LEMMA CrashIInv ==
  ASSUME IInv, NoResult \/ Propagate
  PROVE  IInv'
<1>1. TypeOK' /\ Current \in Workers
  BY TurnTypeOK, CurrentIsWorker DEF IInv, TurnThread
<1>2. /\ UNCHANGED <<turn, retries, late, answer, log, thread, box, error, admitted, queued>>
      /\ phase = "joined" /\ phase' = "crashed" /\ Current' = Current
      /\ thread[Current] = "finished"
  BY DEF NoResult, Returned, Propagate, Raising, Exception, Transient, Crash, gateVars,
         Current
<1>3. /\ \A t \in 1 .. Turns \ {turn} : outcome'[t] = outcome[t]
      /\ outcome'[turn] \in {"no_result", "crashed"}
      /\ outcome'[turn] = "no_result" => Returned /\ box[Current] = None
  BY DEF NoResult, Propagate, Crash, IInv, TypeOK, CellOf
<1>4. CellsAreOwn' /\ LateIsBehind' /\ NoneWhenStarved' /\ OthersAreLate'
  BY <1>1, <1>2 DEF IInv, CellsAreOwn, OthersAreLate, LateIsBehind, NoneWhenStarved, Waiting
<1>5. NotStartedAhead' /\ Progress' /\ AttemptsSpent'
  BY <1>2 DEF IInv, NotStartedAhead, Progress, AttemptsSpent, Running
<1>6. LogTells'
  BY <1>2, <1>3 DEF IInv, LogTells
<1>7. AnswerIsCurrent' /\ FailedOnlyWhenSpent'
  BY <1>2, <1>3 DEF IInv, AnswerIsCurrent, FailedOnlyWhenSpent, Logged
<1>8. QueuedOnlyWhenStarved'
  <2> SUFFICES ASSUME NEW t \in 1 .. Turns, outcome'[t] = "no_result"
               PROVE  Starved'
    BY DEF QueuedOnlyWhenStarved, Starved
  <2>1. CASE t = turn
    BY <1>2, <1>3, <2>1 DEF IInv, NoneWhenStarved, Waiting, Starved
  <2>2. CASE t # turn
    BY <1>2, <1>3, <2>2 DEF IInv, QueuedOnlyWhenStarved, Starved
  <2> QED
    BY <2>1, <2>2
<1> QED
  BY <1>1, <1>4, <1>5, <1>6, <1>7, <1>8 DEF IInv

(* The run goes on to the next turn, or ends after the last.               *)
LEMMA NextTurnKeeps ==
  ASSUME IInv, phase = "joined", NextTurn, UNCHANGED <<thread, box, error>>,
         late \subseteq late', OthersAreLate, \A w \in late' : thread[w] # "new",
         thread[Current] = "finished" \/ Current \in late',
         \A t \in turn + 1 .. Turns : outcome'[t] = outcome[t] /\ log'[t] = log[t],
         outcome'[turn] # "pending"
  PROVE  /\ CellsAreOwn' /\ NotStartedAhead' /\ OthersAreLate' /\ LateIsBehind'
         /\ Progress' /\ LogTells' /\ AttemptsSpent' /\ NoneWhenStarved'
<1> USE TurnCallAssumption
<1>1. turn \in 1 .. Turns /\ Turns \in Nat /\ retries \in 0 .. MaxRetries
  BY DEF IInv, TypeOK
<1>2. phase' \notin {"joining", "joined", "sleeping"}
  BY DEF NextTurn
<1>3. CellsAreOwn' /\ LateIsBehind' /\ NoneWhenStarved'
  BY <1>2 DEF IInv, CellsAreOwn, LateIsBehind, NoneWhenStarved, Waiting
<1>4. OthersAreLate'
  BY DEF OthersAreLate
<1>5. CASE turn = Turns
  <2>1. turn' = turn /\ retries' = retries /\ phase' = "done"
    BY <1>5 DEF NextTurn
  <2>2. NotStartedAhead' /\ Progress' /\ AttemptsSpent'
    BY <1>5, <2>1 DEF IInv, NotStartedAhead, Progress, AttemptsSpent, Running
  <2>3. LogTells'
    BY <1>1, <1>5, <2>1 DEF LogTells
  <2> QED
    BY <1>3, <1>4, <2>2, <2>3
<1>6. CASE turn # Turns
  <2>1. turn' = turn + 1 /\ retries' = 0 /\ phase' = "attempting" /\ turn' \in 1 .. Turns
    BY <1>1, <1>6 DEF NextTurn
  <2>2. NotStartedAhead'
    <3>1. \A w \in Workers : w[1] > turn => thread[w] = "new"
      BY DEF IInv, NotStartedAhead
    <3>2. \A w \in Workers : w[1] >= turn' => w[1] > turn
      BY <1>1, <2>1 DEF Workers
    <3>3. \A w \in Workers : w[1] \in Nat
      BY DEF Workers
    <3>4. Current' \in Workers /\ Current'[1] = turn'
      BY <2>1 DEF Current, Workers, Attempts
    <3>5. thread[Current'] = "new"
      BY <1>1, <2>1, <3>1, <3>4
    <3>6. \A w \in Workers : w[1] > turn' \/ w[1] = turn' => thread[w] = "new"
      BY <1>1, <2>1, <3>1, <3>3
    <3> QED
      BY <3>5, <3>6 DEF NotStartedAhead
  <2>3. Progress' /\ AttemptsSpent'
    BY <1>1, <2>1 DEF IInv, Progress, AttemptsSpent, Running
  <2>4. LogTells'
    <3>1. log[turn'] = <<>> /\ log'[turn'] = <<>>
      BY <1>1, <2>1 DEF IInv, LogTells
    <3>2. \A e : Logged(turn, e)' = 0
      BY <3>1, OccursEmpty DEF Logged, Occurs
    <3>3. \A t \in turn' + 1 .. Turns : log'[t] = <<>>
      BY <1>1, <2>1 DEF IInv, LogTells
    <3> QED
      BY <2>1, <3>2, <3>3 DEF LogTells
  <2> QED
    BY <1>3, <1>4, <2>2, <2>3, <2>4
<1> QED
  BY <1>5, <1>6

LEMMA SucceedIInv ==
  ASSUME IInv, Succeed
  PROVE  IInv'
<1>1. TypeOK' /\ Current \in Workers
  BY TurnTypeOK, CurrentIsWorker DEF IInv, TurnThread
<1>2. /\ UNCHANGED <<late, log, thread, box, error, admitted, queued>>
      /\ phase = "joined" /\ thread[Current] = "finished" /\ error[Current] = NoError
      /\ outcome' = [outcome EXCEPT ![turn] = "answered"]
      /\ answer' = [answer EXCEPT ![turn] = box[Current]] /\ box[Current] # None
      /\ NextTurn
  BY DEF Succeed, Returned, CellOf, gateVars
<1>3. turn \in 1 .. Turns /\ turn \in Nat
  BY TurnCallAssumption DEF IInv, TypeOK
<1>4. /\ outcome'[turn] = "answered" /\ answer'[turn] = box[Current]
      /\ \A t \in (1 .. Turns) \ {turn} : outcome'[t] = outcome[t] /\ answer'[t] = answer[t]
  BY <1>2, <1>3 DEF IInv, TypeOK
<1>5. /\ CellsAreOwn' /\ NotStartedAhead' /\ OthersAreLate' /\ LateIsBehind'
      /\ Progress' /\ LogTells' /\ AttemptsSpent' /\ NoneWhenStarved'
  <2>1. \A t \in turn + 1 .. Turns : outcome'[t] = outcome[t] /\ log'[t] = log[t]
    BY <1>2, <1>3, <1>4
  <2>2. \A w \in late' : thread[w] # "new"
    BY <1>2 DEF IInv, LateIsBehind
  <2> QED
    BY <1>2, <1>4, <2>1, <2>2, NextTurnKeeps DEF IInv
<1>6. AnswerIsCurrent'
  <2>1. box[Current] = Current
    BY <1>1, <1>2 DEF IInv, CellsAreOwn
  <2>2. Current \notin late
    BY <1>2 DEF IInv, LateIsBehind, Waiting
  <2>3. outcome[turn] = "pending"
    BY <1>2, <1>3, TurnCallAssumption DEF IInv, Progress, Running
  <2>4. Logged(turn, "retry") = retries
    BY <2>3 DEF IInv, LogTells
  <2>5. answer'[turn] = <<turn, Logged(turn, "retry") + 1>>
    BY <1>4, <2>1, <2>4 DEF Current
  <2>6. \A e : \A t \in 1 .. Turns :
          Cardinality({i \in DOMAIN log'[t] : log'[t][i] = e}) = Logged(t, e)
    BY <1>2 DEF Logged
  <2> SUFFICES ASSUME NEW t \in 1 .. Turns, outcome'[t] = "answered"
               PROVE  answer'[t] = <<t, Logged(t, "retry") + 1>> /\ answer'[t] \notin late
    BY <1>2, <2>6 DEF AnswerIsCurrent, Logged
  <2>7. CASE t = turn
    BY <1>4, <2>1, <2>2, <2>5, <2>7
  <2>8. CASE t # turn
    BY <1>4, <2>8 DEF IInv, AnswerIsCurrent
  <2> QED
    BY <2>7, <2>8
<1>7. FailedOnlyWhenSpent'
  BY <1>2, <1>4 DEF IInv, FailedOnlyWhenSpent, Logged
<1>8. QueuedOnlyWhenStarved'
  BY <1>2, <1>4 DEF IInv, QueuedOnlyWhenStarved
<1> QED
  BY <1>1, <1>5, <1>6, <1>7, <1>8 DEF IInv

(* What giving up on the attempt waited for does, whether another follows  *)
(* or not: it is late, or it raised a transient error.                     *)
LEMMA GiveUpEffect ==
  ASSUME IInv, Raising, Exception \in Transient, GiveUp, UNCHANGED <<thread, error>>
  PROVE  /\ late \subseteq late' /\ \A w \in late' \ late : w = Current
         /\ \A w \in late' : thread[w] # "new"
         /\ \A w \in Workers : thread[w] \in {"started", "executing"} => w \in late'
         /\ thread[Current] = "finished" \/ Current \in late'
         /\ \A a \in 1 .. retries + 1 : <<turn, a>> \in late' \/ error[<<turn, a>>] \in Transient
         /\ outcome[turn] = "pending"
         /\ \A t \in 1 .. Turns : outcome[t] = "answered" => answer[t] \notin late'
<1>1. Current \in Workers /\ phase = "joined" /\ turn \in 1 .. Turns /\ retries \in Nat
  BY CurrentIsWorker, TurnCallAssumption DEF IInv, Raising, TypeOK
<1>2. late \subseteq late' /\ \A w \in late' \ late : w = Current
  BY DEF GiveUp
<1>3. thread[Current] # "new"
  BY <1>1 DEF IInv, LateIsBehind, Waiting
<1>4. thread[Current] # "finished" => Current \in late'
  BY DEF GiveUp
<1>5. \A w \in late' : thread[w] # "new"
  BY <1>2, <1>3 DEF IInv, LateIsBehind
<1>6. \A w \in Workers : thread[w] \in {"started", "executing"} => w \in late'
  BY <1>2, <1>4 DEF IInv, OthersAreLate
<1>7. \A a \in 1 .. retries + 1 : <<turn, a>> \in late' \/ error[<<turn, a>>] \in Transient
  <2> SUFFICES ASSUME NEW a \in 1 .. retries + 1
               PROVE  <<turn, a>> \in late' \/ error[<<turn, a>>] \in Transient
    OBVIOUS
  <2>1. CASE a \in 1 .. retries
    BY <1>1, <1>2, <2>1 DEF IInv, AttemptsSpent, Running
  <2>2. CASE a = retries + 1
    <3>1. <<turn, a>> = Current
      BY <2>2 DEF Current
    <3>2. thread[Current] = "finished" => error[Current] \in Transient
      BY DEF Exception, CellOf
    <3> QED
      BY <1>4, <3>1, <3>2
  <2> QED
    BY <1>1, <2>1, <2>2
<1>8. \A t \in turn .. Turns : outcome[t] = "pending"
  BY <1>1 DEF IInv, Progress, Running
<1>9. outcome[turn] = "pending"
  BY <1>1, <1>8, TurnCallAssumption
<1>10. ASSUME NEW t \in 1 .. Turns, outcome[t] = "answered"
       PROVE  answer[t] \notin late'
  <2>1. answer[t] \notin late /\ answer[t] = <<t, Logged(t, "retry") + 1>>
    BY <1>10 DEF IInv, AnswerIsCurrent
  <2>2. t # turn
    BY <1>9, <1>10
  <2>3. answer[t] # Current
    BY <2>1, <2>2 DEF Current
  <2> QED
    BY <1>2, <2>1, <2>3
<1> QED
  BY <1>2, <1>4, <1>5, <1>6, <1>7, <1>9, <1>10

(* The events of the turn given up on; those of the other turns stay.      *)
LEMMA EventsGrow ==
  ASSUME IInv, outcome[turn] = "pending", NEW last \in {"retry", "turn_failed"},
         log' = [log EXCEPT ![turn] = @ \o TimeoutEvents(Exception) \o <<last>>]
  PROVE  /\ Occurs(log'[turn], "retry") = IF last = "retry" THEN retries + 1 ELSE retries
         /\ Occurs(log'[turn], "turn_failed") = IF last = "retry" THEN 0 ELSE 1
         /\ \A t \in (1 .. Turns) \ {turn} : log'[t] = log[t]
<1>1. turn \in 1 .. Turns /\ log[turn] \in Seq(Events)
  BY DEF IInv, TypeOK, Events
<1>2. /\ log'[turn] = log[turn] \o TimeoutEvents(Exception) \o <<last>>
      /\ \A t \in (1 .. Turns) \ {turn} : log'[t] = log[t]
  BY <1>1 DEF IInv, TypeOK
<1>3. Occurs(log[turn], "retry") = retries /\ Occurs(log[turn], "turn_failed") = 0
  BY DEF IInv, LogTells, Logged, Occurs
<1>4. \A e \in {"retry", "turn_failed"} :
        Occurs(log'[turn], e) =
          IF last = e THEN Occurs(log[turn], e) + 1 ELSE Occurs(log[turn], e)
  BY <1>1, <1>2, EventsOfException
<1> QED
  BY <1>2, <1>3, <1>4

(* What the properties say of the turns before the one given up on stays.  *)
LEMMA EarlierTurnsStay ==
  ASSUME IInv, TypeOK', Raising, Exception \in Transient, GiveUp,
         UNCHANGED <<thread, error, answer, admitted>>,
         \A t \in (1 .. Turns) \ {turn} : outcome'[t] = outcome[t] /\ log'[t] = log[t],
         outcome'[turn] \notin {"answered", "no_result"}
  PROVE  /\ AnswerIsCurrent' /\ QueuedOnlyWhenStarved'
         /\ \A t \in (1 .. Turns) \ {turn} : outcome'[t] = "failed" =>
              /\ Occurs(log'[t], "retry") = MaxRetries
              /\ Occurs(log'[t], "turn_failed") = 1
              /\ \A a \in Attempts : <<t, a>> \in late' \/ error[<<t, a>>] \in Transient
<1>1. /\ late \subseteq late'
      /\ \A t \in 1 .. Turns : outcome[t] = "answered" => answer[t] \notin late'
  BY GiveUpEffect
<1>2. AnswerIsCurrent'
  <2> SUFFICES ASSUME NEW t \in 1 .. Turns, outcome'[t] = "answered"
               PROVE  answer'[t] = <<t, Logged(t, "retry")' + 1>> /\ answer'[t] \notin late'
    BY DEF AnswerIsCurrent
  <2>1. t # turn /\ outcome[t] = "answered" /\ log'[t] = log[t]
    OBVIOUS
  <2>2. Logged(t, "retry")' = Logged(t, "retry")
    BY <2>1 DEF Logged
  <2> QED
    BY <1>1, <2>1, <2>2 DEF IInv, AnswerIsCurrent
<1>3. Starved => Starved'
  <2>1. admitted' >= admitted
    BY DEF IInv, TypeOK
  <2> QED
    BY <1>1, <2>1, StarvedStays DEF IInv
<1>4. QueuedOnlyWhenStarved'
  BY <1>3 DEF IInv, QueuedOnlyWhenStarved, Starved
<1> QED
  BY <1>1, <1>2, <1>4 DEF IInv, FailedOnlyWhenSpent, Logged, Occurs

LEMMA RetryIInv ==
  ASSUME IInv, Retry
  PROVE  IInv'
<1>1. TypeOK' /\ turn \in 1 .. Turns /\ retries \in Nat /\ Turns \in Nat
  <2>1. TypeOK'
    BY TurnTypeOK DEF IInv, TurnThread
  <2> QED
    BY <2>1, TurnCallAssumption DEF IInv, TypeOK
<1>2. /\ UNCHANGED <<turn, outcome, answer, thread, box, error, admitted, queued>>
      /\ Raising /\ Exception \in Transient /\ GiveUp
      /\ retries' = retries + 1 /\ phase = "joined" /\ phase' = "sleeping"
      /\ log' = [log EXCEPT ![turn] = @ \o TimeoutEvents(Exception) \o <<"retry">>]
  BY DEF Retry, Raising, gateVars
<1>3. /\ \A w \in late' : thread[w] # "new"
      /\ \A w \in Workers : thread[w] \in {"started", "executing"} => w \in late'
      /\ \A a \in 1 .. retries + 1 : <<turn, a>> \in late' \/ error[<<turn, a>>] \in Transient
      /\ outcome[turn] = "pending"
  BY <1>2, GiveUpEffect
<1>4. /\ Occurs(log'[turn], "retry") = retries + 1 /\ Occurs(log'[turn], "turn_failed") = 0
      /\ \A t \in (1 .. Turns) \ {turn} : log'[t] = log[t]
  BY <1>2, <1>3, EventsGrow
<1>5. CellsAreOwn' /\ OthersAreLate' /\ LateIsBehind' /\ NoneWhenStarved'
  BY <1>2, <1>3 DEF IInv, CellsAreOwn, OthersAreLate, LateIsBehind, NoneWhenStarved, Waiting
<1>6. NotStartedAhead'
  <2>1. Current' \in Workers /\ Current'[1] = turn /\ Current'[2] = retries + 2
    <3>1. retries + 1 \in 0 .. MaxRetries
      BY <1>1, <1>2 DEF TypeOK
    <3>2. Current' = <<turn, retries + 2>>
      BY <1>1, <1>2 DEF Current
    <3> QED
      BY <1>1, <3>1, <3>2, TurnCallAssumption DEF Workers, Attempts
  <2>2. \A w \in Workers : w[1] > turn \/ (w[1] = turn /\ w[2] > retries + 1) => thread[w] = "new"
    BY DEF IInv, NotStartedAhead
  <2>3. thread[Current'] = "new"
    BY <1>1, <2>1, <2>2
  <2>4. \A w \in Workers : w[2] \in Nat
    BY DEF Workers, Attempts
  <2>5. \A w \in Workers : w[1] > turn \/ (w[1] = turn /\ w[2] > retries + 2) => thread[w] = "new"
    BY <1>1, <2>2, <2>4
  <2>6. retries' + 1 = retries + 2 /\ thread' = thread /\ turn' = turn
    BY <1>1, <1>2
  <2>7. thread'[Current'] = "new"
    BY <2>3, <2>6
  <2>8. \A w \in Workers :
          w[1] > turn' \/ (w[1] = turn' /\ w[2] > retries' + 1) => thread'[w] = "new"
    BY <2>5, <2>6
  <2> QED
    BY <2>7, <2>8 DEF NotStartedAhead
<1>7. Progress' /\ AttemptsSpent'
  <2>1. Progress'
    BY <1>2 DEF IInv, Progress, Running
  <2>2. AttemptsSpent'
    BY <1>2, <1>3 DEF AttemptsSpent
  <2> QED
    BY <2>1, <2>2
<1>8. LogTells'
  <2>1. \A t \in turn' + 1 .. Turns : log'[t] = <<>>
    BY <1>1, <1>2, <1>4 DEF IInv, LogTells
  <2>2. Logged(turn, "retry")' = retries' /\ Logged(turn, "turn_failed")' = 0
    BY <1>2, <1>4 DEF Logged, Occurs
  <2> QED
    BY <2>1, <2>2 DEF LogTells
<1>9. /\ AnswerIsCurrent' /\ QueuedOnlyWhenStarved'
      /\ \A t \in (1 .. Turns) \ {turn} : outcome'[t] = "failed" =>
           /\ Occurs(log'[t], "retry") = MaxRetries
           /\ Occurs(log'[t], "turn_failed") = 1
           /\ \A a \in Attempts : <<t, a>> \in late' \/ error[<<t, a>>] \in Transient
  BY <1>1, <1>2, <1>3, <1>4, EarlierTurnsStay
<1>10. FailedOnlyWhenSpent'
  BY <1>2, <1>3, <1>9 DEF FailedOnlyWhenSpent, Logged, Occurs
<1> QED
  BY <1>1, <1>5, <1>6, <1>7, <1>8, <1>9, <1>10 DEF IInv

LEMMA FailTurnIInv ==
  ASSUME IInv, FailTurn
  PROVE  IInv'
<1>1. TypeOK' /\ turn \in 1 .. Turns /\ retries \in 0 .. MaxRetries /\ Turns \in Nat
  BY TurnTypeOK, TurnCallAssumption DEF IInv, TurnThread, TypeOK
<1>2. /\ UNCHANGED <<answer, thread, box, error, admitted, queued>>
      /\ Raising /\ Exception \in Transient /\ GiveUp /\ NextTurn /\ phase = "joined"
      /\ retries = MaxRetries
      /\ outcome' = [outcome EXCEPT ![turn] = "failed"]
      /\ log' = [log EXCEPT ![turn] = @ \o TimeoutEvents(Exception) \o <<"turn_failed">>]
  BY <1>1, TurnCallAssumption DEF FailTurn, Raising, RetriesLeft, gateVars
<1>3. /\ late \subseteq late' /\ \A w \in late' : thread[w] # "new"
      /\ \A w \in Workers : thread[w] \in {"started", "executing"} => w \in late'
      /\ thread[Current] = "finished" \/ Current \in late'
      /\ \A a \in 1 .. retries + 1 : <<turn, a>> \in late' \/ error[<<turn, a>>] \in Transient
      /\ outcome[turn] = "pending"
  BY <1>2, GiveUpEffect
<1>4. /\ Occurs(log'[turn], "retry") = MaxRetries /\ Occurs(log'[turn], "turn_failed") = 1
      /\ \A t \in (1 .. Turns) \ {turn} : log'[t] = log[t]
  BY <1>2, <1>3, EventsGrow
<1>5. /\ outcome'[turn] = "failed"
      /\ \A t \in (1 .. Turns) \ {turn} : outcome'[t] = outcome[t]
  BY <1>1, <1>2 DEF IInv, TypeOK
<1>6. /\ CellsAreOwn' /\ NotStartedAhead' /\ OthersAreLate' /\ LateIsBehind'
      /\ Progress' /\ LogTells' /\ AttemptsSpent' /\ NoneWhenStarved'
  <2>1. \A t \in turn + 1 .. Turns : outcome'[t] = outcome[t] /\ log'[t] = log[t]
    BY <1>1, <1>4, <1>5
  <2>2. outcome'[turn] # "pending"
    BY <1>5
  <2> QED
    BY <1>2, <1>3, <2>1, <2>2, NextTurnKeeps DEF IInv
<1>7. /\ AnswerIsCurrent' /\ QueuedOnlyWhenStarved'
      /\ \A t \in (1 .. Turns) \ {turn} : outcome'[t] = "failed" =>
           /\ Occurs(log'[t], "retry") = MaxRetries
           /\ Occurs(log'[t], "turn_failed") = 1
           /\ \A a \in Attempts : <<t, a>> \in late' \/ error[<<t, a>>] \in Transient
  BY <1>1, <1>2, <1>4, <1>5, EarlierTurnsStay
<1>8. FailedOnlyWhenSpent'
  <2>1. \A a \in Attempts : <<turn, a>> \in late' \/ error[<<turn, a>>] \in Transient
    BY <1>2, <1>3 DEF Attempts
  <2> QED
    BY <1>2, <1>4, <1>7, <2>1 DEF FailedOnlyWhenSpent, Logged, Occurs
<1> QED
  BY <1>1, <1>6, <1>7, <1>8 DEF IInv

-----------------------------------------------------------------------------
(* The theorems *)

LEMMA Inductive == Spec => []IInv
<1>1. IInv /\ [Next]_vars => IInv'
  <2> SUFFICES ASSUME IInv, [Next]_vars PROVE IInv'
    OBVIOUS
  <2>1. CASE UNCHANGED vars
    <3>1. UNCHANGED <<turn, retries, phase, thread, box, error, admitted, queued, late,
                      outcome, answer, log>>
      BY <2>1 DEF vars, callVars, gateVars
    <3>2. /\ TypeOK' /\ CellsAreOwn' /\ NotStartedAhead' /\ OthersAreLate'
          /\ LateIsBehind' /\ Progress'
      BY <3>1 DEF IInv, TypeOK, CellsAreOwn, NotStartedAhead, OthersAreLate, LateIsBehind,
                  Progress, Current, Waiting, Running
    <3>3. LogTells' /\ AttemptsSpent' /\ NoneWhenStarved'
      BY <3>1 DEF IInv, LogTells, Logged, AttemptsSpent, Running, NoneWhenStarved, Waiting,
                  Current, Starved
    <3>4. AnswerIsCurrent' /\ FailedOnlyWhenSpent' /\ QueuedOnlyWhenStarved'
      BY <3>1 DEF IInv, AnswerIsCurrent, FailedOnlyWhenSpent, QueuedOnlyWhenStarved, Logged
    <3> QED
      BY <3>2, <3>3, <3>4 DEF IInv
  <2>2. CASE TurnThread
    BY <2>2, StartAttemptIInv, JoinIInv, SucceedIInv, CrashIInv, RetryIInv, FailTurnIInv,
       WakeIInv DEF TurnThread
  <2>3. CASE \E w \in Workers : WorkerThread(w)
    BY <2>3, WorkerIInv
  <2> QED
    BY <2>1, <2>2, <2>3 DEF Next, Over
<1> QED
  BY InitIInv, <1>1, PTL DEF Spec

(* A turn goes on only with the answer to the attempt it was waiting for:  *)
(* no abandoned worker's late answer is ever taken for it.                 *)
THEOREM AnswersAreCurrent == Spec => []AnswerIsCurrent
<1>1. IInv => AnswerIsCurrent
  BY DEF IInv
<1> QED
  BY Inductive, <1>1, PTL

(* A turn is marked FAILED only after max_retries + 1 attempts, each late  *)
(* or ended by a transient error.                                          *)
THEOREM FailuresAreSpent == Spec => []FailedOnlyWhenSpent
<1>1. IInv => FailedOnlyWhenSpent
  BY DEF IInv
<1> QED
  BY Inductive, <1>1, PTL

(* A run is lost to a queued call only when concurrent_max abandoned       *)
(* workers may hold every slot, or the minute's calls are used up.         *)
THEOREM QueuedAreStarved == Spec => []QueuedOnlyWhenStarved
<1>1. IInv => QueuedOnlyWhenStarved
  BY DEF IInv
<1> QED
  BY Inductive, <1>1, PTL

-----------------------------------------------------------------------------
(* The turn thread runs out of steps, whatever its workers do.  That its   *)
(* steps come is fairness, and TLC's.                                      *)

AttemptsLeft == (Turns - turn) * (MaxRetries + 1) + (MaxRetries - retries)

PhaseLeft ==
  CASE phase = "sleeping"   -> 4
    [] phase = "attempting" -> 3
    [] phase = "joining"    -> 2
    [] phase = "joined"     -> 1
    [] OTHER                -> 0

ThreadLeft == 4 * AttemptsLeft + PhaseLeft

LEMMA AttemptsOf ==
  ASSUME NEW a \in Nat, NEW t \in Nat, t >= 1
  PROVE  (t - 1) * (a + 1) \in Nat /\ t * (a + 1) = (t - 1) * (a + 1) + a + 1
<1>1. \A x \in Nat : x * (a + 1) \in Nat
  OBVIOUS
<1>2. t - 1 \in Nat
  OBVIOUS
<1> QED
  BY <1>1, <1>2

LEMMA LeftTyped ==
  ASSUME TypeOK
  PROVE  /\ (Turns - turn) * (MaxRetries + 1) \in Nat /\ AttemptsLeft \in Nat
         /\ PhaseLeft \in 0 .. 4 /\ ThreadLeft \in 0 .. (4 * Turns * (MaxRetries + 1))
<1>1. /\ Turns \in Nat /\ MaxRetries \in Nat /\ turn \in 1 .. Turns /\ retries \in 0 .. MaxRetries
  BY TurnCallAssumption DEF TypeOK
<1> DEFINE m == (Turns - turn) * (MaxRetries + 1)
           n == Turns * (MaxRetries + 1)
<1>2. m \in Nat /\ n \in Nat
  <2>1. \A x, y \in Nat : x * y \in Nat
    OBVIOUS
  <2>2. Turns - turn \in Nat /\ MaxRetries + 1 \in Nat
    BY <1>1
  <2> QED
    BY <1>1, <2>1, <2>2
<1>3. m + MaxRetries + 1 <= n
  <2>1. n = m + turn * (MaxRetries + 1)
    BY <1>1
  <2>2. (turn - 1) * (MaxRetries + 1) \in Nat
       /\ turn * (MaxRetries + 1) = (turn - 1) * (MaxRetries + 1) + MaxRetries + 1
    BY <1>1, AttemptsOf
  <2> HIDE DEF m, n
  <2> QED
    BY <1>1, <1>2, <2>1, <2>2
<1>4. PhaseLeft \in 0 .. 4 /\ AttemptsLeft = m + (MaxRetries - retries)
  BY DEF PhaseLeft, AttemptsLeft
<1>5. 4 * Turns * (MaxRetries + 1) = 4 * n
  BY <1>1
<1> HIDE DEF m, n
<1>6. AttemptsLeft \in Nat /\ AttemptsLeft + 1 <= n
  BY <1>1, <1>2, <1>3, <1>4
<1>7. ThreadLeft \in 0 .. (4 * n)
  BY <1>2, <1>4, <1>6 DEF ThreadLeft
<1> QED
  BY <1>2, <1>4, <1>5, <1>6, <1>7 DEF m

\* To the next turn, or the end: a turn has its attempts of its own.
LEMMA NextTurnLeft ==
  ASSUME TypeOK, phase = "joined", NextTurn
  PROVE  ThreadLeft' < ThreadLeft
<1>1. /\ Turns \in Nat /\ MaxRetries \in Nat /\ turn \in 1 .. Turns /\ retries \in 0 .. MaxRetries
  BY TurnCallAssumption DEF TypeOK
<1>2. AttemptsLeft \in Nat /\ PhaseLeft = 1
  BY LeftTyped DEF PhaseLeft
<1>3. CASE turn = Turns
  <2>1. AttemptsLeft' = AttemptsLeft /\ PhaseLeft' = 0
    BY <1>3 DEF NextTurn, AttemptsLeft, PhaseLeft
  <2> QED
    BY <1>2, <2>1 DEF ThreadLeft
<1>4. CASE turn # Turns
  <2>1. PhaseLeft' = 3 /\ turn' = turn + 1 /\ retries' = 0
    BY <1>4 DEF NextTurn, PhaseLeft
  <2> DEFINE t == Turns - turn
             m == (t - 1) * (MaxRetries + 1)
  <2>2. t \in Nat /\ t >= 1 /\ Turns - turn' = t - 1
    BY <1>1, <1>4, <2>1
  <2>3. m \in Nat /\ t * (MaxRetries + 1) = m + MaxRetries + 1
    BY <1>1, <2>2, AttemptsOf
  <2>4. AttemptsLeft' = m + MaxRetries
    BY <1>1, <2>1, <2>2 DEF AttemptsLeft
  <2>5. AttemptsLeft = m + MaxRetries + 1 + (MaxRetries - retries)
    BY <2>3 DEF AttemptsLeft
  <2> HIDE DEF m
  <2> QED
    BY <1>1, <1>2, <2>1, <2>3, <2>4, <2>5 DEF ThreadLeft
<1> QED
  BY <1>3, <1>4

LEMMA TurnThreadLeft == ASSUME TypeOK, TurnThread PROVE ThreadLeft' < ThreadLeft
<1>1. AttemptsLeft \in Nat /\ MaxRetries \in Nat /\ retries \in 0 .. MaxRetries
  BY LeftTyped, TurnCallAssumption DEF TypeOK
<1>2. (Turns - turn) * (MaxRetries + 1) \in Nat
  BY LeftTyped
<1>3. UNCHANGED <<turn, retries>> => AttemptsLeft' = AttemptsLeft
  BY DEF AttemptsLeft
<1>4. CASE StartAttempt \/ Join \/ Wake
  <2>1. UNCHANGED <<turn, retries>> /\ PhaseLeft' = PhaseLeft - 1 /\ PhaseLeft \in Nat
    BY <1>4 DEF StartAttempt, Join, Wake, PhaseLeft
  <2> QED
    BY <1>1, <1>3, <2>1 DEF ThreadLeft
<1>5. CASE NoResult \/ Propagate
  <2>1. UNCHANGED <<turn, retries>> /\ PhaseLeft' = 0 /\ PhaseLeft = 1
    BY <1>5 DEF NoResult, Propagate, Returned, Raising, Crash, PhaseLeft
  <2> QED
    BY <1>1, <1>3, <2>1 DEF ThreadLeft
<1>6. CASE Retry
  <2>1. turn' = turn /\ retries' = retries + 1 /\ PhaseLeft' = 4 /\ PhaseLeft = 1
    BY <1>6 DEF Retry, Raising, PhaseLeft
  <2> DEFINE m == (Turns - turn) * (MaxRetries + 1)
  <2>2. AttemptsLeft' = m + (MaxRetries - (retries + 1)) /\ AttemptsLeft = m + (MaxRetries - retries)
    BY <2>1 DEF AttemptsLeft
  <2>3. m \in Nat
    BY <1>2
  <2> HIDE DEF m
  <2> QED
    BY <1>1, <2>1, <2>2, <2>3 DEF ThreadLeft
<1>7. CASE Succeed \/ FailTurn
  BY <1>7, NextTurnLeft DEF Succeed, FailTurn, Returned, Raising
<1> QED
  BY <1>4, <1>5, <1>6, <1>7 DEF TurnThread

(* A run has at most 4 * rounds * (max_retries + 1) steps to take in all   *)
(* its turns, and no worker, late or not, gives it another: with the       *)
(* scheduling of its thread this is why every run ends (_retry.py:79-89,   *)
(* _timeout.py:48-64).                                                     *)
ThreadRunsOut ==
  /\ [](ThreadLeft \in 0 .. (4 * Turns * (MaxRetries + 1)))
  /\ [][ThreadLeft' <= ThreadLeft /\ (TurnThread => ThreadLeft' < ThreadLeft)]_vars

THEOREM ThreadEnds == Spec => ThreadRunsOut
<1>1. TypeOK => ThreadLeft \in 0 .. (4 * Turns * (MaxRetries + 1))
  BY LeftTyped
<1>2. ASSUME TypeOK, (ThreadLeft \in 0 .. (4 * Turns * (MaxRetries + 1)))', [Next]_vars
      PROVE  [ThreadLeft' <= ThreadLeft /\ (TurnThread => ThreadLeft' < ThreadLeft)]_vars
  <2>1. ThreadLeft \in Int /\ ThreadLeft' \in Int
    <3>1. (0 .. (4 * Turns * (MaxRetries + 1)))' = 0 .. (4 * Turns * (MaxRetries + 1))
      OBVIOUS
    <3>2. 4 * Turns * (MaxRetries + 1) \in Int
      BY TurnCallAssumption
    <3> QED
      BY <1>2, <3>2, LeftTyped
  <2>2. CASE TurnThread
    <3>1. ThreadLeft' < ThreadLeft
      BY <1>2, <2>2, TurnThreadLeft
    <3> QED
      BY <2>1, <3>1
  <2>3. CASE ~TurnThread /\ ~UNCHANGED vars
    <3>1. \E w \in Workers : WorkerThread(w)
      BY <1>2, <2>3 DEF Next, Over
    <3>2. UNCHANGED <<turn, retries, phase>>
      BY <3>1 DEF WorkerThread, Admit, Queue, RefuseCall, Answer, Fail, callVars
    <3>3. ThreadLeft' = ThreadLeft
      BY <3>2 DEF ThreadLeft, AttemptsLeft, PhaseLeft
    <3> QED
      BY <2>1, <2>3, <3>3
  <2> QED
    BY <2>2, <2>3
<1> QED
  BY <1>1, <1>2, TypeCorrect, PTL DEF Spec, ThreadRunsOut
=============================================================================
