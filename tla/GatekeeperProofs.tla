-------------------------- MODULE GatekeeperProofs ---------------------------
(***************************************************************************)
(* Theorems about the API gatekeeper, for any calls, services, limits,     *)
(* drainers and window lengths: its types, that queued calls, slots, caps, *)
(* drains and windows are sound, and that it implements CallGate.          *)
(***************************************************************************)
EXTENDS ApiGatekeeper, FiniteSetTheorems, FunctionTheorems, SequenceTheorems, TLAPS

-----------------------------------------------------------------------------
(* Lemmas about the operators of the model *)

(* Whatever the service, get_service_limits() answers with valid limits.   *)
LEMMA LimitsOfService ==
  ASSUME NEW s
  PROVE  /\ get_service_limits(s) \in ServiceLimits
         /\ \A n \in 0 .. get_service_limits(s).max_retries :
              Backoff(get_service_limits(s), n) \in Nat
BY LimitsAssumption, BackoffAssumption DEF get_service_limits

(* The expired prefix lies within the timestamps.                          *)
LEMMA StaleBounds ==
  ASSUME NEW ev \in Seq(Nat), NEW cutoff
  PROVE  /\ IsFiniteSet(Stale(ev, cutoff))
         /\ Cardinality(Stale(ev, cutoff)) \in 0 .. Len(ev)
<1>1. DOMAIN ev = 1 .. Len(ev) /\ Len(ev) \in Nat
  BY LenProperties
<1>2. IsFiniteSet(1 .. Len(ev)) /\ Cardinality(1 .. Len(ev)) = Len(ev)
  <2>1. 1 \in Int /\ Len(ev) \in Int
    BY <1>1
  <2>2. /\ IsFiniteSet(1 .. Len(ev))
        /\ Cardinality(1 .. Len(ev)) = IF 1 > Len(ev) THEN 0 ELSE Len(ev) - 1 + 1
    BY <2>1, FS_Interval, Zenon
  <2> QED
    BY <1>1, <2>2
<1>3. Stale(ev, cutoff) \in SUBSET (1 .. Len(ev))
  BY <1>1 DEF Stale
<1>4. IsFiniteSet(Stale(ev, cutoff)) /\ Cardinality(Stale(ev, cutoff)) <= Len(ev)
  BY <1>2, <1>3, FS_Subset
<1>5. Cardinality(Stale(ev, cutoff)) \in Nat
  BY <1>4, FS_CardinalityType
<1> QED
  BY <1>1, <1>4, <1>5

(* _prune() keeps a suffix of the timestamps.                              *)
LEMMA PrunedType ==
  ASSUME NEW ev \in Seq(Nat)
  PROVE  Pruned(ev) \in Seq(Nat)
<1>1. Len(ev) \in Nat /\ \A i \in 1 .. Len(ev) : ev[i] \in Nat
  BY LenProperties, ElementOfSeq
<1>2. Cardinality(Stale(ev, now - Hour)) \in 0 .. Len(ev)
  BY StaleBounds
<1> DEFINE k == Cardinality(Stale(ev, now - Hour))
<1>3. SubSeq(ev, k + 1, Len(ev)) \in Seq(Nat)
  <2>1. k + 1 \in Int /\ Len(ev) \in Int
    BY <1>1, <1>2
  <2>2. \A i \in k + 1 .. Len(ev) : ev[i] \in Nat
    BY <1>1, <1>2
  <2> HIDE DEF k
  <2> QED
    BY <2>1, <2>2, SubSeqProperties
<1> QED
  BY <1>3 DEF Pruned

-----------------------------------------------------------------------------
(* Type correctness *)

LEMMA InitTypeOK == Init => TypeOK
<1> SUFFICES ASSUME Init PROVE TypeOK
  OBVIOUS
<1>1. \A c \in Calls : get_service_limits(ServiceOf[c]).max_retries \in Nat
  BY LimitsOfService DEF ServiceLimits
<1>2. LimiterTypeOK /\ QueueTypeOK
  BY DEF Init, LimiterTypeOK, QueueTypeOK
<1>3. CallTypeOK
  BY <1>1 DEF Init, CallTypeOK, CallStates
<1>4. DrainTypeOK
  BY CallsAssumption DEF Init, DrainTypeOK, DrainStates, DrainRecords, NoDrain
<1> QED
  BY <1>2, <1>3, <1>4 DEF TypeOK

(* The limiter of a service changes in one of these ways.                  *)
LEMMA LimiterStep ==
  ASSUME LimiterTypeOK, NEW s \in Services, UNCHANGED now,
         \/ Admit(s)
         \/ Record(s) /\ UNCHANGED inflight
         \/ Acquire(s) /\ UNCHANGED <<events, admissions>>
         \/ PruneOnly(s)
         \/ Release(s)
         \/ UNCHANGED limiterVars
  PROVE  LimiterTypeOK'
<1>1. events[s] \in Seq(Nat) /\ admissions[s] \in Seq(Nat) /\ now \in Nat
  BY DEF LimiterTypeOK
<1>2. Pruned(events[s]) \in Seq(Nat)
  BY <1>1, PrunedType
<1>3. /\ Append(Pruned(events[s]), now) \in Seq(Nat)
      /\ Append(admissions[s], now) \in Seq(Nat)
  BY <1>1, <1>2, AppendProperties
<1>4. CASE Admit(s)
  BY <1>3, <1>4 DEF LimiterTypeOK, Admit, Record, Acquire
<1>8. CASE Record(s) /\ UNCHANGED inflight
  BY <1>3, <1>8 DEF LimiterTypeOK, Record
<1>9. CASE Acquire(s) /\ UNCHANGED <<events, admissions>>
  BY <1>9 DEF LimiterTypeOK, Acquire
<1>5. CASE PruneOnly(s)
  BY <1>2, <1>5 DEF LimiterTypeOK, PruneOnly
<1>6. CASE Release(s)
  BY <1>6 DEF LimiterTypeOK, Release
<1>7. CASE UNCHANGED limiterVars
  BY <1>7 DEF LimiterTypeOK, limiterVars
<1> QED
  BY <1>4, <1>5, <1>6, <1>7, <1>8, <1>9

(* The overflow queue of a service changes in one of three ways.           *)
LEMMA QueueStep ==
  ASSUME QueueTypeOK, NEW s \in Services, NEW c \in Calls,
         \/ Enqueue(c, s)
         \/ Backpressure(s)
         \/ queue[s] # <<>> /\ Dequeue(s)
         \/ UNCHANGED <<queue, totals>>
  PROVE  QueueTypeOK'
<1> DEFINE Counters == [enqueued : Nat, drained : Nat, backpressure : Nat]
<1>1. queue \in [Services -> Seq(Calls)] /\ totals \in [Services -> Counters]
  BY DEF QueueTypeOK
<1>2. queue[s] \in Seq(Calls) /\ totals[s] \in Counters
  BY <1>1
<1>3. ASSUME NEW q \in Seq(Calls), queue' = [queue EXCEPT ![s] = q],
             NEW t \in Counters, totals' = [totals EXCEPT ![s] = t]
      PROVE  QueueTypeOK'
  BY <1>1, <1>3 DEF QueueTypeOK
<1>4. CASE Enqueue(c, s)
  <2>1. Append(queue[s], c) \in Seq(Calls)
    BY <1>2, AppendProperties
  <2>2. [totals[s] EXCEPT !.enqueued = @ + 1] \in Counters
    BY <1>2
  <2>3. /\ queue' = [queue EXCEPT ![s] = Append(queue[s], c)]
        /\ totals' = [totals EXCEPT ![s] = [totals[s] EXCEPT !.enqueued = @ + 1]]
    BY <1>4 DEF Enqueue
  <2> QED
    BY <1>3, <2>1, <2>2, <2>3
<1>5. CASE Backpressure(s)
  <2>1. [totals[s] EXCEPT !.backpressure = @ + 1] \in Counters
    BY <1>2
  <2>2. /\ queue' = [queue EXCEPT ![s] = queue[s]]
        /\ totals' = [totals EXCEPT ![s] = [totals[s] EXCEPT !.backpressure = @ + 1]]
    BY <1>1, <1>5 DEF Backpressure
  <2> QED
    BY <1>2, <1>3, <2>1, <2>2
<1>6. CASE queue[s] # <<>> /\ Dequeue(s)
  <2>1. Tail(queue[s]) \in Seq(Calls)
    BY <1>2, <1>6, HeadTailProperties
  <2>2. [totals[s] EXCEPT !.drained = @ + 1] \in Counters
    BY <1>2
  <2>3. /\ queue' = [queue EXCEPT ![s] = Tail(queue[s])]
        /\ totals' = [totals EXCEPT ![s] = [totals[s] EXCEPT !.drained = @ + 1]]
    BY <1>6 DEF Dequeue
  <2> QED
    BY <1>3, <2>1, <2>2, <2>3
<1> QED
  BY <1>1, <1>4, <1>5, <1>6 DEF QueueTypeOK

(* A service gets a queue once; the others keep theirs.                    *)
LEMMA CreateQueueStep ==
  ASSUME DrainTypeOK, NEW s \in Services, CreateQueue(s), UNCHANGED drain
  PROVE  DrainTypeOK'
<1>1. /\ Append(order, s) \in Seq(Services)
      /\ Len(order) \in Nat
      /\ Len(Append(order, s)) = Len(order) + 1
  BY AppendProperties, LenProperties DEF DrainTypeOK
<1>2. order' \in Seq(Services) /\ Len(order') \in Nat /\ Len(order) <= Len(order')
  BY <1>1 DEF CreateQueue, DrainTypeOK
<1> QED
  BY <1>1, <1>2 DEF DrainTypeOK, DrainStates, DrainRecords

(* The service at the position of a drain that is in its loop.             *)
LEMMA DrainedService ==
  ASSUME DrainTypeOK, NEW d \in Drainers, drain[d].at = "loop"
  PROVE  drain[d].pos \in 1 .. Len(order) /\ order[drain[d].pos] \in Services
<1>1. drain[d] \in DrainStates /\ Len(order) \in Nat
  BY LenProperties DEF DrainTypeOK
<1>2. drain[d].pos \in 1 .. Len(order)
  BY <1>1 DEF DrainTypeOK, DrainStates, DrainRecords
<1> QED
  BY <1>2, ElementOfSeq DEF DrainTypeOK

LEMMA NextTypeOK == TypeOK /\ [Next]_vars => TypeOK'
<1> SUFFICES ASSUME TypeOK, [Next]_vars PROVE TypeOK'
  OBVIOUS
<1>a. LimiterTypeOK /\ QueueTypeOK /\ CallTypeOK /\ DrainTypeOK
  BY DEF TypeOK
<1>b. /\ \A c \in Calls : ServiceOf[c] \in Services
      /\ \A c \in Calls : get_service_limits(ServiceOf[c]).max_retries \in Nat
  BY CallsAssumption, LimitsOfService DEF ServiceLimits
<1>c. /\ NoDrain \in DrainStates /\ NoDrain.size = 0 /\ Len(order) \in Nat
      /\ NoCall \notin Calls
  BY <1>a, CallsAssumption, LenProperties DEF NoDrain, DrainStates, DrainRecords, DrainTypeOK
<1>1. CASE Tick
  BY <1>a, <1>1 DEF TypeOK, Tick, LimiterTypeOK, QueueTypeOK, CallTypeOK, CallStates, DrainTypeOK,
                    limiterVars, queueVars, callVars
<1>2. ASSUME NEW c \in Calls, Execute(c) PROVE TypeOK'
  <2> DEFINE s == ServiceOf[c]
  <2>1. s \in Services
    BY <1>b
  <2>2. UNCHANGED <<now, retries, wake, drain>> /\ (ExecuteNow(c, s) \/ ExecuteLater(c, s))
    BY <1>2 DEF Execute
  <2> HIDE DEF s
  <2>3. CallTypeOK'
    BY <1>a, <2>2 DEF CallTypeOK, CallStates, ExecuteNow, ExecuteLater
  <2>4. LimiterTypeOK'
    <3>1. Admit(s) \/ PruneOnly(s)
      BY <2>2 DEF ExecuteNow, ExecuteLater
    <3> QED
      BY <1>a, <2>1, <2>2, <3>1, LimiterStep
  <2>5. QueueTypeOK'
    <3>1. Enqueue(c, s) \/ Backpressure(s) \/ UNCHANGED <<queue, totals>>
      BY <2>2 DEF ExecuteNow, ExecuteLater, queueVars
    <3> QED
      BY <1>a, <2>1, <3>1, QueueStep
  <2>6. DrainTypeOK'
    <3>1. CASE CreateQueue(s)
      BY <1>a, <2>1, <2>2, <3>1, CreateQueueStep
    <3>2. CASE UNCHANGED order
      BY <1>a, <2>2, <3>2 DEF DrainTypeOK
    <3> QED
      BY <2>2, <3>1, <3>2 DEF ExecuteNow, ExecuteLater, queueVars
  <2> QED
    BY <2>3, <2>4, <2>5, <2>6 DEF TypeOK
<1>3. ASSUME NEW c \in Calls, EndCall(c) PROVE LimiterTypeOK' /\ QueueTypeOK' /\ CallTypeOK'
  <2>1. /\ Release(ServiceOf[c])
        /\ UNCHANGED <<now, queue, order, totals, wake>>
        /\ status' = [status EXCEPT ![c] = "ended"]
        /\ retries' = [retries EXCEPT ![c] = 0]
    BY <1>3 DEF EndCall, queueVars
  <2>2. LimiterTypeOK'
    BY <1>a, <1>b, <2>1, LimiterStep
  <2>3. QueueTypeOK'
    BY <1>a, <2>1 DEF QueueTypeOK
  <2>4. CallTypeOK'
    BY <1>a, <1>b, <2>1 DEF CallTypeOK, CallStates
  <2> QED
    BY <2>2, <2>3, <2>4
<1>4. ASSUME NEW c \in Calls, Succeed(c) PROVE TypeOK'
  <2>1. UNCHANGED order
    BY <1>4 DEF Succeed, EndCall, queueVars
  <2>2. \A d \in Drainers :
          d \in DrainsOf(c) =>
            /\ [drain[d] EXCEPT !.at = "loop", !.call = NoCall] \in DrainStates
            /\ [drain[d] EXCEPT !.at = "loop", !.call = NoCall].size = drain[d].size
    BY <1>a, <1>c DEF DrainTypeOK, DrainStates, DrainRecords, DrainsOf
  <2>3. DrainTypeOK'
    BY <1>a, <1>4, <2>1, <2>2 DEF Succeed, DrainTypeOK
  <2> QED
    BY <1>3, <1>4, <2>3 DEF Succeed, TypeOK
<1>5. ASSUME NEW c \in Calls, Retry(c) PROVE TypeOK'
  <2> DEFINE limits == get_service_limits(ServiceOf[c])
  <2>1. retries[c] \in 0 .. limits.max_retries /\ retries[c] < limits.max_retries
    BY <1>a, <1>5, <1>b DEF Retry, CallTypeOK, CallStates
  <2>2. Backoff(limits, retries[c]) \in Nat
    BY <2>1, LimitsOfService
  <2>3. /\ wake' = [wake EXCEPT ![c] = now + Backoff(limits, retries[c])]
        /\ retries' = [retries EXCEPT ![c] = @ + 1]
        /\ status' = [status EXCEPT ![c] = "sleeping"]
        /\ UNCHANGED <<now, limiterVars, queueVars, drain>>
    BY <1>5 DEF Retry
  <2> HIDE DEF limits
  <2>4. wake' \in [Calls -> Nat]
    <3>1. wake \in [Calls -> Nat] /\ now \in Nat
      BY <1>a DEF CallTypeOK, CallStates, LimiterTypeOK
    <3>2. now + Backoff(limits, retries[c]) \in Nat
      BY <2>2, <3>1
    <3> QED
      BY <2>3, <3>1, <3>2
  <2>5. /\ retries' \in [Calls -> Nat]
        /\ \A e \in Calls : retries'[e] <= get_service_limits(ServiceOf[e]).max_retries
    BY <1>a, <1>b, <2>1, <2>3 DEF CallTypeOK, CallStates, limits
  <2>6. CallTypeOK'
    BY <1>a, <2>3, <2>4, <2>5 DEF CallTypeOK, CallStates
  <2> QED
    BY <1>a, <2>3, <2>6
    DEF TypeOK, LimiterTypeOK, QueueTypeOK, DrainTypeOK, limiterVars, queueVars
<1>6. ASSUME NEW c \in Calls, Wake(c) PROVE TypeOK'
  BY <1>a, <1>6 DEF Wake, TypeOK, LimiterTypeOK, QueueTypeOK, CallTypeOK, CallStates, DrainTypeOK,
                    limiterVars, queueVars
<1>7. ASSUME NEW c \in Calls, Raise(c) PROVE TypeOK'
  <2>1. UNCHANGED order
    BY <1>7 DEF Raise, EndCall, queueVars
  <2>2. DrainTypeOK'
    BY <1>a, <1>c, <1>7, <2>1 DEF Raise, DrainTypeOK
  <2> QED
    BY <1>3, <1>7, <2>2 DEF Raise, TypeOK
<1>8. ASSUME NEW d \in Drainers, NEW r \in DrainStates, r.size <= Len(order),
             drain' = [drain EXCEPT ![d] = r], UNCHANGED order
      PROVE  DrainTypeOK'
  BY <1>a, <1>8 DEF DrainTypeOK
<1>9. ASSUME UNCHANGED <<now, limiterVars, queueVars, callVars>>
      PROVE  LimiterTypeOK' /\ QueueTypeOK' /\ CallTypeOK' /\ UNCHANGED order
  BY <1>a, <1>9 DEF LimiterTypeOK, QueueTypeOK, CallTypeOK, CallStates, limiterVars, queueVars, callVars
<1>10. ASSUME NEW d \in Drainers, DrainBegin(d) PROVE TypeOK'
  <2> DEFINE r == [at |-> "next", pos |-> 0, size |-> Len(order), call |-> NoCall]
  <2>1. r \in DrainStates /\ r.size <= Len(order)
    BY <1>c DEF DrainStates, DrainRecords
  <2>2. drain' = [drain EXCEPT ![d] = r] /\ UNCHANGED <<now, limiterVars, queueVars, callVars>>
    BY <1>10 DEF DrainBegin
  <2> HIDE DEF r
  <2> QED
    BY <1>8, <1>9, <2>1, <2>2 DEF TypeOK
<1>11. ASSUME NEW d \in Drainers, DrainNext(d) PROVE TypeOK'
  <2>1. drain[d] \in DrainStates /\ drain[d].size <= Len(order)
    BY <1>a DEF DrainTypeOK
  <2>2. UNCHANGED <<now, limiterVars, queueVars, callVars>>
    BY <1>11 DEF DrainNext
  <2>3. DrainTypeOK'
    <3> DEFINE crashed == [NoDrain EXCEPT !.at = "crashed"]
               onward == [at |-> "loop", pos |-> drain[d].pos + 1,
                          size |-> drain[d].size, call |-> NoCall]
    <3>1. CASE drain' = [drain EXCEPT ![d] = crashed]
      <4>1. crashed \in DrainStates /\ crashed.size <= Len(order)
        BY <1>c DEF NoDrain, DrainStates, DrainRecords
      <4> QED
        BY <1>8, <1>9, <2>2, <3>1, <4>1
    <3>2. CASE drain' = [drain EXCEPT ![d] = NoDrain]
      <4>1. NoDrain \in DrainStates /\ NoDrain.size <= Len(order)
        BY <1>c
      <4> QED
        BY <1>8, <1>9, <2>2, <3>2, <4>1
    <3>3. CASE drain[d].pos < drain[d].size /\ drain' = [drain EXCEPT ![d] = onward]
      <4>1. /\ drain[d].pos \in Nat /\ drain[d].size \in Nat
            /\ drain[d].pos + 1 <= drain[d].size /\ drain[d].pos + 1 > 0
        BY <2>1, <3>3 DEF DrainStates, DrainRecords
      <4>2. onward \in DrainStates /\ onward.size <= Len(order)
        BY <1>c, <2>1, <4>1 DEF DrainStates, DrainRecords
      <4> QED
        BY <1>8, <1>9, <2>2, <3>3, <4>2
    <3> QED
      BY <1>11, <3>1, <3>2, <3>3 DEF DrainNext
  <2> QED
    BY <1>9, <2>2, <2>3 DEF TypeOK
<1>12. ASSUME NEW d \in Drainers, DrainSkip(d) PROVE TypeOK'
  <2> DEFINE s == order[drain[d].pos]
             r == [drain[d] EXCEPT !.at = "next"]
  <2>1. s \in Services
    BY <1>a, <1>12, DrainedService DEF DrainSkip
  <2>2. drain[d] \in DrainStates /\ drain[d].size <= Len(order)
    BY <1>a DEF DrainTypeOK
  <2>3. r \in DrainStates /\ r.size <= Len(order)
    BY <1>12, <2>2 DEF DrainSkip, DrainStates, DrainRecords
  <2>4. /\ PruneOnly(s) \/ UNCHANGED limiterVars
        /\ drain' = [drain EXCEPT ![d] = r]
        /\ UNCHANGED <<now, queueVars, callVars>>
    BY <1>12 DEF DrainSkip
  <2> HIDE DEF s, r
  <2>5. LimiterTypeOK'
    BY <1>a, <2>1, <2>4, LimiterStep
  <2>6. DrainTypeOK'
    BY <1>8, <2>3, <2>4 DEF queueVars
  <2> QED
    BY <1>a, <2>4, <2>5, <2>6 DEF TypeOK, QueueTypeOK, CallTypeOK, CallStates, queueVars, callVars
<1>13. ASSUME NEW d \in Drainers, DrainTake(d) PROVE TypeOK'
  <2> DEFINE s == order[drain[d].pos]
             c == Head(queue[s])
             r == [drain[d] EXCEPT !.at = "logging", !.call = c]
  <2>1. s \in Services /\ drain[d].pos > 0
    BY <1>a, <1>13, DrainedService DEF DrainTake
  <2>2. drain[d] \in DrainStates /\ drain[d].size <= Len(order)
    BY <1>a DEF DrainTypeOK
  <2>3. /\ queue[s] # <<>> /\ Dequeue(s) /\ Record(s)
        /\ status' = [status EXCEPT ![c] = "taken"]
        /\ drain' = [drain EXCEPT ![d] = r]
        /\ UNCHANGED <<now, inflight, order, retries, wake>>
    BY <1>13 DEF DrainTake
  <2>4. c \in Calls
    BY <1>a, <2>1, <2>3, HeadTailProperties DEF QueueTypeOK
  <2>5. r \in DrainStates /\ r.size <= Len(order)
    BY <2>1, <2>2, <2>4 DEF DrainStates, DrainRecords
  <2> HIDE DEF s, c, r
  <2>6. LimiterTypeOK'
    BY <1>a, <2>1, <2>3, LimiterStep
  <2>7. QueueTypeOK'
    BY <1>a, <2>1, <2>3, <2>4, QueueStep
  <2>8. CallTypeOK'
    BY <1>a, <2>3, <2>4 DEF CallTypeOK, CallStates
  <2>9. DrainTypeOK'
    BY <1>8, <2>3, <2>5
  <2> QED
    BY <2>6, <2>7, <2>8, <2>9 DEF TypeOK
<1>16. ASSUME NEW d \in Drainers, DrainRun(d) PROVE TypeOK'
  <2> DEFINE c == drain[d].call
             r == [drain[d] EXCEPT !.at = "running"]
  <2>1. /\ drain[d] \in DrainStates /\ drain[d].size <= Len(order)
        /\ c \in Calls /\ drain[d].pos > 0
    BY <1>a, <1>16 DEF DrainTypeOK, DrainStates, DrainRecords, DrainRun
  <2>2. r \in DrainStates /\ r.size <= Len(order)
    BY <2>1 DEF DrainStates, DrainRecords
  <2>3. /\ Acquire(ServiceOf[c])
        /\ status' = [status EXCEPT ![c] = "calling"]
        /\ drain' = [drain EXCEPT ![d] = r]
        /\ UNCHANGED <<now, events, admissions, queue, order, totals, retries, wake>>
    BY <1>16 DEF DrainRun, queueVars
  <2> HIDE DEF c, r
  <2>4. LimiterTypeOK'
    BY <1>a, <1>b, <2>1, <2>3, LimiterStep
  <2>5. CallTypeOK' /\ QueueTypeOK'
    BY <1>a, <2>1, <2>3 DEF CallTypeOK, CallStates, QueueTypeOK
  <2>6. DrainTypeOK'
    BY <1>8, <2>2, <2>3
  <2> QED
    BY <2>4, <2>5, <2>6 DEF TypeOK
<1>17. ASSUME NEW d \in Drainers, DrainLogFails(d) PROVE TypeOK'
  <2>1. /\ status' = [status EXCEPT ![drain[d].call] = "lost"]
        /\ drain' = [drain EXCEPT ![d] = NoDrain]
        /\ UNCHANGED <<now, limiterVars, queue, order, totals, retries, wake>>
    BY <1>17 DEF DrainLogFails, queueVars
  <2>2. LimiterTypeOK' /\ CallTypeOK' /\ QueueTypeOK'
    BY <1>a, <2>1 DEF LimiterTypeOK, CallTypeOK, CallStates, QueueTypeOK, limiterVars
  <2>3. NoDrain \in DrainStates /\ NoDrain.size <= Len(order)
    BY <1>c
  <2>4. DrainTypeOK'
    BY <1>8, <2>1, <2>3
  <2> QED
    BY <2>2, <2>4 DEF TypeOK
<1>14. ASSUME NEW s \in Services, GetQueueStatus(s) PROVE TypeOK'
  <2>1. CreateQueue(s) /\ UNCHANGED <<now, limiterVars, queue, totals, callVars, drain>>
    BY <1>14 DEF GetQueueStatus
  <2>2. DrainTypeOK'
    BY <1>a, <2>1, CreateQueueStep
  <2> QED
    BY <1>a, <2>1, <2>2 DEF TypeOK, LimiterTypeOK, QueueTypeOK, CallTypeOK, CallStates, limiterVars, callVars
<1>15. CASE UNCHANGED vars
  BY <1>a, <1>9, <1>15 DEF vars, TypeOK, DrainTypeOK
<1> QED
  BY <1>1, <1>2, <1>4, <1>5, <1>6, <1>7, <1>10, <1>11, <1>12, <1>13, <1>14, <1>15,
     <1>16, <1>17 DEF Next

(* Type correctness: whatever the limits, no counter goes negative, no     *)
(* call is retried more than max_retries times and no drain indexes past   *)
(* the queues.                                                             *)
THEOREM TypeCorrect == Spec => []TypeOK
<1> QED
  BY InitTypeOK, NextTypeOK, PTL DEF Spec

-----------------------------------------------------------------------------
(* Deferred calls stay queued until they are taken *)

(* Steps that neither queue a call nor take one from its queue.            *)
LEMMA OverflowKept ==
  ASSUME TypeOK, OverflowConserved, UNCHANGED queue,
         \A s \in Services : /\ totals'[s].enqueued = totals[s].enqueued
                             /\ totals'[s].drained = totals[s].drained,
         \A c \in Calls : status'[c] = "queued" <=> status[c] = "queued"
  PROVE  OverflowConserved'
<1>1. \A s \in Services : \A i \in DOMAIN queue[s] : queue[s][i] \in Calls
  BY LenProperties, ElementOfSeq DEF TypeOK, QueueTypeOK
<1>2. QueuedOnce'
  BY <1>1 DEF OverflowConserved, QueuedOnce
<1>3. NoneLost'
  BY DEF OverflowConserved, NoneLost
<1>4. Accounted'
  BY DEF OverflowConserved, Accounted
<1> QED
  BY <1>2, <1>3, <1>4 DEF OverflowConserved

(* A call that waits in no queue joins the queue of its service.           *)
LEMMA OverflowEnqueued ==
  ASSUME TypeOK, OverflowConserved, NEW c \in Calls,
         status[c] # "queued", Enqueue(c, ServiceOf[c]),
         status' = [status EXCEPT ![c] = "queued"]
  PROVE  OverflowConserved'
<1> DEFINE s == ServiceOf[c]
           q == Append(queue[s], c)
<1>1. s \in Services
  BY CallsAssumption
<1>2. /\ queue \in [Services -> Seq(Calls)]
      /\ totals \in [Services -> [enqueued : Nat, drained : Nat, backpressure : Nat]]
      /\ status \in [Calls -> CallStates]
  BY DEF TypeOK, QueueTypeOK, CallTypeOK
<1>3. /\ queue' = [queue EXCEPT ![s] = q]
      /\ totals' = [totals EXCEPT ![s] = [totals[s] EXCEPT !.enqueued = @ + 1]]
  BY DEF Enqueue
<1>4. /\ Len(queue[s]) \in Nat
      /\ DOMAIN queue[s] = 1 .. Len(queue[s])
      /\ Len(q) = Len(queue[s]) + 1
      /\ DOMAIN q = 1 .. Len(queue[s]) + 1
      /\ \A i \in 1 .. Len(queue[s]) : q[i] = queue[s][i]
      /\ q[Len(queue[s]) + 1] = c
  BY <1>1, <1>2, AppendProperties, LenProperties
<1>5. \A t \in Services : \A i \in DOMAIN queue[t] : queue[t][i] \in Calls /\ queue[t][i] # c
  <2>1. \A t \in Services : \A i \in DOMAIN queue[t] : queue[t][i] \in Calls
    BY <1>2, LenProperties, ElementOfSeq
  <2> QED
    BY <2>1 DEF OverflowConserved, QueuedOnce
<1> HIDE DEF q
<1>6. QueuedOnce'
  <2> SUFFICES ASSUME NEW t \in Services, NEW i \in DOMAIN queue'[t]
               PROVE  /\ status'[queue'[t][i]] = "queued" /\ ServiceOf[queue'[t][i]] = t
                      /\ \A j \in DOMAIN queue'[t] : queue'[t][i] = queue'[t][j] => i = j
    BY DEF QueuedOnce
  <2>1. CASE t = s
    <3>1. queue'[t] = q /\ i \in 1 .. Len(queue[s]) + 1
      BY <1>1, <1>2, <1>3, <1>4, <2>1
    <3>2. CASE i = Len(queue[s]) + 1
      <4>1. q[i] = c /\ ServiceOf[c] = s /\ status'[c] = "queued"
        BY <1>2, <1>4, <3>2
      <4>2. ASSUME NEW j \in DOMAIN q, q[j] = c PROVE j = i
        BY <1>1, <1>4, <1>5, <3>2, <4>2
      <4> QED
        BY <2>1, <3>1, <4>1, <4>2
    <3>3. CASE i \in 1 .. Len(queue[s])
      <4>1. /\ q[i] = queue[s][i] /\ q[i] # c /\ q[i] \in Calls
            /\ status[q[i]] = "queued" /\ ServiceOf[q[i]] = s
        BY <1>1, <1>4, <1>5, <3>3 DEF OverflowConserved, QueuedOnce
      <4>2. status'[q[i]] = "queued"
        BY <1>2, <4>1
      <4>3. ASSUME NEW j \in DOMAIN q, q[i] = q[j] PROVE i = j
        <5>1. j \in 1 .. Len(queue[s])
          BY <1>4, <4>1, <4>3
        <5> QED
          BY <1>1, <1>4, <3>3, <4>3, <5>1 DEF OverflowConserved, QueuedOnce
      <4> QED
        BY <2>1, <3>1, <4>1, <4>2, <4>3
    <3> QED
      BY <1>4, <3>1, <3>2, <3>3
  <2>2. CASE t # s
    <3>1. queue'[t] = queue[t]
      BY <1>2, <1>3, <2>2
    <3> QED
      BY <1>2, <1>5, <3>1 DEF OverflowConserved, QueuedOnce
  <2> QED
    BY <2>1, <2>2
<1>7. NoneLost'
  <2> SUFFICES ASSUME NEW e \in Calls, status'[e] = "queued"
               PROVE  \E i \in DOMAIN queue'[ServiceOf[e]] : queue'[ServiceOf[e]][i] = e
    BY DEF NoneLost
  <2>1. CASE e = c
    <3>1. queue'[s] = q
      BY <1>1, <1>2, <1>3
    <3>2. Len(queue[s]) + 1 \in DOMAIN q
      BY <1>4
    <3> QED
      BY <1>4, <2>1, <3>1, <3>2
  <2>2. CASE e # c
    <3>1. PICK i \in DOMAIN queue[ServiceOf[e]] : queue[ServiceOf[e]][i] = e
      BY <1>2, <2>2 DEF OverflowConserved, NoneLost
    <3>2. ServiceOf[e] \in Services
      BY CallsAssumption
    <3>3. CASE ServiceOf[e] = s
      <4>1. i \in DOMAIN q /\ q[i] = e
        BY <1>4, <3>1, <3>3
      <4> QED
        BY <1>1, <1>2, <1>3, <3>3, <4>1
    <3>4. CASE ServiceOf[e] # s
      BY <1>2, <1>3, <3>1, <3>2, <3>4
    <3> QED
      BY <3>3, <3>4
  <2> QED
    BY <2>1, <2>2
<1>8. Accounted'
  <2> SUFFICES ASSUME NEW t \in Services
               PROVE  totals'[t].enqueued = totals'[t].drained + Len(queue'[t])
    BY DEF Accounted
  <2>1. totals[t].enqueued = totals[t].drained + Len(queue[t])
    BY DEF OverflowConserved, Accounted
  <2>2. CASE t = s
    <3>1. totals[s] \in [enqueued : Nat, drained : Nat, backpressure : Nat]
      BY <1>1, <1>2
    <3>2. /\ totals'[s].enqueued = totals[s].enqueued + 1
          /\ totals'[s].drained = totals[s].drained
      BY <1>1, <1>2, <1>3, <3>1
    <3>3. Len(queue'[s]) = Len(queue[s]) + 1
      BY <1>1, <1>2, <1>3, <1>4
    <3> HIDE DEF s
    <3>4. totals[s].enqueued = totals[s].drained + Len(queue[s])
      BY <2>1, <2>2
    <3>5. totals[s].enqueued \in Nat /\ totals[s].drained \in Nat /\ Len(queue[s]) \in Nat
      BY <1>4, <3>1 DEF s
    <3>6. totals'[s].enqueued = totals'[s].drained + Len(queue'[s])
      BY <3>2, <3>3, <3>4, <3>5
    <3> QED
      BY <2>2, <3>6
  <2>3. CASE t # s
    BY <1>2, <1>3, <2>1, <2>3
  <2> QED
    BY <2>2, <2>3
<1> QED
  BY <1>6, <1>7, <1>8 DEF OverflowConserved

(* The oldest call of a queue leaves it to run.                            *)
LEMMA OverflowDequeued ==
  ASSUME TypeOK, OverflowConserved, NEW s \in Services,
         queue[s] # <<>>, Dequeue(s),
         status' = [status EXCEPT ![Head(queue[s])] = "taken"]
  PROVE  OverflowConserved'
<1> DEFINE c == Head(queue[s])
           q == Tail(queue[s])
           n == Len(queue[s])
<1>1. /\ queue \in [Services -> Seq(Calls)]
      /\ totals \in [Services -> [enqueued : Nat, drained : Nat, backpressure : Nat]]
      /\ status \in [Calls -> CallStates]
  BY DEF TypeOK, QueueTypeOK, CallTypeOK
<1>2. /\ queue' = [queue EXCEPT ![s] = q]
      /\ totals' = [totals EXCEPT ![s] = [totals[s] EXCEPT !.drained = @ + 1]]
  BY DEF Dequeue
<1>3. /\ n \in Nat \ {0}
      /\ DOMAIN queue[s] = 1 .. n
      /\ q \in Seq(Calls) /\ Len(q) = n - 1
      /\ DOMAIN q = 1 .. n - 1
      /\ \A i \in 1 .. n - 1 : q[i] = queue[s][i + 1]
      /\ c = queue[s][1] /\ c \in Calls
  BY <1>1, HeadTailProperties, LenProperties, EmptySeq
<1>4. status[c] = "queued" /\ ServiceOf[c] = s
  BY <1>3 DEF OverflowConserved, QueuedOnce
<1>5. \A t \in Services : \A i \in DOMAIN queue[t] : queue[t][i] \in Calls
  BY <1>1, LenProperties, ElementOfSeq
<1> HIDE DEF c, q, n
<1>6. QueuedOnce'
  <2> SUFFICES ASSUME NEW t \in Services, NEW i \in DOMAIN queue'[t]
               PROVE  /\ status'[queue'[t][i]] = "queued" /\ ServiceOf[queue'[t][i]] = t
                      /\ \A j \in DOMAIN queue'[t] : queue'[t][i] = queue'[t][j] => i = j
    BY DEF QueuedOnce
  <2>1. CASE t = s
    <3>1. queue'[t] = q /\ i \in 1 .. n - 1
      BY <1>1, <1>2, <1>3, <2>1
    <3>2. /\ q[i] = queue[s][i + 1] /\ q[i] \in Calls
          /\ i + 1 \in DOMAIN queue[s] /\ 1 \in DOMAIN queue[s] /\ i + 1 # 1
      BY <1>3, <1>5, <3>1
    <3>3. q[i] # c /\ status[q[i]] = "queued" /\ ServiceOf[q[i]] = s
      BY <1>3, <3>2 DEF OverflowConserved, QueuedOnce
    <3>4. status'[q[i]] = "queued"
      BY <1>1, <3>2, <3>3 DEF c
    <3>5. ASSUME NEW j \in DOMAIN q, q[i] = q[j] PROVE i = j
      <4>1. j + 1 \in DOMAIN queue[s] /\ q[j] = queue[s][j + 1]
        BY <1>3
      <4>2. \A k, l \in DOMAIN queue[s] : queue[s][k] = queue[s][l] => k = l
        BY DEF OverflowConserved, QueuedOnce
      <4>3. i + 1 = j + 1
        BY <3>2, <3>5, <4>1, <4>2
      <4> QED
        BY <1>3, <3>1, <4>3
    <3> QED
      BY <2>1, <3>1, <3>3, <3>4, <3>5
  <2>2. CASE t # s
    <3>1. queue'[t] = queue[t]
      BY <1>1, <1>2, <2>2
    <3>2. queue[t][i] # c
      BY <1>4, <2>2, <3>1 DEF OverflowConserved, QueuedOnce
    <3> QED
      BY <1>1, <1>5, <3>1, <3>2 DEF OverflowConserved, QueuedOnce, c
  <2> QED
    BY <2>1, <2>2
<1>7. NoneLost'
  <2> SUFFICES ASSUME NEW e \in Calls, status'[e] = "queued"
               PROVE  \E i \in DOMAIN queue'[ServiceOf[e]] : queue'[ServiceOf[e]][i] = e
    BY DEF NoneLost
  <2>1. e # c /\ status[e] = "queued"
    BY <1>1, <1>3 DEF c
  <2>2. PICK i \in DOMAIN queue[ServiceOf[e]] : queue[ServiceOf[e]][i] = e
    BY <2>1 DEF OverflowConserved, NoneLost
  <2>3. ServiceOf[e] \in Services
    BY CallsAssumption
  <2>4. CASE ServiceOf[e] = s
    <3>1. i \in 2 .. n
      BY <1>3, <2>1, <2>2, <2>4
    <3>2. i - 1 \in DOMAIN q /\ q[i - 1] = e
      BY <1>3, <2>2, <2>4, <3>1
    <3>3. queue'[s] = q
      BY <1>1, <1>2
    <3> QED
      BY <2>4, <3>2, <3>3
  <2>5. CASE ServiceOf[e] # s
    BY <1>1, <1>2, <2>2, <2>3, <2>5
  <2> QED
    BY <2>4, <2>5
<1>8. Accounted'
  <2> SUFFICES ASSUME NEW t \in Services
               PROVE  totals'[t].enqueued = totals'[t].drained + Len(queue'[t])
    BY DEF Accounted
  <2>1. totals[t].enqueued = totals[t].drained + Len(queue[t])
    BY DEF OverflowConserved, Accounted
  <2>2. CASE t = s
    <3>1. totals[s] \in [enqueued : Nat, drained : Nat, backpressure : Nat]
      BY <1>1
    <3>2. /\ totals'[s].enqueued = totals[s].enqueued
          /\ totals'[s].drained = totals[s].drained + 1
      BY <1>1, <1>2, <3>1
    <3>3. Len(queue'[s]) = n - 1
      BY <1>1, <1>2, <1>3
    <3>4. totals[s].enqueued = totals[s].drained + n
      BY <2>1, <2>2 DEF n
    <3>5. totals[s].enqueued \in Nat /\ totals[s].drained \in Nat /\ n \in Nat
      BY <1>3, <3>1
    <3>6. totals'[s].enqueued = totals'[s].drained + Len(queue'[s])
      BY <3>2, <3>3, <3>4, <3>5
    <3> QED
      BY <2>2, <3>6
  <2>3. CASE t # s
    BY <1>1, <1>2, <2>1, <2>3
  <2> QED
    BY <2>2, <2>3
<1> QED
  BY <1>6, <1>7, <1>8 DEF OverflowConserved

LEMMA InitOverflow == Init => OverflowConserved
BY DEF Init, OverflowConserved, QueuedOnce, NoneLost, Accounted

LEMMA NextOverflow ==
  TypeOK /\ OverflowConserved /\ DrainsFollowCalls /\ [Next]_vars => OverflowConserved'
<1> SUFFICES ASSUME TypeOK, OverflowConserved, DrainsFollowCalls, [Next]_vars
             PROVE  OverflowConserved'
  OBVIOUS
<1>a. \A c \in Calls : ServiceOf[c] \in Services
  BY CallsAssumption
<1>b. status \in [Calls -> CallStates]
  BY DEF TypeOK, CallTypeOK
<1>1. ASSUME UNCHANGED <<queue, totals>>,
             \A c \in Calls : status'[c] = "queued" <=> status[c] = "queued"
      PROVE  OverflowConserved'
  BY <1>1, OverflowKept
<1>2. CASE Tick
  BY <1>1, <1>2 DEF Tick, queueVars, callVars
<1>3. ASSUME NEW c \in Calls, Execute(c) PROVE OverflowConserved'
  <2> DEFINE s == ServiceOf[c]
  <2>1. status[c] = "idle" /\ s \in Services /\ (ExecuteNow(c, s) \/ ExecuteLater(c, s))
    BY <1>3, <1>a DEF Execute
  <2>2. CASE ExecuteNow(c, s)
    BY <1>1, <1>b, <2>1, <2>2 DEF ExecuteNow, queueVars
  <2>3. CASE Enqueue(c, s) /\ status' = [status EXCEPT ![c] = "queued"]
    BY <2>1, <2>3, OverflowEnqueued
  <2>4. CASE Backpressure(s) /\ status' = [status EXCEPT ![c] = "refused"]
    <3>1. UNCHANGED queue /\ totals' = [totals EXCEPT ![s].backpressure = @ + 1]
      BY <2>4 DEF Backpressure
    <3>2. \A t \in Services : /\ totals'[t].enqueued = totals[t].enqueued
                              /\ totals'[t].drained = totals[t].drained
      BY <3>1 DEF TypeOK, QueueTypeOK
    <3>3. \A e \in Calls : status'[e] = "queued" <=> status[e] = "queued"
      BY <1>b, <2>1, <2>4
    <3> QED
      BY <3>1, <3>2, <3>3, OverflowKept
  <2> QED
    BY <2>1, <2>2, <2>3, <2>4 DEF ExecuteLater
<1>4. ASSUME NEW c \in Calls, EndCall(c) PROVE OverflowConserved'
  BY <1>1, <1>4, <1>b DEF EndCall, queueVars
<1>5. ASSUME NEW c \in Calls, Retry(c) \/ Wake(c) PROVE OverflowConserved'
  BY <1>1, <1>5, <1>b DEF Retry, Wake, queueVars
<1>6. ASSUME NEW d \in Drainers, DrainBegin(d) \/ DrainNext(d) \/ DrainSkip(d)
      PROVE  OverflowConserved'
  BY <1>1, <1>6 DEF DrainBegin, DrainNext, DrainSkip, queueVars, callVars
<1>7. ASSUME NEW d \in Drainers, DrainTake(d) PROVE OverflowConserved'
  <2>1. order[drain[d].pos] \in Services
    BY <1>7, DrainedService DEF DrainTake, TypeOK
  <2> QED
    BY <1>7, <2>1, OverflowDequeued DEF DrainTake
<1>10. ASSUME NEW d \in Drainers, DrainRun(d) \/ DrainLogFails(d) PROVE OverflowConserved'
  <2>1. status[drain[d].call] = "taken"
    BY <1>10 DEF DrainRun, DrainLogFails, DrainsFollowCalls
  <2> QED
    BY <1>1, <1>10, <1>b, <2>1 DEF DrainRun, DrainLogFails, queueVars
<1>8. ASSUME NEW s \in Services, GetQueueStatus(s) PROVE OverflowConserved'
  BY <1>1, <1>8 DEF GetQueueStatus, callVars
<1>9. CASE UNCHANGED vars
  BY <1>1, <1>9 DEF vars, queueVars, callVars
<1> QED
  BY <1>2, <1>3, <1>4, <1>5, <1>6, <1>7, <1>8, <1>9, <1>10 DEF Next, Succeed, Raise

-----------------------------------------------------------------------------
(* Drains and the calls they run                                           *)

(* Steps that touch no drain, end no call and take none off its queue.     *)
LEMMA DrainsKept ==
  ASSUME DrainTypeOK, DrainsFollowCalls, UNCHANGED drain,
         \A c \in Calls : status[c] \in {"calling", "sleeping"}
                             => status'[c] \in {"calling", "sleeping"},
         \A c \in Calls : status'[c] = "taken" <=> status[c] = "taken"
  PROVE  DrainsFollowCalls'
<1>1. \A d \in Drainers : drain[d].at \in {"logging", "running"} => drain[d].call \in Calls
  BY DEF DrainTypeOK, DrainStates
<1> QED
  BY <1>1 DEF DrainsFollowCalls

(* A drain that has no call, before and after, leaves the others as they   *)
(* were.                                                                   *)
LEMMA DrainGoesOn ==
  ASSUME DrainsFollowCalls, UNCHANGED status, NEW d \in Drainers,
         drain[d].at \notin {"logging", "running"},
         drain'[d].at \notin {"logging", "running"}, drain'[d].call \notin Calls,
         \A e \in Drainers : e # d => drain'[e] = drain[e]
  PROVE  DrainsFollowCalls'
<1>1. \A e \in Drainers : \/ drain'[e].at \notin {"logging", "running"}
                         \/ drain'[e] = drain[e]
  OBVIOUS
<1>2. \A e \in Drainers : drain'[e].call \in Calls => drain'[e] = drain[e]
  OBVIOUS
<1>3. \A e \in Drainers : drain[e].at = "logging" => drain'[e] = drain[e]
  OBVIOUS
<1> QED
  BY <1>1, <1>2, <1>3 DEF DrainsFollowCalls

LEMMA InitDrains == Init => DrainsFollowCalls
  BY CallsAssumption DEF Init, DrainsFollowCalls, NoDrain

LEMMA NextDrains ==
  TypeOK /\ OverflowConserved /\ DrainsFollowCalls /\ [Next]_vars => DrainsFollowCalls'
<1> SUFFICES ASSUME TypeOK, OverflowConserved, DrainsFollowCalls, [Next]_vars
             PROVE  DrainsFollowCalls'
  OBVIOUS
<1>a. status \in [Calls -> CallStates] /\ DrainTypeOK /\ drain \in [Drainers -> DrainStates]
  BY DEF TypeOK, CallTypeOK, DrainTypeOK
<1>b. \A d \in Drainers :
        /\ drain[d] \in DrainRecords
        /\ drain[d].at \in {"logging", "running"} <=> drain[d].call \in Calls
  BY <1>a DEF DrainStates
<1>c. NoCall \notin Calls
  BY CallsAssumption
<1>1. ASSUME NEW c \in Calls, Execute(c) PROVE DrainsFollowCalls'
  <2>1. \E new : status' = [status EXCEPT ![c] = new] /\ new # "taken"
    BY <1>1 DEF Execute, ExecuteNow, ExecuteLater
  <2>2. status[c] = "idle" /\ UNCHANGED drain
    BY <1>1 DEF Execute
  <2> QED
    BY <1>a, <2>1, <2>2, DrainsKept
<1>2. ASSUME NEW c \in Calls, Retry(c) \/ Wake(c) PROVE DrainsFollowCalls'
  BY <1>a, <1>2, DrainsKept DEF Retry, Wake
<1>3. ASSUME NEW c \in Calls, Succeed(c) \/ Raise(c) PROVE DrainsFollowCalls'
  <2>a. status[c] = "calling" /\ status' = [status EXCEPT ![c] = "ended"]
    <3>1. EndCall(c)
      BY <1>3, Zenon DEF Succeed, Raise
    <3> QED
      BY <3>1 DEF EndCall
  <2>1. /\ \A x \in Calls : x # c => status'[x] = status[x]
        /\ \A x \in Calls : status'[x] = "taken" <=> status[x] = "taken"
    BY <1>a, <2>a
  <2>2. ASSUME NEW d \in DrainsOf(c)
        PROVE  drain'[d].at \notin {"logging", "running"} /\ drain'[d].call \notin Calls
    <3>1. d \in Drainers
      BY DEF DrainsOf
    <3>2. CASE Succeed(c)
      <4>1. drain'[d] = [drain[d] EXCEPT !.at = "loop", !.call = NoCall]
        BY <3>1, <3>2, Zenon DEF Succeed
      <4> QED
        BY <1>b, <1>c, <3>1, <4>1 DEF DrainRecords
    <3>3. CASE Raise(c)
      <4>1. drain'[d] = NoDrain
        BY <3>1, <3>3 DEF Raise
      <4> QED
        BY <1>c, <4>1 DEF NoDrain
    <3> QED
      BY <1>3, <3>2, <3>3
  <2>3. \A d \in Drainers : d \notin DrainsOf(c) => drain'[d] = drain[d]
    BY <1>3, Zenon DEF Succeed, Raise
  <2>4. \A d \in Drainers : drain'[d].call \in Calls \/ drain'[d].at \in {"logging", "running"}
          => drain'[d] = drain[d]
    BY <2>2, <2>3
  <2>5. \A d \in Drainers : drain'[d].at = "running" => drain'[d].call # c
    BY <2>2, <2>3, <2>4 DEF DrainsOf
  <2>6. \A d \in Drainers : drain[d].at = "logging" => drain'[d] = drain[d]
    BY <2>3 DEF DrainsOf
  <2>7. \A d \in Drainers : drain'[d].at \in {"logging", "running"} => drain'[d].call \in Calls
    BY <1>b, <2>4
  <2> QED
    BY <2>1, <2>4, <2>5, <2>6, <2>7 DEF DrainsFollowCalls
<1>4. ASSUME NEW d \in Drainers, DrainBegin(d) \/ DrainNext(d) \/ DrainSkip(d)
      PROVE  DrainsFollowCalls'
  <2>1. /\ drain[d].at \notin {"logging", "running"} /\ UNCHANGED status
        /\ drain'[d].at \notin {"logging", "running"}
        /\ drain'[d].call \notin Calls
    BY <1>a, <1>b, <1>c, <1>4
    DEF DrainBegin, DrainNext, DrainSkip, callVars, NoDrain, DrainRecords
  <2>2. \A e \in Drainers : e # d => drain'[e] = drain[e]
    BY <1>a, <1>4 DEF DrainBegin, DrainNext, DrainSkip
  <2> QED
    BY <2>1, <2>2, DrainGoesOn
<1>5. ASSUME NEW d \in Drainers, DrainTake(d) PROVE DrainsFollowCalls'
  <2> DEFINE s == order[drain[d].pos]
             c == Head(queue[s])
  <2>1. c \in Calls /\ status[c] = "queued"
    <3>1. s \in Services
      BY <1>5, DrainedService DEF TypeOK, DrainTake
    <3>2. queue[s] \in Seq(Calls) /\ queue[s] # <<>>
      BY <1>5, <3>1 DEF DrainTake, TypeOK, QueueTypeOK
    <3>3. 1 \in DOMAIN queue[s] /\ queue[s][1] = c
      BY <3>2
    <3> QED
      BY <3>1, <3>2, <3>3 DEF OverflowConserved, QueuedOnce
  <2>2. /\ status' = [status EXCEPT ![c] = "taken"]
        /\ drain' = [drain EXCEPT ![d].at = "logging", ![d].call = c]
        /\ drain[d].at = "loop"
    BY <1>5 DEF DrainTake
  <2> HIDE DEF c
  <2>3. drain'[d].at = "logging" /\ drain'[d].call = c /\ status'[c] = "taken"
    BY <1>a, <1>b, <2>1, <2>2 DEF DrainRecords
  <2>4. \A e \in Drainers : e # d => drain'[e] = drain[e]
    BY <1>a, <2>2
  <2>5. \A x \in Calls : x # c => status'[x] = status[x]
    BY <1>a, <2>2
  <2>6. \A e \in Drainers : drain[e].call # c
    BY <1>b, <2>1 DEF DrainsFollowCalls
  <2>7. \A e \in Drainers : drain[e].at \in {"logging", "running"} => drain[e].call \in Calls
    BY <1>b
  <2>8. \A e \in Drainers :
          /\ drain'[e].at = "logging" => status'[drain'[e].call] = "taken"
          /\ drain'[e].at = "running" => status'[drain'[e].call] \in {"calling", "sleeping"}
    <3> TAKE e \in Drainers
    <3>1. CASE e = d
      BY <2>3, <3>1
    <3>2. CASE e # d
      BY <2>4, <2>5, <2>6, <2>7, <3>2 DEF DrainsFollowCalls
    <3> QED
      BY <3>1, <3>2
  <2>9. \A e, f \in Drainers :
          drain'[e].call = drain'[f].call /\ drain'[e].call \in Calls => e = f
    BY <2>3, <2>4, <2>6 DEF DrainsFollowCalls
  <2>10. \A x \in Calls : status'[x] = "taken"
          => \E e \in Drainers : drain'[e].at = "logging" /\ drain'[e].call = x
    <3> TAKE x \in Calls
    <3> HAVE status'[x] = "taken"
    <3>1. CASE x = c
      BY <2>3, <3>1
    <3>2. CASE x # c
      <4>1. PICK e \in Drainers : drain[e].at = "logging" /\ drain[e].call = x
        BY <2>5, <3>2 DEF DrainsFollowCalls
      <4>2. e # d
        BY <2>2, <4>1
      <4> QED
        BY <2>4, <4>1, <4>2
    <3> QED
      BY <3>1, <3>2
  <2> QED
    BY <2>8, <2>9, <2>10 DEF DrainsFollowCalls
<1>6. ASSUME NEW d \in Drainers, DrainRun(d) \/ DrainLogFails(d) PROVE DrainsFollowCalls'
  <2> DEFINE c == drain[d].call
  <2>1. drain[d].at = "logging" /\ c \in Calls /\ status[c] = "taken"
    BY <1>b, <1>6 DEF DrainRun, DrainLogFails, DrainsFollowCalls
  <2>2. /\ \A x \in Calls : x # c => status'[x] = status[x]
        /\ status'[c] # "taken"
    BY <1>a, <1>6, <2>1 DEF DrainRun, DrainLogFails
  <2>3. \A e \in Drainers : e # d => drain'[e] = drain[e]
    BY <1>a, <1>6 DEF DrainRun, DrainLogFails
  <2>4. \/ drain'[d].at = "running" /\ drain'[d].call = c /\ status'[c] = "calling"
        \/ drain'[d].at = "idle" /\ drain'[d].call \notin Calls
    BY <1>a, <1>b, <1>c, <1>6, <2>1 DEF DrainRun, DrainLogFails, NoDrain, DrainRecords
  <2>5. \A e \in Drainers : e # d => drain[e].call # c
    BY <2>1 DEF DrainsFollowCalls
  <2>6. \A e \in Drainers : drain[e].at \in {"logging", "running"} => drain[e].call \in Calls
    BY <1>b
  <2> HIDE DEF c
  <2>7. \A e, f \in Drainers :
          drain'[e].call = drain'[f].call /\ drain'[e].call \in Calls => e = f
    BY <2>3, <2>4, <2>5 DEF DrainsFollowCalls
  <2>8. \A e \in Drainers :
          /\ drain'[e].at = "logging" => status'[drain'[e].call] = "taken"
          /\ drain'[e].at = "running" => status'[drain'[e].call] \in {"calling", "sleeping"}
    BY <2>2, <2>3, <2>4, <2>5, <2>6 DEF DrainsFollowCalls
  <2>9. \A x \in Calls : status'[x] = "taken"
          => \E e \in Drainers : drain'[e].at = "logging" /\ drain'[e].call = x
    <3> TAKE x \in Calls
    <3> HAVE status'[x] = "taken"
    <3>1. x # c /\ status[x] = "taken"
      BY <2>2
    <3>2. PICK e \in Drainers : drain[e].at = "logging" /\ drain[e].call = x
      BY <3>1 DEF DrainsFollowCalls
    <3>3. e # d
      BY <3>1, <3>2 DEF c
    <3> QED
      BY <2>3, <3>2, <3>3
  <2> QED
    BY <2>7, <2>8, <2>9 DEF DrainsFollowCalls
<1>7. CASE Tick \/ UNCHANGED vars \/ \E s \in Services : GetQueueStatus(s)
  BY <1>a, <1>7, DrainsKept DEF Tick, vars, callVars, GetQueueStatus
<1> QED
  BY <1>1, <1>2, <1>3, <1>4, <1>5, <1>6, <1>7 DEF Next

(* A drain() logs a call it alone has taken, and waits for one in flight   *)
(* that no other drain waits for.                                          *)
THEOREM DrainsSafe == Spec => []DrainsFollowCalls
<1> QED
  BY TypeCorrect, InitOverflow, NextOverflow, InitDrains, NextDrains, PTL DEF Spec

(* Deferred calls are where they were put until they are taken, and the    *)
(* counters account for them, for any number of calls, drains and services.*)
THEOREM OverflowSafe == Spec => []OverflowConserved
<1> QED
  BY TypeCorrect, DrainsSafe, InitOverflow, NextOverflow, PTL DEF Spec

-----------------------------------------------------------------------------
(* No slot leaks, none is given back twice *)

LEMMA RunningFinite ==
  ASSUME NEW s
  PROVE  IsFiniteSet(Running(s)) /\ Cardinality(Running(s)) \in Nat
<1>1. Running(s) \in SUBSET Calls
  BY DEF Running
<1> QED
  BY <1>1, CallsAssumption, FS_Subset, FS_CardinalityType

(* Steps after which the same calls run and the counters are as before.    *)
LEMMA SlotsKept ==
  ASSUME SlotsConserved, UNCHANGED inflight,
         \A c \in Calls : status'[c] \in {"calling", "sleeping"}
                            <=> status[c] \in {"calling", "sleeping"}
  PROVE  SlotsConserved'
<1>1. \A s : Running(s)' = Running(s)
  BY DEF Running
<1> QED
  BY <1>1 DEF SlotsConserved

(* A call that was not running starts, and takes a slot.                   *)
LEMMA SlotTaken ==
  ASSUME TypeOK, SlotsConserved, NEW c \in Calls, NEW s, s = ServiceOf[c],
         status[c] \notin {"calling", "sleeping"},
         Acquire(s), status' = [status EXCEPT ![c] = "calling"]
  PROVE  SlotsConserved'
<1>1. /\ status \in [Calls -> CallStates]
      /\ inflight \in [Services -> Nat] /\ s \in Services
  BY CallsAssumption DEF TypeOK, CallTypeOK, LimiterTypeOK
<1>2. inflight' = [inflight EXCEPT ![s] = @ + 1]
  BY DEF Acquire
<1>3. Running(s)' = Running(s) \cup {c} /\ c \notin Running(s)
  BY <1>1 DEF Running
<1>4. Cardinality(Running(s)') = Cardinality(Running(s)) + 1
  BY <1>3, RunningFinite, FS_AddElement
<1>5. \A t \in Services : t # s => Running(t)' = Running(t)
  BY <1>1 DEF Running
<1> QED
  BY <1>1, <1>2, <1>4, <1>5 DEF SlotsConserved

(* A call ends, and gives its slot back.                                   *)
LEMMA SlotReleased ==
  ASSUME TypeOK, SlotsConserved, NEW c \in Calls, EndCall(c)
  PROVE  SlotsConserved'
<1> DEFINE s == ServiceOf[c]
<1>1. /\ status \in [Calls -> CallStates]
      /\ inflight \in [Services -> Nat] /\ s \in Services
  BY CallsAssumption DEF TypeOK, CallTypeOK, LimiterTypeOK
<1>2. /\ status[c] = "calling" /\ status' = [status EXCEPT ![c] = "ended"]
      /\ inflight' = [inflight EXCEPT ![s] = IF @ > 0 THEN @ - 1 ELSE @]
  BY DEF EndCall, Release
<1>3. Running(s)' = Running(s) \ {c} /\ c \in Running(s)
  BY <1>1, <1>2 DEF Running
<1>4. Cardinality(Running(s)') = Cardinality(Running(s)) - 1
  BY <1>3, RunningFinite, FS_RemoveElement
<1>5. inflight[s] > 0
  <2>1. Cardinality(Running(s)) # 0
    BY <1>3, RunningFinite, FS_EmptySet
  <2> QED
    BY <1>1, <2>1 DEF SlotsConserved
<1>6. \A t \in Services : t # s => Running(t)' = Running(t)
  BY <1>1, <1>2 DEF Running
<1> QED
  BY <1>1, <1>2, <1>4, <1>5, <1>6 DEF SlotsConserved

LEMMA InitSlots == Init => SlotsConserved
<1> SUFFICES ASSUME Init, NEW s \in Services PROVE inflight[s] = Cardinality(Running(s))
  BY DEF SlotsConserved
<1>1. Running(s) = {}
  BY DEF Init, Running
<1> QED
  BY <1>1, FS_EmptySet DEF Init

LEMMA NextSlots ==
  TypeOK /\ OverflowConserved /\ DrainsFollowCalls /\ SlotsConserved /\ [Next]_vars
    => SlotsConserved'
<1> SUFFICES ASSUME TypeOK, OverflowConserved, DrainsFollowCalls, SlotsConserved, [Next]_vars
             PROVE  SlotsConserved'
  OBVIOUS
<1>a. \A c \in Calls : ServiceOf[c] \in Services
  BY CallsAssumption
<1>b. status \in [Calls -> CallStates]
  BY DEF TypeOK, CallTypeOK
<1>1. CASE Tick
  BY <1>1, SlotsKept DEF Tick, limiterVars, callVars
<1>2. ASSUME NEW c \in Calls, Execute(c) PROVE SlotsConserved'
  <2>1. status[c] = "idle" /\ (ExecuteNow(c, ServiceOf[c]) \/ ExecuteLater(c, ServiceOf[c]))
    BY <1>2 DEF Execute
  <2>2. CASE ExecuteNow(c, ServiceOf[c])
    BY <2>1, <2>2, SlotTaken DEF ExecuteNow, Admit
  <2>3. CASE ExecuteLater(c, ServiceOf[c])
    BY <1>b, <2>1, <2>3, SlotsKept DEF ExecuteLater, PruneOnly
  <2> QED
    BY <2>1, <2>2, <2>3
<1>3. ASSUME NEW c \in Calls, Retry(c) \/ Wake(c) PROVE SlotsConserved'
  BY <1>3, <1>b, SlotsKept DEF Retry, Wake, limiterVars
<1>4. ASSUME NEW d \in Drainers, DrainBegin(d) \/ DrainNext(d) \/ DrainSkip(d)
      PROVE  SlotsConserved'
  BY <1>4, SlotsKept DEF DrainBegin, DrainNext, DrainSkip, PruneOnly, limiterVars, callVars
<1>5. ASSUME NEW d \in Drainers, DrainTake(d) PROVE SlotsConserved'
  <2> DEFINE s == order[drain[d].pos]
             c == Head(queue[s])
  <2>1. s \in Services
    BY <1>5, DrainedService DEF DrainTake, TypeOK
  <2>2. queue[s] # <<>> /\ UNCHANGED inflight /\ status' = [status EXCEPT ![c] = "taken"]
    BY <1>5 DEF DrainTake
  <2>3. queue[s] \in Seq(Calls)
    BY <2>1 DEF TypeOK, QueueTypeOK
  <2>4. c \in Calls /\ c = queue[s][1] /\ 1 \in DOMAIN queue[s]
    BY <2>2, <2>3, HeadTailProperties, LenProperties, EmptySeq
  <2>5. status[c] = "queued"
    BY <2>1, <2>4 DEF OverflowConserved, QueuedOnce
  <2> HIDE DEF s, c
  <2> QED
    BY <1>b, <2>2, <2>4, <2>5, SlotsKept
<1>8. ASSUME NEW d \in Drainers, DrainRun(d) \/ DrainLogFails(d) PROVE SlotsConserved'
  <2>1. drain[d].call \in Calls /\ status[drain[d].call] = "taken"
    BY <1>8 DEF DrainRun, DrainLogFails, DrainsFollowCalls, TypeOK, DrainTypeOK, DrainStates
  <2>2. CASE DrainRun(d)
    BY <2>1, <2>2, SlotTaken DEF DrainRun
  <2>3. CASE DrainLogFails(d)
    BY <1>b, <2>1, <2>3, SlotsKept DEF DrainLogFails, limiterVars
  <2> QED
    BY <1>8, <2>2, <2>3
<1>6. ASSUME NEW s \in Services, GetQueueStatus(s) PROVE SlotsConserved'
  BY <1>6, SlotsKept DEF GetQueueStatus, limiterVars, callVars
<1>7. CASE UNCHANGED vars
  BY <1>7, SlotsKept DEF vars, limiterVars, callVars
<1> QED
  BY <1>1, <1>2, <1>3, <1>4, <1>5, <1>6, <1>7, <1>8, SlotReleased DEF Next, Succeed, Raise

(* The in-flight counter is the number of running calls, whatever threads  *)
(* run them and however they end.                                          *)
THEOREM SlotsSafe == Spec => []SlotsConserved
<1> QED
  BY TypeCorrect, OverflowSafe, DrainsSafe, InitSlots, NextSlots, PTL DEF Spec

-----------------------------------------------------------------------------
(* The concurrency cap                                                     *)
(*                                                                         *)
(* A call that execute() starts finds the counter below the cap, and the   *)
(* counter is at least the number of such calls in flight (SlotsConserved);*)
(* a call that drain() starts has that drain waiting for it until it ends. *)

LEMMA InlineFinite ==
  ASSUME NEW s
  PROVE  /\ IsFiniteSet(Inline(s)) /\ Cardinality(Inline(s)) \in Nat
         /\ Cardinality(Inline(s)) <= Cardinality(Running(s))
<1>1. Inline(s) \in SUBSET Running(s)
  BY DEF Inline
<1> QED
  BY <1>1, RunningFinite, FS_Subset, FS_CardinalityType

(* Steps that start no call, or one that a drain waits for, and leave no   *)
(* call that goes on without its drain.                                    *)
LEMMA CapKept ==
  ASSUME CapRespected,
         \A c \in Calls : status'[c] \in {"calling", "sleeping"} =>
            \/ DrainsOf(c)' # {}
            \/ status[c] \in {"calling", "sleeping"} /\ DrainsOf(c) = {}
  PROVE  CapRespected'
<1> SUFFICES ASSUME NEW s \in Services
             PROVE  (Cardinality(Inline(s)) <= get_service_limits(s).concurrent_max)'
  BY DEF CapRespected
<1>1. Inline(s)' \subseteq Inline(s)
  BY DEF Inline, Running
<1>2. IsFiniteSet(Inline(s)')
  BY <1>1, InlineFinite, FS_Subset
<1>3. Cardinality(Inline(s)') <= Cardinality(Inline(s)) /\ Cardinality(Inline(s)') \in Nat
  BY <1>1, <1>2, InlineFinite, FS_Subset, FS_CardinalityType
<1>4. get_service_limits(s).concurrent_max \in Nat
  BY LimitsOfService DEF ServiceLimits
<1>5. Cardinality(Inline(s)) <= get_service_limits(s).concurrent_max
  BY DEF CapRespected
<1> QED
  BY <1>3, <1>4, <1>5, InlineFinite DEF get_service_limits

(* execute() starts a call only below the cap.                             *)
LEMMA CapTaken ==
  ASSUME TypeOK, SlotsConserved, CapRespected, NEW c \in Calls,
         ExecuteNow(c, ServiceOf[c]), UNCHANGED drain
  PROVE  CapRespected'
<1> SUFFICES ASSUME NEW s \in Services
             PROVE  (Cardinality(Inline(s)) <= get_service_limits(s).concurrent_max)'
  BY DEF CapRespected
<1>1. /\ status \in [Calls -> CallStates]
      /\ inflight \in [Services -> Nat]
      /\ status' = [status EXCEPT ![c] = "calling"]
  BY DEF TypeOK, CallTypeOK, LimiterTypeOK, ExecuteNow
<1>2. \A x : DrainsOf(x)' = DrainsOf(x)
  BY DEF DrainsOf
<1>3. get_service_limits(s).concurrent_max \in Nat
  BY LimitsOfService DEF ServiceLimits
<1>4. CASE s = ServiceOf[c]
  <2>1. inflight[s] < get_service_limits(s).concurrent_max
    BY <1>1, <1>3, <1>4 DEF ExecuteNow, at_concurrency_cap
  <2>2. Cardinality(Inline(s)) <= inflight[s]
    BY InlineFinite DEF SlotsConserved
  <2>3. Inline(s)' \in SUBSET (Inline(s) \cup {c})
    BY <1>1, <1>2 DEF Inline, Running
  <2>4. /\ IsFiniteSet(Inline(s) \cup {c})
        /\ Cardinality(Inline(s) \cup {c}) <= Cardinality(Inline(s)) + 1
    <3>1. IsFiniteSet(Inline(s)) /\ Cardinality(Inline(s)) \in Nat
      BY InlineFinite
    <3>2. /\ IsFiniteSet(Inline(s) \cup {c})
          /\ Cardinality(Inline(s) \cup {c})
               = IF c \in Inline(s) THEN Cardinality(Inline(s)) ELSE Cardinality(Inline(s)) + 1
      BY <3>1, FS_AddElement
    <3> QED
      BY <3>1, <3>2
  <2>5. /\ Cardinality(Inline(s)') <= Cardinality(Inline(s) \cup {c})
        /\ Cardinality(Inline(s)') \in Nat /\ Cardinality(Inline(s) \cup {c}) \in Nat
    BY <2>3, <2>4, FS_Subset, FS_CardinalityType
  <2> QED
    BY <1>1, <1>3, <2>1, <2>2, <2>4, <2>5, InlineFinite DEF get_service_limits
<1>5. CASE s # ServiceOf[c]
  <2>1. Inline(s)' = Inline(s)
    BY <1>1, <1>2, <1>5 DEF Inline, Running
  <2> QED
    BY <2>1 DEF CapRespected, get_service_limits
<1> QED
  BY <1>4, <1>5

LEMMA InitCap == Init => CapRespected
<1> SUFFICES ASSUME Init, NEW s \in Services
             PROVE  Cardinality(Inline(s)) <= get_service_limits(s).concurrent_max
  BY DEF CapRespected
<1>1. Inline(s) = {}
  BY DEF Init, Inline, Running
<1> QED
  BY <1>1, FS_EmptySet, LimitsOfService DEF ServiceLimits

LEMMA NextCap ==
  TypeOK /\ OverflowConserved /\ SlotsConserved /\ CapRespected /\ [Next]_vars
    => CapRespected'
<1> SUFFICES ASSUME TypeOK, OverflowConserved, SlotsConserved, CapRespected, [Next]_vars
             PROVE  CapRespected'
  OBVIOUS
<1>a. /\ status \in [Calls -> CallStates]
      /\ drain \in [Drainers -> DrainStates]
  BY DEF TypeOK, CallTypeOK, DrainTypeOK
<1>1. ASSUME UNCHANGED drain,
             \A c \in Calls : status'[c] \in {"calling", "sleeping"}
                                 => status[c] \in {"calling", "sleeping"}
      PROVE  CapRespected'
  BY <1>1, CapKept DEF DrainsOf
<1>2. ASSUME NEW c \in Calls, Execute(c) PROVE CapRespected'
  <2>1. CASE ExecuteNow(c, ServiceOf[c])
    BY <1>2, <2>1, CapTaken DEF Execute
  <2>2. CASE ExecuteLater(c, ServiceOf[c])
    BY <1>a, <1>1, <1>2, <2>2 DEF Execute, ExecuteLater
  <2> QED
    BY <1>2, <2>1, <2>2 DEF Execute
<1>3. ASSUME NEW c \in Calls, Succeed(c) \/ Raise(c) PROVE CapRespected'
  <2>1. status' = [status EXCEPT ![c] = "ended"]
    BY <1>3 DEF Succeed, Raise, EndCall
  <2>2. \A d \in Drainers : d \notin DrainsOf(c) => drain'[d] = drain[d]
    BY <1>3 DEF Succeed, Raise
  <2>3. ASSUME NEW x \in Calls, x # c PROVE DrainsOf(x) \subseteq DrainsOf(x)'
    BY <2>2, <2>3 DEF DrainsOf
  <2> QED
    BY <1>a, <2>1, <2>3, CapKept
<1>4. ASSUME NEW c \in Calls, Retry(c) \/ Wake(c) PROVE CapRespected'
  BY <1>a, <1>1, <1>4 DEF Retry, Wake
<1>5. ASSUME NEW d \in Drainers, DrainBegin(d) \/ DrainNext(d) \/ DrainSkip(d)
      PROVE  CapRespected'
  <2>1. /\ UNCHANGED status /\ drain[d].at # "running"
        /\ \A e \in Drainers : e # d => drain'[e] = drain[e]
    BY <1>a, <1>5 DEF DrainBegin, DrainNext, DrainSkip, callVars
  <2>2. \A x \in Calls : DrainsOf(x) \subseteq DrainsOf(x)'
    BY <2>1 DEF DrainsOf
  <2> QED
    BY <2>1, <2>2, CapKept
<1>6. ASSUME NEW d \in Drainers, DrainTake(d) \/ DrainLogFails(d) PROVE CapRespected'
  <2>1. /\ \E x, new : status' = [status EXCEPT ![x] = new] /\ new \in {"taken", "lost"}
        /\ drain[d].at # "running"
        /\ \A e \in Drainers : e # d => drain'[e] = drain[e]
    BY <1>a, <1>6 DEF DrainTake, DrainLogFails
  <2>2. \A x \in Calls : DrainsOf(x) \subseteq DrainsOf(x)'
    BY <2>1 DEF DrainsOf
  <2>3. \A x \in Calls : drain'[d].at = "running" => FALSE
    BY <1>a, <1>6 DEF DrainTake, DrainLogFails, NoDrain, DrainStates, DrainRecords
  <2>4. \A x \in Calls : DrainsOf(x)' = DrainsOf(x)
    BY <2>1, <2>3 DEF DrainsOf
  <2> QED
    BY <1>a, <2>1, <2>4, CapKept
<1>9. ASSUME NEW d \in Drainers, DrainRun(d) PROVE CapRespected'
  <2> DEFINE c == drain[d].call
  <2>1. /\ status' = [status EXCEPT ![c] = "calling"] /\ drain[d].at # "running"
        /\ drain' = [drain EXCEPT ![d].at = "running"]
    BY <1>9 DEF DrainRun
  <2>2. drain'[d].at = "running" /\ drain'[d].call = c
    BY <1>a, <2>1 DEF DrainStates, DrainRecords
  <2> HIDE DEF c
  <2>3. \A e \in Drainers : e # d => drain'[e] = drain[e]
    BY <1>a, <2>1
  <2>4. ASSUME NEW x \in Calls, x = c PROVE d \in DrainsOf(x)'
    BY <2>2, <2>4 DEF DrainsOf
  <2>5. \A x \in Calls : DrainsOf(x) \subseteq DrainsOf(x)'
    BY <2>1, <2>3 DEF DrainsOf
  <2>6. \A x \in Calls : x # c => status'[x] = status[x]
    BY <1>a, <2>1
  <2> QED
    BY <2>4, <2>5, <2>6, CapKept
<1>7. ASSUME NEW s \in Services, GetQueueStatus(s) PROVE CapRespected'
  BY <1>1, <1>7 DEF GetQueueStatus, callVars
<1>8. CASE Tick \/ UNCHANGED vars
  BY <1>1, <1>8 DEF Tick, vars, callVars
<1> QED
  BY <1>2, <1>3, <1>4, <1>5, <1>6, <1>7, <1>8, <1>9 DEF Next

(* The calls that execute() starts stay within concurrent_max, whatever    *)
(* drains do; without a drain these are all the calls in flight.           *)
THEOREM CapSafe == Spec => []CapRespected
<1> QED
  BY TypeCorrect, OverflowSafe, SlotsSafe, InitCap, NextCap, PTL DEF Spec

-----------------------------------------------------------------------------
(* The sliding windows                                                     *)
(*                                                                         *)
(* WindowsRespected speaks of every admission there ever was, check() of   *)
(* the timestamps _prune() has left.  The invariant that ties them: the    *)
(* admissions are in order, events is a suffix of them, and those pruned   *)
(* are an hour old, so that they count for neither window.                 *)

InOrder(adm) ==
  /\ \A i \in DOMAIN adm : adm[i] <= now
  /\ \A i, j \in DOMAIN adm : i <= j => adm[i] <= adm[j]

Remembers(ev, adm) ==
  /\ Len(ev) <= Len(adm)
  /\ \A i \in 1 .. Len(ev) : ev[i] = adm[Len(adm) - Len(ev) + i]
  /\ \A i \in 1 .. Len(adm) - Len(ev) : adm[i] <= now - Hour

HistorySound ==
  \A s \in Services : InOrder(admissions[s]) /\ Remembers(events[s], admissions[s])

(* Everything _prune() pops has expired.                                   *)
LEMMA StaleExpired ==
  ASSUME NEW ev \in Seq(Nat), NEW cutoff \in Int,
         NEW i \in 1 .. Cardinality(Stale(ev, cutoff))
  PROVE  i \in 1 .. Len(ev) /\ ev[i] <= cutoff
<1> DEFINE k == Cardinality(Stale(ev, cutoff))
<1>1. k \in 0 .. Len(ev) /\ Len(ev) \in Nat /\ DOMAIN ev = 1 .. Len(ev)
  BY StaleBounds, LenProperties
<1>2. k \in Stale(ev, cutoff)
  <2> SUFFICES ASSUME k \notin Stale(ev, cutoff) PROVE FALSE
    OBVIOUS
  <2>1. k \in 1 .. Len(ev)
    BY <1>1
  <2>2. ASSUME NEW j \in Stale(ev, cutoff) PROVE j \in 1 .. k - 1
    <3>1. j \in 1 .. Len(ev) /\ \A l \in 1 .. j : ev[l] <= cutoff
      BY <1>1 DEF Stale
    <3>2. CASE j >= k
      <4>1. \A l \in 1 .. k : ev[l] <= cutoff
        BY <2>1, <3>1, <3>2
      <4>2. k \in Stale(ev, cutoff)
        BY <1>1, <2>1, <4>1 DEF Stale
      <4> QED
        BY <4>2
    <3> QED
      BY <2>1, <3>1, <3>2
  <2>3. IsFiniteSet(1 .. k - 1) /\ Cardinality(1 .. k - 1) = k - 1
    BY <2>1, FS_Interval
  <2>4. k <= k - 1
    BY <2>2, <2>3, FS_Subset
  <2> QED
    BY <2>1, <2>4
<1>3. \A j \in 1 .. k : ev[j] <= cutoff
  BY <1>2 DEF Stale
<1> QED
  BY <1>1, <1>3

(* What _prune() leaves: the timestamps after the expired prefix.          *)
LEMMA PrunedSuffix ==
  ASSUME NEW ev \in Seq(Nat)
  PROVE  LET k == Cardinality(Stale(ev, now - Hour))
         IN  /\ Len(Pruned(ev)) = Len(ev) - k
             /\ \A i \in 1 .. Len(ev) - k : Pruned(ev)[i] = ev[k + i]
<1> DEFINE k == Cardinality(Stale(ev, now - Hour))
           p == Pruned(ev)
<1>1. /\ Len(ev) \in Nat /\ k \in 0 .. Len(ev)
      /\ \A i \in 1 .. Len(ev) : ev[i] \in Nat
  BY StaleBounds, LenProperties, ElementOfSeq
<1>2. /\ Len(p) = Len(ev) - k
      /\ \A i \in 1 .. Len(ev) - k : p[i] = ev[k + i]
  <2>1. \A i \in k + 1 .. Len(ev) : ev[i] \in Nat
    BY <1>1
  <2>2. /\ Len(SubSeq(ev, k + 1, Len(ev))) =
             IF k + 1 <= Len(ev) THEN Len(ev) - (k + 1) + 1 ELSE 0
        /\ \A i \in 1 .. Len(ev) - (k + 1) + 1 :
             SubSeq(ev, k + 1, Len(ev))[i] = ev[k + 1 + i - 1]
    <3> HIDE DEF k
    <3>1. k + 1 \in Int /\ Len(ev) \in Int
      BY <1>1
    <3> DEFINE m == k + 1
               n == Len(ev)
    <3>2. m \in Int /\ n \in Int /\ \A i \in m .. n : ev[i] \in Nat
      BY <2>1, <3>1
    <3> HIDE DEF m, n
    <3>3. /\ Len(SubSeq(ev, m, n)) = IF m <= n THEN n - m + 1 ELSE 0
          /\ \A i \in 1 .. n - m + 1 : SubSeq(ev, m, n)[i] = ev[m + i - 1]
      BY <3>2, SubSeqProperties, SMTT(30)
    <3> QED
      BY <3>3 DEF m, n
  <2>3. p = SubSeq(ev, k + 1, Len(ev))
    BY DEF Pruned
  <2> HIDE DEF k, p
  <2>4. Len(p) = Len(ev) - k
    BY <1>1, <2>2, <2>3
  <2>5. ASSUME NEW i \in 1 .. Len(ev) - k PROVE p[i] = ev[k + i]
    <3>1. i \in 1 .. Len(ev) - (k + 1) + 1 /\ k + 1 + i - 1 = k + i
      BY <1>1
    <3> QED
      BY <2>2, <2>3, <3>1
  <2> QED
    BY <2>4, <2>5
<1> QED
  BY <1>2

(* Pruning forgets only what neither window counts.                        *)
LEMMA PrunedRemembers ==
  ASSUME now \in Nat, NEW ev \in Seq(Nat), NEW adm \in Seq(Nat), Remembers(ev, adm)
  PROVE  Remembers(Pruned(ev), adm)
<1> DEFINE k == Cardinality(Stale(ev, now - Hour))
           p == Pruned(ev)
<1>1. /\ Len(ev) \in Nat /\ Len(adm) \in Nat /\ k \in 0 .. Len(ev)
      /\ \A i \in 1 .. Len(ev) : ev[i] \in Nat
      /\ now - Hour \in Int
  BY StaleBounds, LenProperties, ElementOfSeq, TimeAssumption
<1>2. /\ Len(p) = Len(ev) - k
      /\ \A i \in 1 .. Len(ev) - k : p[i] = ev[k + i]
  BY PrunedSuffix
<1>3. \A i \in 1 .. k : ev[i] <= now - Hour
  BY <1>1, StaleExpired
<1> HIDE DEF k, p
<1>4. \A i \in 1 .. Len(p) : p[i] = adm[Len(adm) - Len(p) + i]
  <2> TAKE i \in 1 .. Len(p)
  <2>1. k + i \in 1 .. Len(ev) /\ p[i] = ev[k + i]
    BY <1>1, <1>2
  <2>2. ev[k + i] = adm[Len(adm) - Len(ev) + (k + i)]
    BY <2>1 DEF Remembers
  <2>3. Len(adm) - Len(ev) + (k + i) = Len(adm) - Len(p) + i
    BY <1>1, <1>2
  <2> QED
    BY <2>1, <2>2, <2>3
<1>5. \A i \in 1 .. Len(adm) - Len(p) : adm[i] <= now - Hour
  <2> TAKE i \in 1 .. Len(adm) - Len(p)
  <2>1. CASE i <= Len(adm) - Len(ev)
    BY <1>1, <1>2, <2>1 DEF Remembers
  <2>2. CASE i > Len(adm) - Len(ev)
    <3> DEFINE j == i - (Len(adm) - Len(ev))
    <3>1. j \in 1 .. k /\ j \in 1 .. Len(ev) /\ Len(adm) - Len(ev) + j = i
      BY <1>1, <1>2, <2>2
    <3> HIDE DEF j
    <3>2. ev[j] = adm[i] /\ ev[j] <= now - Hour
      BY <1>3, <3>1 DEF Remembers
    <3> QED
      BY <3>2
  <2> QED
    BY <1>1, <1>2, <2>1, <2>2
<1>6. Len(p) <= Len(adm)
  BY <1>1, <1>2 DEF Remembers
<1> QED
  BY <1>4, <1>5, <1>6 DEF Remembers, p

(* check() sees enough: when it passes, the admission that would be one    *)
(* too many in a window is already outside it.                             *)
LEMMA CheckSees ==
  ASSUME TypeOK, HistorySound, NEW s \in Services, ~WindowExhausted(s),
         NEW i \in DOMAIN admissions[s]
  PROVE  /\ i = Len(admissions[s]) + 1 - get_service_limits(s).requests_per_minute
              => admissions[s][i] <= now - Minute
         /\ i = Len(admissions[s]) + 1 - get_service_limits(s).requests_per_hour
              => admissions[s][i] <= now - Hour
<1> DEFINE adm == admissions[s]
           p == Pruned(events[s])
           n == Len(adm)
           k == Len(adm) - Len(p)
           rpm == get_service_limits(s).requests_per_minute
           rph == get_service_limits(s).requests_per_hour
<1>1. /\ now \in Nat /\ adm \in Seq(Nat) /\ p \in Seq(Nat)
      /\ n \in Nat /\ Len(p) \in Nat /\ DOMAIN p = 1 .. Len(p) /\ DOMAIN adm = 1 .. n
      /\ \A j \in 1 .. n : adm[j] \in Nat
      /\ Minute \in Nat /\ Hour \in Nat /\ Minute <= Hour
      /\ rpm \in Nat /\ rph \in Nat
  BY PrunedType, LenProperties, ElementOfSeq, LimitsOfService, TimeAssumption
  DEF TypeOK, LimiterTypeOK, ServiceLimits
<1>2. InOrder(adm) /\ Remembers(p, adm)
  BY <1>1, PrunedRemembers DEF HistorySound, TypeOK, LimiterTypeOK
<1>3. CountWithin(p, Minute) < rpm /\ Len(p) < rph
  <2>1. {j \in DOMAIN p : p[j] > now - Minute} \in SUBSET (1 .. Len(p))
    BY <1>1
  <2>2. CountWithin(p, Minute) \in Nat
    <3>1. IsFiniteSet(1 .. Len(p))
      BY <1>1, FS_Interval
    <3>2. IsFiniteSet({j \in DOMAIN p : p[j] > now - Minute})
      BY <2>1, <3>1, FS_Subset
    <3> QED
      BY <3>2, FS_CardinalityType DEF CountWithin
  <2> QED
    BY <1>1, <2>2 DEF WindowExhausted
<1> HIDE DEF adm, p, n, rpm, rph
<1>4. i \in 1 .. n /\ k \in Nat
  BY <1>1, <1>2 DEF Remembers, adm, n
<1>5. i <= k => adm[i] <= now - Hour
  BY <1>2, <1>4 DEF Remembers
<1>6. i = n + 1 - rph => adm[i] <= now - Hour
  BY <1>1, <1>3, <1>4, <1>5 DEF n
<1>7. i = n + 1 - rpm => adm[i] <= now - Minute
  <2> SUFFICES ASSUME i = n + 1 - rpm, i > k, adm[i] > now - Minute PROVE FALSE
    BY <1>1, <1>4, <1>5
  <2> DEFINE recent == {j \in DOMAIN p : p[j] > now - Minute}
  <2>1. ASSUME NEW j \in i - k .. Len(p) PROVE j \in recent
    <3>1. j \in 1 .. Len(p) /\ k + j \in 1 .. n /\ i <= k + j
      BY <1>1, <1>4 DEF n
    <3>2. p[j] = adm[k + j]
      BY <1>2, <3>1 DEF Remembers
    <3>3. adm[i] <= adm[k + j]
      BY <1>1, <1>2, <1>4, <3>1 DEF InOrder
    <3> QED
      BY <1>1, <1>4, <3>1, <3>2, <3>3
  <2>2. IsFiniteSet(recent)
    <3>1. IsFiniteSet(1 .. Len(p)) /\ recent \in SUBSET (1 .. Len(p))
      BY <1>1, FS_Interval
    <3> QED
      BY <3>1, FS_Subset
  <2>3. Cardinality(i - k .. Len(p)) = rpm
    BY <1>1, <1>4, FS_Interval DEF n
  <2>4. Cardinality(i - k .. Len(p)) <= Cardinality(recent) /\ Cardinality(recent) \in Nat
    BY <2>1, <2>2, FS_Subset, FS_CardinalityType
  <2> QED
    BY <1>1, <1>3, <2>3, <2>4 DEF CountWithin
<1> QED
  BY <1>6, <1>7 DEF adm, n, rpm, rph

(* record() adds the same timestamp, the latest, to both.                  *)
LEMMA RecordSound ==
  ASSUME now \in Nat, NEW ev \in Seq(Nat), NEW adm \in Seq(Nat),
         InOrder(adm), Remembers(ev, adm)
  PROVE  InOrder(Append(adm, now)) /\ Remembers(Append(ev, now), Append(adm, now))
<1> DEFINE a == Append(adm, now)
           e == Append(ev, now)
<1>1. /\ Len(adm) \in Nat /\ Len(ev) \in Nat
      /\ DOMAIN adm = 1 .. Len(adm)
      /\ Len(a) = Len(adm) + 1 /\ DOMAIN a = 1 .. Len(adm) + 1
      /\ \A i \in 1 .. Len(adm) : a[i] = adm[i] /\ adm[i] \in Nat
      /\ a[Len(adm) + 1] = now
      /\ Len(e) = Len(ev) + 1
      /\ \A i \in 1 .. Len(ev) : e[i] = ev[i]
      /\ e[Len(ev) + 1] = now
  BY AppendProperties, LenProperties, ElementOfSeq
<1> HIDE DEF a, e
<1>2. InOrder(a)
  <2>1. \A i \in 1 .. Len(adm) : adm[i] <= now
    BY <1>1 DEF InOrder
  <2>2. \A i, j \in 1 .. Len(adm) : i <= j => adm[i] <= adm[j]
    BY <1>1 DEF InOrder
  <2>3. \A i \in 1 .. Len(adm) + 1 : a[i] <= now
    BY <1>1, <2>1
  <2>4. ASSUME NEW i \in 1 .. Len(adm) + 1, NEW j \in 1 .. Len(adm) + 1, i <= j
        PROVE  a[i] <= a[j]
    <3>1. CASE j = Len(adm) + 1
      BY <1>1, <2>3, <3>1
    <3>2. CASE i \in 1 .. Len(adm) /\ j \in 1 .. Len(adm)
      BY <1>1, <2>2, <2>4, <3>2
    <3> QED
      BY <1>1, <2>4, <3>1, <3>2
  <2> QED
    BY <1>1, <2>3, <2>4 DEF InOrder
<1>3. Remembers(e, a)
  <2>1. \A i \in 1 .. Len(e) : e[i] = a[Len(a) - Len(e) + i]
    <3> TAKE i \in 1 .. Len(e)
    <3>1. Len(a) - Len(e) + i = Len(adm) - Len(ev) + i
      BY <1>1
    <3>2. CASE i = Len(ev) + 1
      BY <1>1, <3>1, <3>2
    <3>3. CASE i \in 1 .. Len(ev)
      <4>1. Len(adm) - Len(ev) + i \in 1 .. Len(adm)
        BY <1>1, <3>3 DEF Remembers
      <4> QED
        BY <1>1, <3>1, <3>3, <4>1 DEF Remembers
    <3> QED
      BY <1>1, <3>2, <3>3
  <2>2. \A i \in 1 .. Len(a) - Len(e) : a[i] <= now - Hour
    <3> TAKE i \in 1 .. Len(a) - Len(e)
    <3>1. i \in 1 .. Len(adm) - Len(ev) /\ i \in 1 .. Len(adm)
      BY <1>1
    <3>2. adm[i] <= now - Hour
      BY <3>1 DEF Remembers
    <3> QED
      BY <1>1, <3>1, <3>2
  <2> QED
    BY <1>1, <2>1, <2>2 DEF Remembers
<1> QED
  BY <1>2, <1>3 DEF a, e

LEMMA HistoryStep ==
  ASSUME TypeOK, HistorySound, UNCHANGED now, NEW s \in Services,
         Record(s) \/ PruneOnly(s) \/ UNCHANGED <<events, admissions>>
  PROVE  HistorySound'
<1>1. /\ now \in Nat
      /\ events \in [Services -> Seq(Nat)] /\ admissions \in [Services -> Seq(Nat)]
  BY DEF TypeOK, LimiterTypeOK
<1> SUFFICES ASSUME NEW t \in Services
             PROVE  InOrder(admissions'[t]) /\ Remembers(events'[t], admissions'[t])
  BY DEF HistorySound, InOrder, Remembers
<1>2. InOrder(admissions[t]) /\ Remembers(events[t], admissions[t])
  BY DEF HistorySound
<1>3. Remembers(Pruned(events[t]), admissions[t]) /\ Pruned(events[t]) \in Seq(Nat)
  BY <1>1, <1>2, PrunedRemembers, PrunedType
<1>4. CASE Record(s) /\ t = s
  <2>1. /\ events'[t] = Append(Pruned(events[t]), now)
        /\ admissions'[t] = Append(admissions[t], now)
    BY <1>1, <1>4 DEF Record
  <2> QED
    BY <1>1, <1>2, <1>3, <2>1, RecordSound
<1>5. CASE PruneOnly(s) /\ t = s
  <2>1. events'[t] = Pruned(events[t]) /\ admissions'[t] = admissions[t]
    BY <1>1, <1>5 DEF PruneOnly
  <2> QED
    BY <1>2, <1>3, <2>1
<1>6. CASE events'[t] = events[t] /\ admissions'[t] = admissions[t]
  BY <1>2, <1>6
<1> QED
  BY <1>1, <1>4, <1>5, <1>6 DEF Record, PruneOnly

(* What a step may do to the timestamps: let time pass, admit on a check() *)
(* that passed, prune, or nothing.                                         *)
LEMMA TimestampSteps ==
  ASSUME TypeOK, [Next]_vars
  PROVE  \/ now' = now + 1 /\ UNCHANGED <<events, admissions>>
         \/ UNCHANGED <<now, events, admissions>>
         \/ /\ UNCHANGED now
            /\ \E s \in Services : (~WindowExhausted(s) /\ Record(s)) \/ PruneOnly(s)
<1>a. \A c \in Calls : ServiceOf[c] \in Services
  BY CallsAssumption
<1>1. ASSUME NEW c \in Calls, Execute(c)
      PROVE  /\ UNCHANGED now
             /\ \E s \in Services : (~WindowExhausted(s) /\ Record(s)) \/ PruneOnly(s)
  BY <1>1, <1>a DEF Execute, ExecuteNow, ExecuteLater, Admit
<1>2. ASSUME NEW d \in Drainers, DrainTake(d)
      PROVE  /\ UNCHANGED now
             /\ \E s \in Services : (~WindowExhausted(s) /\ Record(s)) \/ PruneOnly(s)
  BY <1>2, DrainedService DEF DrainTake, TypeOK
<1>3. ASSUME NEW d \in Drainers, DrainSkip(d)
      PROVE  \/ UNCHANGED <<now, events, admissions>>
             \/ UNCHANGED now /\ \E s \in Services : PruneOnly(s)
  BY <1>3, DrainedService DEF DrainSkip, TypeOK, limiterVars
<1>4. ASSUME NEW c \in Calls, Succeed(c) \/ Retry(c) \/ Wake(c) \/ Raise(c)
      PROVE  UNCHANGED <<now, events, admissions>>
  BY <1>4 DEF Succeed, Retry, Wake, Raise, EndCall, Release, limiterVars
<1>5. ASSUME NEW d \in Drainers,
             DrainBegin(d) \/ DrainNext(d) \/ DrainRun(d) \/ DrainLogFails(d)
      PROVE  UNCHANGED <<now, events, admissions>>
  BY <1>5 DEF DrainBegin, DrainNext, DrainRun, DrainLogFails, limiterVars
<1>6. ASSUME NEW s \in Services, GetQueueStatus(s)
      PROVE  UNCHANGED <<now, events, admissions>>
  BY <1>6 DEF GetQueueStatus, limiterVars
<1>7. CASE Tick
  BY <1>7 DEF Tick, limiterVars
<1>8. CASE UNCHANGED vars
  BY <1>8 DEF vars, limiterVars
<1> QED
  BY <1>1, <1>2, <1>3, <1>4, <1>5, <1>6, <1>7, <1>8 DEF Next

LEMMA InitWindows == Init => HistorySound /\ WindowsRespected
BY EmptySeq DEF Init, HistorySound, InOrder, Remembers, WindowsRespected

LEMMA NextHistory == TypeOK /\ HistorySound /\ [Next]_vars => HistorySound'
<1> SUFFICES ASSUME TypeOK, HistorySound, [Next]_vars PROVE HistorySound'
  OBVIOUS
<1>1. CASE now' = now + 1 /\ UNCHANGED <<events, admissions>>
  <2>1. ASSUME NEW s \in Services
        PROVE  /\ DOMAIN admissions[s] = 1 .. Len(admissions[s])
               /\ \A i \in DOMAIN admissions[s] : admissions[s][i] \in Nat
               /\ Len(admissions[s]) \in Nat /\ Len(events[s]) \in Nat
    BY LenProperties, ElementOfSeq DEF TypeOK, LimiterTypeOK
  <2>2. now \in Nat /\ Hour \in Nat
    BY TimeAssumption DEF TypeOK, LimiterTypeOK
  <2> SUFFICES ASSUME NEW s \in Services
               PROVE  (InOrder(admissions[s]) /\ Remembers(events[s], admissions[s]))'
    BY <1>1 DEF HistorySound
  <2> DEFINE adm == admissions[s]
             ev == events[s]
  <2>a. /\ DOMAIN adm = 1 .. Len(adm) /\ Len(adm) \in Nat /\ Len(ev) \in Nat
        /\ \A i \in 1 .. Len(adm) : adm[i] \in Nat
    BY <2>1
  <2>b. InOrder(adm) /\ Remembers(ev, adm)
    BY DEF HistorySound
  <2> HIDE DEF adm, ev
  <2>3. InOrder(admissions[s])'
    <3>1. \A i \in 1 .. Len(adm) : adm[i] <= now + 1
      BY <2>2, <2>a, <2>b DEF InOrder
    <3>2. \A i, j \in 1 .. Len(adm) : i <= j => adm[i] <= adm[j]
      BY <2>a, <2>b DEF InOrder
    <3> QED
      BY <1>1, <2>a, <3>1, <3>2 DEF InOrder, adm
  <2>4. \A i \in 1 .. Len(admissions[s]) - Len(events[s]) : admissions[s][i] <= now + 1 - Hour
    <3> SUFFICES ASSUME NEW i \in 1 .. Len(adm) - Len(ev) PROVE adm[i] <= now + 1 - Hour
      BY DEF adm, ev
    <3>1. adm[i] <= now - Hour
      BY <2>b DEF Remembers
    <3>2. adm[i] \in Nat
      BY <2>a
    <3> QED
      BY <2>2, <3>1, <3>2
  <2>5. Remembers(events[s], admissions[s])'
    <3>1. events' = events /\ admissions' = admissions /\ now' = now + 1
      BY <1>1
    <3>2. /\ Len(ev) <= Len(adm)
          /\ \A i \in 1 .. Len(ev) : ev[i] = adm[Len(adm) - Len(ev) + i]
      BY <2>b DEF Remembers
    <3>3. /\ Len(events'[s]) <= Len(admissions'[s])
          /\ \A i \in 1 .. Len(events'[s]) :
               events'[s][i] = admissions'[s][Len(admissions'[s]) - Len(events'[s]) + i]
      BY <3>1, <3>2 DEF adm, ev
    <3>4. \A i \in 1 .. Len(admissions'[s]) - Len(events'[s]) :
            admissions'[s][i] <= now' - Hour
      BY <2>2, <2>4, <3>1
    <3> QED
      BY <3>3, <3>4 DEF Remembers
  <2> QED
    BY <2>3, <2>5
<1>2. CASE UNCHANGED <<now, events, admissions>>
  BY <1>2 DEF HistorySound, InOrder, Remembers
<1>3. CASE UNCHANGED now /\ \E s \in Services : (~WindowExhausted(s) /\ Record(s)) \/ PruneOnly(s)
  BY <1>3, HistoryStep
<1> QED
  BY <1>1, <1>2, <1>3, TimestampSteps

LEMMA NextWindows ==
  TypeOK /\ HistorySound /\ WindowsRespected /\ [Next]_vars => WindowsRespected'
<1> SUFFICES ASSUME TypeOK, HistorySound, WindowsRespected, [Next]_vars
             PROVE  WindowsRespected'
  OBVIOUS
<1>1. CASE UNCHANGED admissions
  BY <1>1 DEF WindowsRespected
<1>2. ASSUME NEW s \in Services, ~WindowExhausted(s), Record(s) PROVE WindowsRespected'
  <2> DEFINE adm == admissions[s]
             n == Len(adm)
             rpm == get_service_limits(s).requests_per_minute
             rph == get_service_limits(s).requests_per_hour
  <2>1. /\ admissions \in [Services -> Seq(Nat)] /\ now \in Nat
        /\ Minute \in Nat /\ Hour \in Nat
        /\ rpm \in Nat \ {0} /\ rph \in Nat \ {0}
    BY LimitsOfService, TimeAssumption DEF TypeOK, LimiterTypeOK, ServiceLimits
  <2>2. admissions' = [admissions EXCEPT ![s] = Append(adm, now)]
    BY <1>2 DEF Record
  <2>3. /\ n \in Nat /\ DOMAIN adm = 1 .. n
        /\ DOMAIN Append(adm, now) = 1 .. n + 1
        /\ \A i \in 1 .. n : Append(adm, now)[i] = adm[i] /\ adm[i] \in Nat
        /\ Append(adm, now)[n + 1] = now
    BY <2>1, AppendProperties, LenProperties, ElementOfSeq
  <2>4. \A i \in 1 .. n : /\ i = n + 1 - rpm => adm[i] <= now - Minute
                          /\ i = n + 1 - rph => adm[i] <= now - Hour
    BY <1>2, <2>3, CheckSees
  <2> HIDE DEF rpm, rph, n, adm
  <2> SUFFICES ASSUME NEW t \in Services, NEW i \in DOMAIN admissions'[t],
                      NEW j \in DOMAIN admissions'[t]
               PROVE  /\ j = i + get_service_limits(t).requests_per_minute
                           => admissions'[t][j] >= admissions'[t][i] + Minute
                      /\ j = i + get_service_limits(t).requests_per_hour
                           => admissions'[t][j] >= admissions'[t][i] + Hour
    BY DEF WindowsRespected
  <2>5. CASE t # s
    BY <2>1, <2>2, <2>5 DEF WindowsRespected, adm
  <2>6. CASE t = s
    <3>1. admissions'[t] = Append(adm, now) /\ i \in 1 .. n + 1 /\ j \in 1 .. n + 1
      BY <2>1, <2>2, <2>3, <2>6
    <3>2. CASE j = n + 1
      <4>1. ASSUME j = i + rpm PROVE admissions'[t][j] >= admissions'[t][i] + Minute
        <5>1. i \in 1 .. n /\ i = n + 1 - rpm
          BY <2>1, <2>3, <3>1, <3>2, <4>1
        <5> QED
          BY <2>1, <2>3, <2>4, <3>1, <3>2, <5>1
      <4>2. ASSUME j = i + rph PROVE admissions'[t][j] >= admissions'[t][i] + Hour
        <5>1. i \in 1 .. n /\ i = n + 1 - rph
          BY <2>1, <2>3, <3>1, <3>2, <4>2
        <5> QED
          BY <2>1, <2>3, <2>4, <3>1, <3>2, <5>1
      <4> QED
        BY <2>6, <4>1, <4>2 DEF rpm, rph
    <3>3. CASE i \in 1 .. n /\ j \in 1 .. n
      <4>1. admissions'[t][i] = adm[i] /\ admissions'[t][j] = adm[j]
        BY <2>3, <3>1, <3>3
      <4> QED
        BY <2>3, <2>6, <3>3, <4>1 DEF WindowsRespected, adm
    <3>4. CASE i = n + 1 /\ j \in 1 .. n
      BY <2>1, <2>3, <2>6, <3>4 DEF rpm, rph
    <3> QED
      BY <2>3, <3>1, <3>2, <3>3, <3>4
  <2> QED
    BY <2>5, <2>6
<1> QED
  BY <1>1, <1>2, TimestampSteps DEF PruneOnly

(* In any minute and in any hour, wherever it starts, no more calls of a   *)
(* service are admitted than its limits allow, by execute() and drain()    *)
(* together.                                                               *)
THEOREM WindowsSafe == Spec => []WindowsRespected
<1> QED
  BY TypeCorrect, InitWindows, NextHistory, NextWindows, PTL DEF Spec

-----------------------------------------------------------------------------
(* The gatekeeper implements CallGate                                      *)
(*                                                                         *)
(* CallGate counts every call ever admitted and knows no pruning; check() *)
(* sees only what _prune() has left.  With HistorySound the two counts are *)
(* equal, by the bijection that shifts a pruned sequence onto the end of the *)
(* history, so both decide alike; QueuesBounded makes "not below the depth" *)
(* mean "at the depth" for a refusal.                                      *)

(* After pruning, every timestamp left counts for the hour.                *)
LEMMA PrunedFresh ==
  ASSUME now \in Nat, NEW ev \in Seq(Nat), NEW adm \in Seq(Nat),
         InOrder(adm), Remembers(ev, adm)
  PROVE  \A i \in 1 .. Len(Pruned(ev)) : Pruned(ev)[i] > now - Hour
<1> DEFINE k == Cardinality(Stale(ev, now - Hour))
           p == Pruned(ev)
<1>1. /\ Len(ev) \in Nat /\ DOMAIN ev = 1 .. Len(ev) /\ k \in 0 .. Len(ev)
      /\ now - Hour \in Int
      /\ \A i \in 1 .. Len(ev) : ev[i] \in Nat
  BY StaleBounds, LenProperties, ElementOfSeq, TimeAssumption
<1>2. k < Len(ev) => ev[k + 1] > now - Hour
  <2> SUFFICES ASSUME k < Len(ev), ev[k + 1] <= now - Hour PROVE FALSE
    BY <1>1
  <2>1. \A j \in 1 .. k : ev[j] <= now - Hour
    BY <1>1, StaleExpired
  <2>2. \A j \in 1 .. k + 1 : ev[j] <= now - Hour
    <3>1. k \in Nat /\ ev[k + 1] <= now - Hour
      BY <1>1
    <3> HIDE DEF k
    <3>2. \A j \in 1 .. k + 1 : j \in 1 .. k \/ j = k + 1
      BY <3>1
    <3> QED
      BY <2>1, <3>1, <3>2
  <2>3. 1 .. k + 1 \subseteq Stale(ev, now - Hour)
    <3>1. ASSUME NEW i \in 1 .. k + 1 PROVE i \in DOMAIN ev /\ \A j \in 1 .. i : ev[j] <= now - Hour
      <4> HIDE DEF k
      <4> QED
        BY <1>1, <2>2
    <3> QED
      BY <3>1 DEF Stale
  <2>4. Cardinality(1 .. k + 1) = k + 1
    <3> HIDE DEF k
    <3> QED
      BY <1>1, FS_Interval
  <2>5. k + 1 <= k
    BY <2>3, <2>4, StaleBounds, FS_Subset
  <2> QED
    BY <1>1, <2>5
<1>3. \A i \in 1 .. Len(ev) : k + 1 <= i /\ k < Len(ev) => ev[i] > now - Hour
  <2> SUFFICES ASSUME NEW i \in 1 .. Len(ev), k + 1 <= i, k < Len(ev)
               PROVE  ev[i] > now - Hour
    OBVIOUS
  <2> HIDE DEF k
  <2> DEFINE m == Len(adm) - Len(ev)
  <2>1. /\ m \in Nat /\ m + (k + 1) \in DOMAIN adm /\ m + i \in DOMAIN adm
        /\ m + (k + 1) <= m + i /\ k + 1 \in 1 .. Len(ev)
    BY <1>1, LenProperties DEF Remembers
  <2>2. ev[k + 1] = adm[m + (k + 1)] /\ ev[i] = adm[m + i]
    BY <2>1 DEF Remembers
  <2> HIDE DEF m
  <2>3. ev[k + 1] <= ev[i]
    BY <2>1, <2>2 DEF InOrder
  <2> QED
    BY <1>1, <1>2, <2>1, <2>3
<1>4. /\ Len(p) = Len(ev) - k
      /\ \A i \in 1 .. Len(ev) - k : p[i] = ev[k + i]
  BY PrunedSuffix
<1> HIDE DEF k, p
<1>5. ASSUME NEW i \in 1 .. Len(p) PROVE p[i] > now - Hour
  <2>1. k + i \in 1 .. Len(ev) /\ k + 1 <= k + i /\ k < Len(ev)
    BY <1>1, <1>4
  <2> QED
    BY <1>3, <1>4, <2>1
<1> QED
  BY <1>5 DEF p

(* A suffix that lacks only what has expired counts as many timestamps in  *)
(* a window as the whole history does.                                     *)
LEMMA SuffixCounts ==
  ASSUME now \in Nat, NEW p \in Seq(Nat), NEW adm \in Seq(Nat), Remembers(p, adm),
         NEW window \in Nat, window <= Hour
  PROVE  Cardinality({i \in DOMAIN adm : adm[i] > now - window}) = CountWithin(p, window)
<1> DEFINE S == {i \in DOMAIN p : p[i] > now - window}
           T == {i \in DOMAIN adm : adm[i] > now - window}
           m == Len(adm) - Len(p)
           f == [i \in S |-> m + i]
<1>1. /\ DOMAIN p = 1 .. Len(p) /\ DOMAIN adm = 1 .. Len(adm)
      /\ Len(p) \in Nat /\ Len(adm) \in Nat /\ m \in Nat
      /\ \A i \in 1 .. Len(adm) : adm[i] \in Nat
      /\ Hour \in Nat
  BY LenProperties, ElementOfSeq, TimeAssumption DEF Remembers
<1>2. \A i \in 1 .. Len(p) : m + i \in 1 .. Len(adm) /\ p[i] = adm[m + i]
  BY <1>1 DEF Remembers
<1>3. \A i \in 1 .. m : adm[i] <= now - Hour
  BY DEF Remembers
<1> HIDE DEF m
<1>4. \A i \in S : i \in 1 .. Len(p) /\ m + i \in T
  BY <1>1, <1>2
<1>5. \A i \in T : i - m \in S /\ m + (i - m) = i
  <2> SUFFICES ASSUME NEW i \in T PROVE i - m \in S /\ m + (i - m) = i
    OBVIOUS
  <2>1. i \in 1 .. Len(adm) /\ adm[i] > now - window /\ adm[i] \in Nat
    BY <1>1
  <2>2. i > m
    BY <1>1, <1>3, <2>1
  <2>3. i - m \in 1 .. Len(p) /\ m + (i - m) = i
    BY <1>1, <2>1, <2>2 DEF m
  <2> QED
    BY <1>1, <1>2, <2>1, <2>3
<1>6. IsFiniteSet(S)
  <2>1. IsFiniteSet(1 .. Len(p)) /\ S \subseteq 1 .. Len(p)
    BY <1>1, FS_Interval
  <2> QED
    BY <2>1, FS_Subset
<1> HIDE DEF S, T
<1>7. f \in [S -> T]
  BY <1>4
<1>8. \A i, j \in S : f[i] = f[j] => i = j
  BY <1>1, <1>4
<1>9. \A t \in T : \E i \in S : f[i] = t
  BY <1>5
<1>10. ExistsBijection(S, T)
  BY <1>7, <1>8, <1>9, Fun_IsBij DEF ExistsBijection
<1> QED
  BY <1>6, <1>10, FS_Bijection DEF S, T, CountWithin

(* CallGate counts with the Cardinality of the library too.                *)
LEMMA GateCardinality ==
  ASSUME NEW S PROVE Gate!Cardinality(S) = Cardinality(S)
  BY DEF Gate!Cardinality, Cardinality

(* check() passes exactly when both windows have room for one more call.   *)
LEMMA RoomSeen ==
  ASSUME TypeOK, HistorySound, NEW s \in Services
  PROVE  Gate!WindowsHaveRoom(s) <=> ~WindowExhausted(s)
<1> DEFINE adm == admissions[s]
           p == Pruned(events[s])
           rpm == get_service_limits(s).requests_per_minute
           rph == get_service_limits(s).requests_per_hour
<1>1. /\ now \in Nat /\ events[s] \in Seq(Nat) /\ adm \in Seq(Nat) /\ p \in Seq(Nat)
      /\ Len(p) \in Nat /\ DOMAIN p = 1 .. Len(p)
      /\ Minute \in Nat /\ Hour \in Nat /\ Minute <= Hour
      /\ rpm \in Nat /\ rph \in Nat
  BY PrunedType, LenProperties, LimitsOfService, TimeAssumption
  DEF TypeOK, LimiterTypeOK, ServiceLimits
<1>2. InOrder(adm) /\ Remembers(events[s], adm) /\ Remembers(p, adm)
  BY <1>1, PrunedRemembers DEF HistorySound
<1>3. \A i \in 1 .. Len(p) : p[i] > now - Hour
  BY <1>1, <1>2, PrunedFresh
<1> DEFINE Minutely == {i \in DOMAIN adm : adm[i] > now - Minute}
           Hourly == {i \in DOMAIN adm : adm[i] > now - Hour}
<1> HIDE DEF adm, p, rpm, rph
<1>4. Cardinality(Minutely) = CountWithin(p, Minute)
  BY <1>1, <1>2, SuffixCounts
<1>5. Cardinality(Hourly) = CountWithin(p, Hour)
  BY <1>1, <1>2, SuffixCounts
<1>6. CountWithin(p, Hour) = Len(p)
  <2>1. {i \in DOMAIN p : p[i] > now - Hour} = 1 .. Len(p)
    BY <1>1, <1>3
  <2>2. Cardinality(1 .. Len(p)) = Len(p)
    <3>1. \A n \in Nat : Cardinality(1 .. n) = n
      BY FS_Interval
    <3> QED
      BY <1>1, <3>1
  <2> QED
    BY <1>1, <2>1, <2>2 DEF CountWithin
<1>7. CountWithin(p, Minute) \in Nat
  <2>1. /\ IsFiniteSet(1 .. Len(p))
        /\ {i \in DOMAIN p : p[i] > now - Minute} \subseteq 1 .. Len(p)
    BY <1>1, FS_Interval
  <2> QED
    BY <2>1, FS_Subset, FS_CardinalityType DEF CountWithin
<1>8. Gate!WindowsHaveRoom(s) <=> Cardinality(Minutely) < rpm /\ Cardinality(Hourly) < rph
  <2>1. /\ Gate!AdmittedWithin(s, Minute) = Minutely
        /\ Gate!AdmittedWithin(s, Hour) = Hourly
    BY DEF Gate!AdmittedWithin, adm
  <2>2. [t \in Services |-> get_service_limits(t)][s] = get_service_limits(s)
    OBVIOUS
  <2> HIDE DEF Minutely, Hourly
  <2> QED
    BY <2>1, <2>2, GateCardinality DEF Gate!WindowsHaveRoom, rpm, rph
<1>9. WindowExhausted(s) <=> CountWithin(p, Minute) >= rpm \/ Len(p) >= rph
  BY DEF WindowExhausted, p, rpm, rph
<1> HIDE DEF Minutely, Hourly
<1> QED
  BY <1>1, <1>4, <1>5, <1>6, <1>7, <1>8, <1>9

(* The running calls of all services.                                      *)
InFlight == UNION {Running(s) : s \in Services}

LEMMA InFlightCalls ==
  InFlight = {c \in Calls : status[c] \in {"calling", "sleeping"}}
  BY CallsAssumption DEF InFlight, Running

LEMMA InFlightCallsNext ==
  InFlight' = {c \in Calls : status'[c] \in {"calling", "sleeping"}}
  BY CallsAssumption DEF InFlight, Running

(* A call is under the cap of CallGate when execute() finds it so.         *)
LEMMA CapSeen ==
  ASSUME TypeOK, SlotsConserved, NEW s \in Services
  PROVE  Gate!UnderCap(s) <=> ~at_concurrency_cap(s)
<1>1. {c \in InFlight : ServiceOf[c] = s} = Running(s)
  BY InFlightCalls DEF Running
<1>2. inflight[s] = Cardinality(Running(s)) /\ inflight[s] \in Nat
  BY DEF SlotsConserved, TypeOK, LimiterTypeOK
<1>3. get_service_limits(s).concurrent_max \in Nat
  BY LimitsOfService DEF ServiceLimits
<1>4. Gate!UnderCap(s)
        <=> Cardinality(Running(s)) < get_service_limits(s).concurrent_max
  <2>1. [t \in Services |-> get_service_limits(t)][s] = get_service_limits(s)
    OBVIOUS
  <2> QED
    BY <1>1, <2>1, GateCardinality DEF Gate!UnderCap, InFlight
<1> QED
  BY <1>2, <1>3, <1>4 DEF at_concurrency_cap

(* No queue outgrows its service's depth.                                  *)
QueuesBounded == \A s \in Services : Len(queue[s]) <= get_service_limits(s).queue_max_depth

LEMMA InitQueuesBounded == Init => QueuesBounded
  BY LimitsOfService DEF Init, QueuesBounded, ServiceLimits

LEMMA NextQueuesBounded == TypeOK /\ QueuesBounded /\ [Next]_vars => QueuesBounded'
<1> SUFFICES ASSUME TypeOK, QueuesBounded, [Next]_vars,
                    NEW t \in Services
             PROVE  Len(queue'[t]) <= get_service_limits(t).queue_max_depth
  BY DEF QueuesBounded, get_service_limits
<1>1. /\ queue \in [Services -> Seq(Calls)]
      /\ get_service_limits(t).queue_max_depth \in Nat
      /\ Len(queue[t]) <= get_service_limits(t).queue_max_depth
  BY LimitsOfService DEF TypeOK, QueueTypeOK, ServiceLimits, QueuesBounded
<1>2. CASE UNCHANGED queue
  BY <1>1, <1>2
<1>3. ASSUME NEW c \in Calls, NEW s \in Services, Enqueue(c, s)
      PROVE  Len(queue'[t]) <= get_service_limits(t).queue_max_depth
  <2>1. /\ queue' = [queue EXCEPT ![s] = Append(queue[s], c)]
        /\ Len(queue[s]) < get_service_limits(s).queue_max_depth
    BY <1>3 DEF Enqueue
  <2>2. Len(Append(queue[s], c)) = Len(queue[s]) + 1 /\ Len(queue[s]) \in Nat
    BY <1>1, AppendProperties, LenProperties
  <2> QED
    BY <1>1, <2>1, <2>2
<1>4. ASSUME NEW s \in Services, queue[s] # <<>>, Dequeue(s)
      PROVE  Len(queue'[t]) <= get_service_limits(t).queue_max_depth
  <2>1. queue' = [queue EXCEPT ![s] = Tail(queue[s])]
    BY <1>4 DEF Dequeue
  <2>2. Len(Tail(queue[s])) = Len(queue[s]) - 1 /\ Len(queue[s]) \in Nat
    BY <1>1, <1>4, HeadTailProperties, LenProperties
  <2> QED
    BY <1>1, <2>1, <2>2
<1>5. ASSUME NEW c \in Calls, Execute(c)
      PROVE  UNCHANGED queue \/ Enqueue(c, ServiceOf[c])
  BY <1>5 DEF Execute, ExecuteNow, ExecuteLater, Backpressure, queueVars
<1>6. ASSUME NEW d \in Drainers, DrainTake(d)
      PROVE  \E s \in Services : queue[s] # <<>> /\ Dequeue(s)
  BY <1>6, DrainedService DEF DrainTake, TypeOK
<1>7. ASSUME ~ \E c \in Calls : Execute(c), ~ \E d \in Drainers : DrainTake(d)
      PROVE  UNCHANGED queue
  BY <1>7 DEF Next, vars, Tick, Succeed, Retry, Wake, Raise, EndCall, DrainBegin,
              DrainNext, DrainSkip, DrainRun, DrainLogFails, GetQueueStatus, queueVars
<1> QED
  BY <1>2, <1>3, <1>4, <1>5, <1>6, <1>7, CallsAssumption

GateInv ==
  /\ TypeOK /\ HistorySound /\ OverflowConserved /\ DrainsFollowCalls
  /\ SlotsConserved /\ QueuesBounded

(* The other sets the mapping reads off the status of the calls.           *)
EndedCalls == {c \in Calls : status[c] = "ended"}
RefusedCalls == {c \in Calls : status[c] = "refused"}
ClaimedCalls == {c \in Calls : status[c] = "taken"}
LostCalls == {c \in Calls : status[c] = "lost"}

LEMMA GateInit == Init => Gate!Init
<1> SUFFICES ASSUME Init PROVE Gate!Init
  OBVIOUS
<1>1. InFlight = {} /\ EndedCalls = {} /\ RefusedCalls = {} /\ ClaimedCalls = {} /\ LostCalls = {}
  BY InFlightCalls DEF Init, EndedCalls, RefusedCalls, ClaimedCalls, LostCalls
<1> QED
  BY <1>1 DEF Init, Gate!Init, InFlight, EndedCalls, RefusedCalls, ClaimedCalls, LostCalls

(* A call execute() has not been given yet is fresh to CallGate.           *)
LEMMA IdleFresh ==
  ASSUME TypeOK, OverflowConserved, NEW c \in Calls, status[c] = "idle"
  PROVE  c \in Gate!Fresh
<1>1. /\ c \notin InFlight /\ c \notin EndedCalls /\ c \notin RefusedCalls
      /\ c \notin ClaimedCalls /\ c \notin LostCalls
  BY InFlightCalls DEF EndedCalls, RefusedCalls, ClaimedCalls, LostCalls
<1>2. c \notin Gate!Waiting
  BY DEF Gate!Waiting, OverflowConserved, QueuedOnce
<1> QED
  BY <1>1, <1>2 DEF Gate!Fresh, InFlight, EndedCalls, RefusedCalls, ClaimedCalls, LostCalls

(* A step after which the same calls run, are claimed, have ended, were    *)
(* refused or lost.                                                        *)
LEMMA GateStutters ==
  ASSUME UNCHANGED <<now, admissions, queue>>,
         \A c \in Calls :
           /\ status'[c] \in {"calling", "sleeping"} <=> status[c] \in {"calling", "sleeping"}
           /\ \A to \in {"ended", "refused", "taken", "lost"} :
                status'[c] = to <=> status[c] = to
  PROVE  UNCHANGED Gate!vars
<1>1. UNCHANGED <<InFlight, EndedCalls, RefusedCalls, ClaimedCalls, LostCalls>>
  BY InFlightCalls, InFlightCallsNext DEF EndedCalls, RefusedCalls, ClaimedCalls, LostCalls
<1> QED
  BY <1>1 DEF Gate!vars, InFlight, EndedCalls, RefusedCalls, ClaimedCalls, LostCalls

(* What the move of one call from one state to another does to each set.   *)
Moves(c, to) == status' = [status EXCEPT ![c] = to]

LEMMA CallMoves ==
  ASSUME TypeOK, NEW c \in Calls, NEW to \in CallStates, Moves(c, to)
  PROVE  /\ to = "calling" => InFlight' = InFlight \cup {c}
         /\ status[c] = "calling" /\ to = "ended" => c \in InFlight /\ InFlight' = InFlight \ {c}
         /\ status[c] \notin {"calling", "sleeping"} /\ to \notin {"calling", "sleeping"}
              => InFlight' = InFlight
         /\ to = "ended" => EndedCalls' = EndedCalls \cup {c}
         /\ status[c] # "ended" /\ to # "ended" => EndedCalls' = EndedCalls
         /\ to = "refused" => RefusedCalls' = RefusedCalls \cup {c}
         /\ status[c] # "refused" /\ to # "refused" => RefusedCalls' = RefusedCalls
         /\ to = "lost" => LostCalls' = LostCalls \cup {c}
         /\ status[c] # "lost" /\ to # "lost" => LostCalls' = LostCalls
         /\ to = "taken" => ClaimedCalls' = ClaimedCalls \cup {c}
         /\ status[c] # "taken" /\ to # "taken" => ClaimedCalls' = ClaimedCalls
         /\ status[c] = "taken" /\ to # "taken"
              => c \in ClaimedCalls /\ ClaimedCalls' = ClaimedCalls \ {c}
<1>1. status \in [Calls -> CallStates]
  BY DEF TypeOK, CallTypeOK
<1>2. status'[c] = to /\ \A x \in Calls : x # c => status'[x] = status[x]
  BY <1>1 DEF Moves
<1> QED
  BY <1>2, InFlightCalls, InFlightCallsNext
  DEF EndedCalls, RefusedCalls, ClaimedCalls, LostCalls

(* execute() starts, defers or refuses a call as CallGate would.           *)
LEMMA GateExecute ==
  ASSUME GateInv, NEW c \in Calls, Execute(c)
  PROVE  Gate!Start(c) \/ Gate!Defer(c) \/ Gate!Refuse(c)
<1> DEFINE s == ServiceOf[c]
<1>a. TypeOK /\ HistorySound /\ OverflowConserved /\ SlotsConserved /\ QueuesBounded
  BY DEF GateInv
<1>b. /\ s \in Services /\ status[c] = "idle" /\ UNCHANGED now
      /\ ExecuteNow(c, s) \/ ExecuteLater(c, s)
  BY CallsAssumption DEF Execute
<1>c. c \in Gate!Fresh
  BY <1>a, <1>b, IdleFresh
<1>d. /\ Gate!WindowsHaveRoom(s) <=> ~WindowExhausted(s)
      /\ Gate!UnderCap(s) <=> ~at_concurrency_cap(s)
  BY <1>a, <1>b, RoomSeen, CapSeen
<1>f. [t \in Services |-> get_service_limits(t)][s] = get_service_limits(s)
  BY <1>b
<1>1. CASE ExecuteNow(c, s)
  <2>1. status' = [status EXCEPT ![c] = "calling"] /\ Record(s) /\ UNCHANGED queue
    BY <1>1 DEF ExecuteNow, Admit, queueVars
  <2>2. /\ InFlight' = InFlight \cup {c}
        /\ UNCHANGED <<EndedCalls, RefusedCalls, ClaimedCalls, LostCalls>>
    <3>1. Moves(c, "calling")
      BY <2>1 DEF Moves
    <3> QED
      BY <1>a, <1>b, <3>1, CallMoves DEF CallStates
  <2>3. Gate!Admit(s)
    BY <2>1 DEF Record, Gate!Admit
  <2> QED
    BY <1>1, <1>b, <1>c, <1>d, <2>1, <2>2, <2>3
    DEF ExecuteNow, Gate!Start, InFlight, EndedCalls, RefusedCalls, ClaimedCalls, LostCalls
<1>2. CASE ExecuteLater(c, s)
  <2>1. ~(Gate!WindowsHaveRoom(s) /\ Gate!UnderCap(s)) /\ UNCHANGED admissions
    BY <1>2, <1>d DEF ExecuteLater, PruneOnly
  <2>2. CASE Enqueue(c, s) /\ status' = [status EXCEPT ![c] = "queued"]
    <3>1. UNCHANGED <<InFlight, EndedCalls, RefusedCalls, ClaimedCalls, LostCalls>>
      <4>1. Moves(c, "queued")
        BY <2>2 DEF Moves
      <4> QED
        BY <1>a, <1>b, <4>1, CallMoves DEF CallStates
    <3>2. /\ Len(queue[s]) < get_service_limits(s).queue_max_depth
          /\ queue' = [queue EXCEPT ![s] = Append(@, c)]
      BY <2>2 DEF Enqueue
    <3> QED
      BY <1>b, <1>c, <1>f, <2>1, <3>1, <3>2
      DEF Gate!Defer, InFlight, EndedCalls, RefusedCalls, ClaimedCalls, LostCalls
  <2>3. CASE Backpressure(s) /\ status' = [status EXCEPT ![c] = "refused"]
    <3>1. /\ UNCHANGED <<InFlight, EndedCalls, ClaimedCalls, LostCalls>>
          /\ RefusedCalls' = RefusedCalls \cup {c}
      <4>1. Moves(c, "refused")
        BY <2>3 DEF Moves
      <4> QED
        BY <1>a, <1>b, <4>1, CallMoves DEF CallStates
    <3>2. Len(queue[s]) = get_service_limits(s).queue_max_depth /\ UNCHANGED queue
      <4>1. Len(queue[s]) >= get_service_limits(s).queue_max_depth /\ UNCHANGED queue
        BY <2>3 DEF Backpressure
      <4>2. Len(queue[s]) <= get_service_limits(s).queue_max_depth
        BY <1>a, <1>b DEF QueuesBounded
      <4>3. Len(queue[s]) \in Nat /\ get_service_limits(s).queue_max_depth \in Nat
        BY <1>a, <1>b, LenProperties, LimitsOfService DEF TypeOK, QueueTypeOK, ServiceLimits
      <4> QED
        BY <4>1, <4>2, <4>3
    <3> QED
      BY <1>b, <1>c, <1>f, <2>1, <3>1, <3>2
      DEF Gate!Refuse, InFlight, EndedCalls, RefusedCalls, ClaimedCalls, LostCalls
  <2> QED
    BY <1>2, <2>2, <2>3 DEF ExecuteLater
<1> QED
  BY <1>b, <1>1, <1>2

(* A call ends, whether its drain goes on or not.                          *)
LEMMA GateEnds ==
  ASSUME TypeOK, NEW c \in Calls, EndCall(c)
  PROVE  Gate!End(c)
<1>1. /\ status[c] = "calling" /\ status' = [status EXCEPT ![c] = "ended"]
      /\ UNCHANGED <<now, admissions, queue>>
  BY DEF EndCall, Release, queueVars
<1>2. /\ c \in InFlight /\ InFlight' = InFlight \ {c}
      /\ EndedCalls' = EndedCalls \cup {c}
      /\ UNCHANGED <<RefusedCalls, ClaimedCalls, LostCalls>>
  <2>1. Moves(c, "ended")
    BY <1>1 DEF Moves
  <2> QED
    BY <1>1, <2>1, CallMoves DEF CallStates
<1> QED
  BY <1>1, <1>2
  DEF Gate!End, InFlight, EndedCalls, RefusedCalls, ClaimedCalls, LostCalls

(* drain() claims the oldest deferred call of a service with room.         *)
LEMMA GateClaims ==
  ASSUME GateInv, NEW d \in Drainers, DrainTake(d)
  PROVE  \E s \in Services : Gate!Claim(s)
<1> DEFINE s == order[drain[d].pos]
<1>a. TypeOK /\ HistorySound /\ OverflowConserved
  BY DEF GateInv
<1>1. s \in Services
  BY <1>a, DrainedService DEF DrainTake, TypeOK
<1>2. /\ queue[s] # <<>> /\ ~WindowExhausted(s) /\ Dequeue(s) /\ Record(s)
      /\ status' = [status EXCEPT ![Head(queue[s])] = "taken"] /\ UNCHANGED now
  BY DEF DrainTake
<1> HIDE DEF s
<1>3. Head(queue[s]) \in Calls /\ status[Head(queue[s])] = "queued"
  <2>1. queue[s] \in Seq(Calls)
    BY <1>a, <1>1 DEF TypeOK, QueueTypeOK
  <2>2. /\ Head(queue[s]) \in Calls /\ Head(queue[s]) = queue[s][1]
        /\ 1 \in DOMAIN queue[s]
    BY <1>2, <2>1, HeadTailProperties, LenProperties, EmptySeq
  <2> QED
    BY <1>a, <1>1, <2>2 DEF OverflowConserved, QueuedOnce
<1>4. PICK c \in Calls : c = Head(queue[s])
  BY <1>3
<1>5. /\ ClaimedCalls' = ClaimedCalls \cup {c}
      /\ UNCHANGED <<InFlight, EndedCalls, RefusedCalls, LostCalls>>
  <2>1. Moves(c, "taken") /\ status[c] = "queued"
    BY <1>2, <1>3, <1>4 DEF Moves
  <2> QED
    BY <1>a, <2>1, CallMoves DEF CallStates
<1>6. Gate!WindowsHaveRoom(s)
  BY <1>a, <1>1, <1>2, RoomSeen
<1>7. queue' = [queue EXCEPT ![s] = Tail(@)] /\ Gate!Admit(s)
  BY <1>2 DEF Dequeue, Record, Gate!Admit
<1>8. PICK t \in Services : t = s
  BY <1>1
<1>9. Gate!Claim(t)
  BY <1>2, <1>4, <1>5, <1>6, <1>7, <1>8
  DEF Gate!Claim, Gate!WindowsHaveRoom, Gate!AdmittedWithin, Gate!Admit,
      InFlight, EndedCalls, RefusedCalls, ClaimedCalls, LostCalls
<1> QED
  BY <1>9

(* A claimed call starts when its drain has logged it, or is lost.         *)
LEMMA GateDrains ==
  ASSUME GateInv, NEW d \in Drainers, DrainRun(d) \/ DrainLogFails(d)
  PROVE  \E c \in Calls : Gate!StartClaimed(c) \/ Gate!Lose(c)
<1>a. TypeOK /\ DrainsFollowCalls
  BY DEF GateInv
<1>b. drain[d].call \in Calls /\ status[drain[d].call] = "taken"
  BY <1>a DEF DrainRun, DrainLogFails, DrainsFollowCalls, TypeOK, DrainTypeOK, DrainStates
<1>c. PICK c \in Calls : c = drain[d].call
  BY <1>b
<1>1. UNCHANGED <<now, admissions, queue>>
  BY DEF DrainRun, DrainLogFails, limiterVars, queueVars
<1>2. CASE DrainRun(d)
  <2>1. status' = [status EXCEPT ![c] = "calling"]
    BY <1>c, <1>2 DEF DrainRun
  <2>2. /\ c \in ClaimedCalls /\ ClaimedCalls' = ClaimedCalls \ {c}
        /\ InFlight' = InFlight \cup {c}
        /\ UNCHANGED <<EndedCalls, RefusedCalls, LostCalls>>
    <3>1. Moves(c, "calling") /\ status[c] = "taken"
      BY <1>b, <1>c, <2>1 DEF Moves
    <3> QED
      BY <1>a, <3>1, CallMoves DEF CallStates
  <2>3. Gate!StartClaimed(c)
    BY <1>1, <2>2
    DEF Gate!StartClaimed, InFlight, EndedCalls, RefusedCalls, ClaimedCalls, LostCalls
  <2> QED
    BY <2>3
<1>3. CASE DrainLogFails(d)
  <2>1. status' = [status EXCEPT ![c] = "lost"]
    BY <1>c, <1>3 DEF DrainLogFails
  <2>2. /\ c \in ClaimedCalls /\ ClaimedCalls' = ClaimedCalls \ {c}
        /\ LostCalls' = LostCalls \cup {c}
        /\ UNCHANGED <<InFlight, EndedCalls, RefusedCalls>>
    <3>1. Moves(c, "lost") /\ status[c] = "taken"
      BY <1>b, <1>c, <2>1 DEF Moves
    <3> QED
      BY <1>a, <3>1, CallMoves DEF CallStates
  <2>3. Gate!Lose(c)
    BY <1>1, <2>2
    DEF Gate!Lose, InFlight, EndedCalls, RefusedCalls, ClaimedCalls, LostCalls
  <2> QED
    BY <2>3
<1> QED
  BY <1>2, <1>3

LEMMA GateNext == GateInv /\ [Next]_vars => [Gate!Next]_(Gate!vars)
<1> SUFFICES ASSUME GateInv, [Next]_vars PROVE [Gate!Next]_(Gate!vars)
  OBVIOUS
<1>a. TypeOK
  BY DEF GateInv
<1>b. status \in [Calls -> CallStates]
  BY <1>a DEF TypeOK, CallTypeOK
<1>1. CASE Tick
  <2>1. /\ UNCHANGED <<admissions, queue, InFlight, EndedCalls, RefusedCalls, ClaimedCalls, LostCalls>>
        /\ now' = now + 1
    BY <1>1 DEF Tick, limiterVars, queueVars, callVars, InFlight, Running, EndedCalls,
                RefusedCalls, ClaimedCalls, LostCalls
  <2>2. Gate!Pass
    BY <2>1 DEF Gate!Pass, InFlight, EndedCalls, RefusedCalls, ClaimedCalls, LostCalls
  <2> QED
    BY <2>2 DEF Gate!Next
<1>2. ASSUME NEW c \in Calls, Execute(c) PROVE Gate!Next
  BY <1>2, GateExecute DEF Gate!Next
<1>3. ASSUME NEW c \in Calls, Succeed(c) \/ Raise(c) PROVE Gate!Next
  <2>1. EndCall(c)
    BY <1>3, Zenon DEF Succeed, Raise
  <2> QED
    BY <1>a, <2>1, GateEnds DEF Gate!Next
<1>4. ASSUME NEW c \in Calls, Retry(c) \/ Wake(c) PROVE UNCHANGED Gate!vars
  <2>1. UNCHANGED <<now, admissions, queue>>
    BY <1>4 DEF Retry, Wake, limiterVars, queueVars
  <2>2. /\ status[c] \in {"calling", "sleeping"} /\ status'[c] \in {"calling", "sleeping"}
        /\ \A x \in Calls : x # c => status'[x] = status[x]
    BY <1>4, <1>b DEF Retry, Wake
  <2> QED
    BY <2>1, <2>2, GateStutters
<1>5. ASSUME NEW d \in Drainers, DrainTake(d) PROVE Gate!Next
  BY <1>5, GateClaims DEF Gate!Next
<1>8. ASSUME NEW d \in Drainers, DrainRun(d) \/ DrainLogFails(d) PROVE Gate!Next
  BY <1>8, GateDrains DEF Gate!Next
<1>6. ASSUME NEW d \in Drainers, DrainBegin(d) \/ DrainNext(d) \/ DrainSkip(d)
      PROVE  UNCHANGED Gate!vars
  <2>1. UNCHANGED <<now, admissions, queue, status>>
    BY <1>6 DEF DrainBegin, DrainNext, DrainSkip, PruneOnly, limiterVars, queueVars, callVars
  <2> QED
    BY <2>1, GateStutters
<1>7. CASE UNCHANGED vars \/ \E s \in Services : GetQueueStatus(s)
  <2>1. UNCHANGED <<now, admissions, queue, status>>
    BY <1>7 DEF GetQueueStatus, vars, limiterVars, queueVars, callVars
  <2> QED
    BY <2>1, GateStutters
<1> QED
  BY <1>1, <1>2, <1>3, <1>4, <1>5, <1>6, <1>7, <1>8 DEF Next

(* Every behaviour of the gatekeeper is one CallGate allows: a call starts *)
(* at once exactly when the windows of its service have room and its cap   *)
(* is not reached, waits or is refused otherwise, leaves the line oldest   *)
(* first and only when the windows have room, and then starts or is lost.  *)
THEOREM GateImplemented == Spec => ImplementsCallGate
<1>1. Spec => []HistorySound
  BY TypeCorrect, InitWindows, NextHistory, PTL DEF Spec
<1>2. Spec => []QueuesBounded
  BY TypeCorrect, InitQueuesBounded, NextQueuesBounded, PTL DEF Spec
<1>3. Spec => []GateInv
  BY TypeCorrect, OverflowSafe, DrainsSafe, SlotsSafe, <1>1, <1>2, PTL DEF GateInv
<1> QED
  BY <1>3, GateInit, GateNext, PTL DEF Spec, ImplementsCallGate, Gate!Spec
=============================================================================
