---------------------------- MODULE ApiGatekeeper ----------------------------
(***************************************************************************)
(* The API gatekeeper (core/gatekeeper): the chokepoint every model and    *)
(* search call passes through.  execute() admits a call when the sliding   *)
(* windows and the concurrency cap of its service leave room, defers it to *)
(* the bounded FIFO queue of the service otherwise, and refuses it when    *)
(* that queue is full; drain() runs deferred calls; an admitted call holds *)
(* its in-flight slot through all its retries and backoff sleeps.          *)
(*                                                                         *)
(* A call runs on a thread of its own (run_with_timeout starts one for     *)
(* each attempt of a turn, and abandons it on a timeout), so calls overlap *)
(* while they wait for the provider, sleep or write to the log.  From      *)
(* check() to acquire() execute() does none of these and is one step here, *)
(* which is what "the gatekeeper serialises access" claims.  drain() logs  *)
(* between record() and acquire(), so there another thread may run.        *)
(*                                                                         *)
(* Time is a discrete clock; Minute and Hour are the window lengths in     *)
(* ticks.  Each member of Calls is one call of execute().                  *)
(***************************************************************************)
EXTENDS Integers, Sequences, FiniteSets

CONSTANTS
  Calls,      (* the calls execute() is given                              *)
  Services,   (* the service names they carry                              *)
  ServiceOf,  (* the service of each call                                  *)
  Drainers,   (* the threads that call drain()                             *)
  Limits,     (* config/rate_limits.json: limits of the configured names   *)
  Default,    (* the configured name the others fall back to               *)
  Minute,     (* _MINUTE_SECONDS, in ticks                                 *)
  Hour,       (* _HOUR_SECONDS, in ticks                                   *)
  MaxTime,    (* bound on the clock                                        *)
  NoCall      (* a drainer that runs no call                               *)

ServiceLimits ==
  [ requests_per_minute : Nat \ {0}, requests_per_hour   : Nat \ {0},
    concurrent_max      : Nat \ {0}, retry_after_seconds : Nat \ {0},
    max_retries         : Nat,       queue_max_depth     : Nat \ {0} ]

Backoff(limits, n) == limits.retry_after_seconds * 2^n

ASSUME CallsAssumption ==
  /\ IsFiniteSet(Calls)
  /\ NoCall \notin Calls
  /\ ServiceOf \in [Calls -> Services]

ASSUME LimitsAssumption ==
  /\ Default \in DOMAIN Limits
  /\ \A name \in DOMAIN Limits : Limits[name] \in ServiceLimits

ASSUME TimeAssumption ==
  /\ Minute \in Nat \ {0}
  /\ Hour \in Nat
  /\ Minute <= Hour
  /\ MaxTime \in Nat

(* Powers of two are naturals: arithmetic the provers do not know. *)
ASSUME BackoffAssumption ==
  \A name \in DOMAIN Limits :
    \A n \in 0 .. Limits[name].max_retries : Backoff(Limits[name], n) \in Nat

VARIABLES
  now,        (* the monotonic clock                                       *)
  events,     (* _events: timestamps of recent admissions, newest last     *)
  inflight,   (* _inflight: the concurrency counter                        *)
  queue,      (* _items of each service's overflow queue                   *)
  order,      (* the services with a queue, in creation order (_queues)    *)
  totals,     (* lifetime counters of each queue                           *)
  status,     (* what each call is doing                                   *)
  retries,    (* retries used by each call                                 *)
  wake,       (* when a sleeping call may try again                        *)
  drain,      (* where each drain() stands                                 *)
  admissions  (* history: every timestamp record() ever appended           *)

limiterVars == <<events, inflight, admissions>>
queueVars == <<queue, order, totals>>
callVars == <<status, retries, wake>>
vars == <<now, limiterVars, queueVars, callVars, drain>>

NoDrain == [at |-> "idle", pos |-> 0, size |-> 0, call |-> NoCall]

-----------------------------------------------------------------------------
(* Configuration and the limiter *)

get_service_limits(s) == IF s \in DOMAIN Limits THEN Limits[s] ELSE Limits[Default]

(* The expired prefix that _prune pops, oldest first. *)
Stale(ev, cutoff) == {i \in DOMAIN ev : \A j \in 1 .. i : ev[j] <= cutoff}

Pruned(ev) == SubSeq(ev, Cardinality(Stale(ev, now - Hour)) + 1, Len(ev))

CountWithin(ev, window) == Cardinality({i \in DOMAIN ev : ev[i] > now - window})

(* Mutant: one more admission than the hour allows. *)
WindowExhaustedLate(s) ==
  LET recent == Pruned(events[s])
  IN  \/ CountWithin(recent, Minute) >= get_service_limits(s).requests_per_minute
      \/ Len(recent) > get_service_limits(s).requests_per_hour

(* check() is not None. *)
WindowExhausted(s) ==
  LET recent == Pruned(events[s])
  IN  \/ CountWithin(recent, Minute) >= get_service_limits(s).requests_per_minute
      \/ Len(recent) >= get_service_limits(s).requests_per_hour

(* Mutant: execute() forgets the cap. *)
AtConcurrencyCapNever(s) == FALSE

at_concurrency_cap(s) == inflight[s] >= get_service_limits(s).concurrent_max

(* check() and record() of a call that may run; check() alone still        *)
(* prunes.                                                                 *)
Record(s) ==
  /\ events' = [events EXCEPT ![s] = Append(Pruned(@), now)]
  /\ admissions' = [admissions EXCEPT ![s] = Append(@, now)]

Acquire(s) == inflight' = [inflight EXCEPT ![s] = @ + 1]

Admit(s) == Record(s) /\ Acquire(s)

PruneOnly(s) ==
  /\ events' = [events EXCEPT ![s] = Pruned(@)]
  /\ UNCHANGED <<admissions, inflight>>

Release(s) ==
  /\ inflight' = [inflight EXCEPT ![s] = IF @ > 0 THEN @ - 1 ELSE @]
  /\ UNCHANGED <<events, admissions>>

-----------------------------------------------------------------------------
(* The overflow queues *)

(* _queue_for(): the queue of a service is created on first use. *)
CreateQueue(s) ==
  order' = IF \E i \in DOMAIN order : order[i] = s THEN order ELSE Append(order, s)

(* Mutant: an enqueue that the lifetime counter misses. *)
EnqueueUncounted(c, s) ==
  /\ Len(queue[s]) < get_service_limits(s).queue_max_depth
  /\ queue' = [queue EXCEPT ![s] = Append(@, c)]
  /\ totals' = totals

Enqueue(c, s) ==
  /\ Len(queue[s]) < get_service_limits(s).queue_max_depth
  /\ queue' = [queue EXCEPT ![s] = Append(@, c)]
  /\ totals' = [totals EXCEPT ![s].enqueued = @ + 1]

Backpressure(s) ==
  /\ Len(queue[s]) >= get_service_limits(s).queue_max_depth
  /\ totals' = [totals EXCEPT ![s].backpressure = @ + 1]
  /\ UNCHANGED queue

(* Mutant: pop() in place of popleft(). *)
DequeueNewest(s) ==
  /\ queue' = [queue EXCEPT ![s] = SubSeq(@, 1, Len(@) - 1)]
  /\ totals' = [totals EXCEPT ![s].drained = @ + 1]

Dequeue(s) ==
  /\ queue' = [queue EXCEPT ![s] = Tail(@)]
  /\ totals' = [totals EXCEPT ![s].drained = @ + 1]

-----------------------------------------------------------------------------
(* execute(): run now, defer, or refuse. *)

ExecuteNow(c, s) ==
  /\ ~WindowExhausted(s)
  /\ ~at_concurrency_cap(s)
  /\ Admit(s)
  /\ status' = [status EXCEPT ![c] = "calling"]
  /\ UNCHANGED queueVars

ExecuteLater(c, s) ==
  /\ WindowExhausted(s) \/ at_concurrency_cap(s)
  /\ PruneOnly(s)
  /\ CreateQueue(s)
  /\ \/ Enqueue(c, s) /\ status' = [status EXCEPT ![c] = "queued"]
     \/ Backpressure(s) /\ status' = [status EXCEPT ![c] = "refused"]

Execute(c) ==
  /\ status[c] = "idle"
  /\ ExecuteNow(c, ServiceOf[c]) \/ ExecuteLater(c, ServiceOf[c])
  /\ UNCHANGED <<now, retries, wake, drain>>

-----------------------------------------------------------------------------
(* run_with_retry() of an admitted call: its counter and its deadline are  *)
(* locals, gone when it ends.  A drain() that runs the call then goes on   *)
(* with its loop, or ends with the call's exception.                       *)

DrainsOf(c) == {d \in Drainers : drain[d].at = "running" /\ drain[d].call = c}

EndCall(c) ==
  /\ status[c] = "calling"
  /\ status' = [status EXCEPT ![c] = "ended"]
  /\ retries' = [retries EXCEPT ![c] = 0]
  /\ Release(ServiceOf[c])
  /\ UNCHANGED <<now, queueVars, wake>>

Succeed(c) ==
  /\ EndCall(c)
  /\ drain' = [d \in Drainers |->
                 IF d \in DrainsOf(c) THEN [drain[d] EXCEPT !.at = "loop", !.call = NoCall]
                 ELSE drain[d]]

(* Mutant: the slot is given back for the backoff and never taken again. *)
RetryReleasing(c) ==
  LET limits == get_service_limits(ServiceOf[c])
  IN  /\ status[c] = "calling"
      /\ retries[c] < limits.max_retries
      /\ status' = [status EXCEPT ![c] = "sleeping"]
      /\ wake' = [wake EXCEPT ![c] = now + Backoff(limits, retries[c])]
      /\ retries' = [retries EXCEPT ![c] = @ + 1]
      /\ Release(ServiceOf[c])
      /\ UNCHANGED <<now, queueVars, drain>>

(* A transient error with retries left: back off, holding the slot. *)
Retry(c) ==
  LET limits == get_service_limits(ServiceOf[c])
  IN  /\ status[c] = "calling"
      /\ retries[c] < limits.max_retries
      /\ status' = [status EXCEPT ![c] = "sleeping"]
      /\ wake' = [wake EXCEPT ![c] = now + Backoff(limits, retries[c])]
      /\ retries' = [retries EXCEPT ![c] = @ + 1]
      /\ UNCHANGED <<now, limiterVars, queueVars, drain>>

(* The sleep is over: the next attempt, with no check() and no record(). *)
Wake(c) ==
  /\ status[c] = "sleeping"
  /\ now >= wake[c]
  /\ status' = [status EXCEPT ![c] = "calling"]
  /\ wake' = [wake EXCEPT ![c] = 0]
  /\ UNCHANGED <<now, limiterVars, queueVars, retries, drain>>

(* A permanent error, or a transient one after the last retry. *)
Raise(c) ==
  /\ EndCall(c)
  /\ drain' = [d \in Drainers |-> IF d \in DrainsOf(c) THEN NoDrain ELSE drain[d]]

-----------------------------------------------------------------------------
(* drain() *)

(* drain() starts its loop over the dict of queues. *)
DrainBegin(d) ==
  /\ drain[d].at \in {"idle", "crashed"}
  /\ drain' = [drain EXCEPT ![d] =
                 [at |-> "next", pos |-> 0, size |-> Len(order), call |-> NoCall]]
  /\ UNCHANGED <<now, limiterVars, queueVars, callVars>>

(* The dict iterator raises RuntimeError when the dict has changed size;   *)
(* otherwise it yields the next service, or the loop ends.                 *)
DrainNext(d) ==
  /\ drain[d].at = "next"
  /\ \/ /\ Len(order) # drain[d].size
        /\ drain' = [drain EXCEPT ![d] = [NoDrain EXCEPT !.at = "crashed"]]
     \/ /\ Len(order) = drain[d].size
        /\ drain[d].pos = drain[d].size
        /\ drain' = [drain EXCEPT ![d] = NoDrain]
     \/ /\ Len(order) = drain[d].size
        /\ drain[d].pos < drain[d].size
        /\ drain' = [drain EXCEPT ![d] =
                       [at |-> "loop", pos |-> @.pos + 1, size |-> @.size, call |-> NoCall]]
  /\ UNCHANGED <<now, limiterVars, queueVars, callVars>>

(* The while loop of a service ends: nothing queued, or no room. *)
DrainSkip(d) ==
  LET s == order[drain[d].pos]
  IN  /\ drain[d].at = "loop"
      /\ queue[s] = <<>> \/ WindowExhausted(s)
      /\ drain' = [drain EXCEPT ![d].at = "next"]
      /\ IF queue[s] = <<>> THEN UNCHANGED limiterVars ELSE PruneOnly(s)
      /\ UNCHANGED <<now, queueVars, callVars>>

(* The oldest deferred call is taken off its queue and recorded, and the   *)
(* drain goes to log it; the concurrency cap is not consulted.             *)
DrainTake(d) ==
  LET s == order[drain[d].pos]
      c == Head(queue[s])
  IN  /\ drain[d].at = "loop"
      /\ queue[s] # <<>>
      /\ ~WindowExhausted(s)
      /\ Dequeue(s)
      /\ Record(s)
      /\ status' = [status EXCEPT ![c] = "taken"]
      /\ drain' = [drain EXCEPT ![d].at = "logging", ![d].call = c]
      /\ UNCHANGED <<now, inflight, order, retries, wake>>

(* It is logged, takes its slot and runs. *)
DrainRun(d) ==
  LET c == drain[d].call
  IN  /\ drain[d].at = "logging"
      /\ Acquire(ServiceOf[c])
      /\ status' = [status EXCEPT ![c] = "calling"]
      /\ drain' = [drain EXCEPT ![d].at = "running"]
      /\ UNCHANGED <<now, events, admissions, queueVars, retries, wake>>

(* The log cannot be written: drain() ends with the error, and the call it *)
(* had taken is in no queue any more.  Its place in the windows stays.     *)
DrainLogFails(d) ==
  /\ drain[d].at = "logging"
  /\ status' = [status EXCEPT ![drain[d].call] = "lost"]
  /\ drain' = [drain EXCEPT ![d] = NoDrain]
  /\ UNCHANGED <<now, limiterVars, queueVars, retries, wake>>

(* get_queue_status(): a read that creates the queue it reports on. *)
GetQueueStatus(s) ==
  /\ CreateQueue(s)
  /\ UNCHANGED <<now, limiterVars, queue, totals, callVars, drain>>

Tick ==
  /\ now < MaxTime
  /\ now' = now + 1
  /\ UNCHANGED <<limiterVars, queueVars, callVars, drain>>

-----------------------------------------------------------------------------
Init ==
  /\ now = 0
  /\ events = [s \in Services |-> <<>>]
  /\ admissions = [s \in Services |-> <<>>]
  /\ inflight = [s \in Services |-> 0]
  /\ queue = [s \in Services |-> <<>>]
  /\ order = <<>>
  /\ totals = [s \in Services |-> [enqueued |-> 0, drained |-> 0, backpressure |-> 0]]
  /\ status = [c \in Calls |-> "idle"]
  /\ retries = [c \in Calls |-> 0]
  /\ wake = [c \in Calls |-> 0]
  /\ drain = [d \in Drainers |-> NoDrain]

Next ==
  \/ Tick
  \/ \E c \in Calls : Execute(c) \/ Succeed(c) \/ Retry(c) \/ Wake(c) \/ Raise(c)
  \/ \E d \in Drainers : DrainBegin(d) \/ DrainNext(d) \/ DrainSkip(d)
  \/ \E d \in Drainers : DrainTake(d) \/ DrainRun(d) \/ DrainLogFails(d)
  \/ \E s \in Services : GetQueueStatus(s)

Spec == Init /\ [][Next]_vars

-----------------------------------------------------------------------------
(* Properties *)

Running(s) == {c \in Calls : ServiceOf[c] = s /\ status[c] \in {"calling", "sleeping"}}

LimiterTypeOK ==
  /\ now \in Nat
  /\ events \in [Services -> Seq(Nat)]
  /\ admissions \in [Services -> Seq(Nat)]
  /\ inflight \in [Services -> Nat]

QueueTypeOK ==
  /\ queue \in [Services -> Seq(Calls)]
  /\ totals \in [Services -> [enqueued : Nat, drained : Nat, backpressure : Nat]]

CallStates ==
  {"idle", "queued", "refused", "taken", "lost", "calling", "sleeping", "ended"}

CallTypeOK ==
  /\ status \in [Calls -> CallStates]
  /\ retries \in [Calls -> Nat]
  /\ \A c \in Calls : retries[c] <= get_service_limits(ServiceOf[c]).max_retries
  /\ wake \in [Calls -> Nat]

DrainRecords ==
  [ at : {"idle", "next", "loop", "logging", "running", "crashed"},
    pos : Nat, size : Nat, call : Calls \cup {NoCall} ]

DrainStates ==
  { r \in DrainRecords :
      /\ r.pos <= r.size
      /\ r.at \in {"loop", "logging", "running"} => r.pos > 0
      /\ r.at \in {"logging", "running"} <=> r.call \in Calls }

DrainTypeOK ==
  /\ order \in Seq(Services)
  /\ drain \in [Drainers -> DrainStates]
  /\ \A d \in Drainers : drain[d].size <= Len(order)

(* Every variable keeps its type: no counter goes negative, no call is     *)
(* retried more than max_retries times, no drain walks off the queues.     *)
TypeOK == LimiterTypeOK /\ QueueTypeOK /\ CallTypeOK /\ DrainTypeOK

(* In any minute, wherever it starts, at most requests_per_minute calls of *)
(* a service are admitted, and likewise for the hour, by execute() and     *)
(* drain() together: of any requests_per_minute + 1 consecutive admissions *)
(* the last is a full window after the first.  Pruning must never forget   *)
(* an admission that still counts.                                         *)
WindowsRespected ==
  \A s \in Services :
    \A i, j \in DOMAIN admissions[s] :
      /\ j = i + get_service_limits(s).requests_per_minute
           => admissions[s][j] >= admissions[s][i] + Minute
      /\ j = i + get_service_limits(s).requests_per_hour
           => admissions[s][j] >= admissions[s][i] + Hour

(* The in-flight counter of a service is the number of its calls that are  *)
(* running or backing off, whichever thread runs them and however they     *)
(* end: no path of _run leaks a slot or gives one back twice.              *)
SlotsConserved == \A s \in Services : inflight[s] = Cardinality(Running(s))

QueuedOnce ==
  \A s \in Services : \A i \in DOMAIN queue[s] :
    /\ status[queue[s][i]] = "queued" /\ ServiceOf[queue[s][i]] = s
    /\ \A j \in DOMAIN queue[s] : queue[s][i] = queue[s][j] => i = j

NoneLost ==
  \A c \in Calls :
    status[c] = "queued" => \E i \in DOMAIN queue[ServiceOf[c]] : queue[ServiceOf[c]][i] = c

Accounted ==
  \A s \in Services : totals[s].enqueued = totals[s].drained + Len(queue[s])

(* A deferred call sits in the queue of its own service, once, until it is *)
(* dequeued, nothing else does, and the lifetime counters account for it:  *)
(* whatever drains, refusals and other services' queues do meanwhile.      *)
OverflowConserved == QueuedOnce /\ NoneLost /\ Accounted

(* The running calls of a service that execute() started itself. *)
Inline(s) == {c \in Running(s) : DrainsOf(c) = {}}

(* execute() keeps the calls it starts within concurrent_max, whatever     *)
(* drains do meanwhile.  drain() does not consult the cap: a call it runs  *)
(* comes on top.  The engine never drains, so there the cap is absolute.   *)
CapRespected ==
  \A s \in Services : Cardinality(Inline(s)) <= get_service_limits(s).concurrent_max

(* A call that was taken off its queue is in the hands of one drain() that *)
(* logs it, one that runs for a drain() is in flight, and no call answers  *)
(* to two drains: a drain is never left waiting for a call that has ended, *)
(* and a taken call runs unless the log of its own drain fails.            *)
DrainsFollowCalls ==
  /\ \A d \in Drainers :
       /\ drain[d].at = "logging" => status[drain[d].call] = "taken"
       /\ drain[d].at = "running" => status[drain[d].call] \in {"calling", "sleeping"}
  /\ \A d, e \in Drainers :
       drain[d].call = drain[e].call /\ drain[d].call \in Calls => d = e
  /\ \A c \in Calls :
       status[c] = "taken" => \E d \in Drainers : drain[d].at = "logging" /\ drain[d].call = c

(* What callers may rely on: the gatekeeper implements CallGate.           *)
Gate == INSTANCE CallGate WITH
  LimitsOf <- [s \in Services |-> get_service_limits(s)],
  time     <- now,
  admitted <- admissions,
  waiting  <- queue,
  claimed  <- {c \in Calls : status[c] = "taken"},
  running  <- UNION {Running(s) : s \in Services},
  ended    <- {c \in Calls : status[c] = "ended"},
  refused  <- {c \in Calls : status[c] = "refused"},
  lost     <- {c \in Calls : status[c] = "lost"}

(* Every behaviour of the gatekeeper is one CallGate allows: admissions    *)
(* only with room, deferral and refusal only without, deferred calls of a  *)
(* service admitted in the order they came, at most one start of a call,   *)
(* and no call dropped but one whose turn had come.                        *)
ImplementsCallGate == Gate!Spec
=============================================================================
