----------------------------- MODULE SearchCall -----------------------------
(***************************************************************************)
(* The web_search skill (skills/web_search.py) over the provider stack it  *)
(* builds: the resilient wrapper (search/resilient.py) retries attempts,   *)
(* each on a worker thread with a timeout; an attempt goes through the     *)
(* gatekeeper (search/gatekept.py) when there is one, which retries the    *)
(* provider in turn and holds a slot of the service meanwhile.  A caller   *)
(* is the thread of a model call: two of them search at a time when one    *)
(* was abandoned by its turn and the turn's retry searches again.          *)
(*                                                                         *)
(* There is no clock: a join or a sleep may end at any moment.  Whether    *)
(* the debater has a gatekeeper, and the settings, are the process's and   *)
(* never change.  Writing to the log succeeds here.  The names of the      *)
(* specification carry "Search": it is proved about beside Watchdog.       *)
(***************************************************************************)
EXTENDS Integers, Sequences, FiniteSets, InputRules

CONSTANTS
  Callers,        \* threads that call web_search, once each
  MaxRetries,     \* max_retries of the search service, for both kinds of retry
  ConcurrentMax,  \* concurrent_max of the search service
  PerMinute,      \* requests_per_minute
  QueueDepth,     \* queue_max_depth
  MaxResults,     \* DEFAULT_MAX_RESULTS
  Pages,          \* pages a live provider may find: sequences of SearchResults
  ProviderErrors  \* what a live provider may raise

ASSUME SearchCallAssumption ==
  /\ IsFiniteSet(Callers)
  /\ MaxRetries \in Nat /\ ConcurrentMax \in Nat \ {0} /\ PerMinute \in Nat \ {0}
  /\ QueueDepth \in Nat \ {0} /\ MaxResults \in Nat
  /\ Pages \subseteq Seq([title : RawTexts, snippet : RawTexts])
  /\ ProviderErrors \subseteq {"TimeoutError", "ConnectionError", "OtherError"}

Attempts == 1 .. MaxRetries + 1
Workers == Callers \X Attempts

Transient == {"TimeoutError", "ConnectionError"}
NoError == "no error"

VARIABLES
  config,    \* gatekept?, search_backend, api_key set?, rate_limits.json there?
  query,     \* caller -> its query
  stage,     \* caller -> what its web_search does next
  retries,   \* caller -> run_with_retry's counter in ResilientSearchProvider
  result,    \* caller -> the results it is given
  outcome,   \* caller -> "pending", "rejected", "raised" or "returned"
  log,       \* caller -> the events its search logged
  late,      \* workers given up on, still running (history)
  thread,    \* worker -> "new", "started", "asking", "sleeping" or "finished"
  requests,  \* worker -> requests it sent to the provider
  box,       \* the cell a worker's closure writes its value to
  error,     \* the cell it writes its exception to
  admitted,  \* calls the gatekeeper has counted in its windows
  queued     \* workers whose call the gatekeeper put in its queue

askVars == <<config, query>>
callerVars == <<stage, retries, result, outcome, log, late>>
threadVars == <<thread, requests, box, error>>
gateVars == <<admitted, queued>>
searchVars == <<askVars, callerVars, threadVars, gateVars>>

Current(c) == <<c, retries[c] + 1>>
Moves(c, where) == stage' = [stage EXCEPT ![c] = where]
Ends(c, how) == Moves(c, "done") /\ outcome' = [outcome EXCEPT ![c] = how]
Logs(c, events) == log' = [log EXCEPT ![c] = @ \o events]

-----------------------------------------------------------------------------
(* The query, and the provider it is given. *)

\* The model calls its web_search tool, or another caller the function.
Begin(c) ==
  /\ stage[c] = "idle"
  /\ \E text \in SearchQueryInput : query' = [query EXCEPT ![c] = text]
  /\ Moves(c, "preparing")
  /\ UNCHANGED <<config, retries, result, outcome, log, late, threadVars, gateVars>>

Backends == {"duckduckgo", "tavily"}

\* The registry knows the backend, and the limits of the service can be read.
Buildable == config.search_backend \in Backends /\ config.limits_file

\* The query is checked before anything else, by WebSearchInput and again here;
\* what build_search_provider raises is not the resilient wrapper's to catch.
Prepare(c) ==
  /\ stage[c] = "preparing"
  /\ IF ~ValidQuery(query[c]) THEN Ends(c, "rejected")
     ELSE IF ~Buildable THEN Ends(c, "raised")
     ELSE Moves(c, "attempting") /\ UNCHANGED outcome
  /\ UNCHANGED <<askVars, retries, result, log, late, threadVars, gateVars>>

-----------------------------------------------------------------------------
(* A worker: GatekeptSearchProvider around the provider, or the provider. *)

\* Mutant: one pair of cells for all attempts of a search.
CellPerSearch(w) == <<w[1], 1>>

\* Every run_with_timeout call makes cells of its own.
CellOf(w) == w

Keyless == config.search_backend = "tavily" /\ ~config.api_key

Stub == [i \in 1 .. 3 |-> [title |-> "plain", snippet |-> "plain"]]

\* TavilySearchProvider's canned hits, or whatever ddgs finds.
Found == IF config.search_backend = "tavily"
         THEN {SubSeq(Stub, 1, IF MaxResults < 3 THEN MaxResults ELSE 3)}
         ELSE {page \in Pages : Len(page) <= MaxResults}

HitsOf(w, page) ==
  [i \in DOMAIN page |-> [url |-> w, title |-> page[i].title, snippet |-> page[i].snippet]]

Returns(w, hits) ==
  /\ box' = [box EXCEPT ![CellOf(w)] = hits]
  /\ thread' = [thread EXCEPT ![w] = "finished"]
  /\ UNCHANGED error

Raises(w, exception) ==
  /\ error' = [error EXCEPT ![CellOf(w)] = exception]
  /\ thread' = [thread EXCEPT ![w] = "finished"]
  /\ UNCHANGED box

Sends(w) ==
  /\ thread' = [thread EXCEPT ![w] = "asking"]
  /\ requests' = [requests EXCEPT ![w] = @ + 1]
  /\ UNCHANGED <<box, error>>

\* Mutant: a call that failed keeps its slot.
InFlightLeaking == Cardinality({w \in Workers :
  thread[w] \in {"asking", "sleeping"} \/ (thread[w] = "finished" /\ error[CellOf(w)] # NoError)})

InFlight == Cardinality({w \in Workers : thread[w] \in {"asking", "sleeping"}})
NoRoom == InFlight >= ConcurrentMax \/ admitted >= PerMinute

\* Without a gatekeeper the provider is called as it is.
AskDirectly(w) ==
  /\ thread[w] = "started" /\ ~config.gatekept
  /\ Sends(w)
  /\ UNCHANGED <<askVars, callerVars, gateVars>>

Admit(w) ==
  /\ thread[w] = "started" /\ config.gatekept /\ InFlight < ConcurrentMax
  /\ admitted' = admitted + 1
  /\ Sends(w)
  /\ UNCHANGED <<askVars, callerVars, queued>>

\* execute queues the call and returns None, which is taken for no hits.
Queue(w) ==
  /\ thread[w] = "started" /\ config.gatekept /\ NoRoom
  /\ Cardinality(queued) < QueueDepth
  /\ queued' = queued \cup {w}
  /\ Returns(w, <<>>)
  /\ UNCHANGED <<askVars, callerVars, requests, admitted>>

RefuseCall(w) ==
  /\ thread[w] = "started" /\ config.gatekept /\ NoRoom
  /\ Cardinality(queued) >= QueueDepth
  /\ Raises(w, "QueueFullError")
  /\ UNCHANGED <<askVars, callerVars, requests, gateVars>>

Answer(w) ==
  /\ thread[w] = "asking" /\ ~Keyless
  /\ \E page \in Found : Returns(w, HitsOf(w, page))
  /\ UNCHANGED <<askVars, callerVars, requests, gateVars>>

\* Mutant: the gatekeeper retries once more than max_retries.
RequestsLeftMore(w) == config.gatekept /\ requests[w] <= MaxRetries + 1

\* The gatekeeper's own retries of a call; without it there are none.
RequestsLeft(w) == config.gatekept /\ requests[w] <= MaxRetries

Exceptions == IF Keyless THEN {"ValueError"}
              ELSE IF config.search_backend = "tavily" THEN {} ELSE ProviderErrors

\* The provider fails: the worker backs off, holding its slot ...
BackOff(w) ==
  /\ thread[w] = "asking" /\ RequestsLeft(w)
  /\ \E e \in Exceptions : e \in Transient
  /\ thread' = [thread EXCEPT ![w] = "sleeping"]
  /\ UNCHANGED <<askVars, callerVars, requests, box, error, gateVars>>

SendAgain(w) ==
  /\ thread[w] = "sleeping"
  /\ Sends(w)
  /\ UNCHANGED <<askVars, callerVars, gateVars>>

\* ... or its error is the attempt's.
Fail(w) ==
  /\ thread[w] = "asking"
  /\ \E e \in Exceptions : (e \in Transient => ~RequestsLeft(w)) /\ Raises(w, e)
  /\ UNCHANGED <<askVars, callerVars, requests, gateVars>>

-----------------------------------------------------------------------------
(* ResilientSearchProvider.search, and what web_search does with its hits. *)

Attempt(c) ==
  /\ stage[c] = "attempting"
  /\ thread' = [thread EXCEPT ![Current(c)] = "started"]
  /\ Moves(c, "joining")
  /\ UNCHANGED <<askVars, retries, result, outcome, log, late, requests, box, error, gateVars>>

\* The join ended: what run_with_timeout raises, if anything.  A worker that
\* is still running is given up on, and runs on.
Exception(c) ==
  IF thread[Current(c)] # "finished" THEN "TimeoutError" ELSE error[CellOf(Current(c))]

\* sanitize_search_result: the two prose fields, never the url.
SanitizeSearchResult(hit) ==
  [hit EXCEPT !.title = SanitizeUntrustedText(@), !.snippet = SanitizeUntrustedText(@)]

\* The rest of web_search: every hit is sanitised, the call logged.  The tool
\* names no run, so that the sanitiser logs nothing.
Delivers(c, hits, events) ==
  /\ result' = [result EXCEPT ![c] = [i \in DOMAIN hits |-> SanitizeSearchResult(hits[i])]]
  /\ Logs(c, Append(events, [type |-> "tool_call", results |-> Len(hits)]))
  /\ Ends(c, "returned")

GiveUp(c) ==
  late' = IF thread[Current(c)] # "finished" THEN late \cup {Current(c)} ELSE late

Collect(c) ==
  /\ stage[c] = "joining" /\ Exception(c) = NoError
  /\ Delivers(c, box[CellOf(Current(c))], <<>>)
  /\ UNCHANGED <<askVars, retries, late, threadVars, gateVars>>

\* Mutant: one retry more than max_retries.
RetriesLeftMore(c) == retries[c] <= MaxRetries

RetriesLeft(c) == retries[c] < MaxRetries

Retry(c) ==
  /\ stage[c] = "joining" /\ Exception(c) \in Transient /\ RetriesLeft(c)
  /\ retries' = [retries EXCEPT ![c] = @ + 1]
  /\ Logs(c, <<[type |-> "retry", results |-> 0]>>)
  /\ GiveUp(c)
  /\ Moves(c, "sleeping")
  /\ UNCHANGED <<askVars, result, outcome, threadVars, gateVars>>

Wake(c) ==
  /\ stage[c] = "sleeping"
  /\ Moves(c, "attempting")
  /\ UNCHANGED <<askVars, retries, result, outcome, log, late, threadVars, gateVars>>

\* Mutant: only a search that was too late is told of.
DegradedIfLate(e) ==
  IF e = "TimeoutError" THEN <<[type |-> "timeout", results |-> 0]>> ELSE <<>>

\* _ResilientLog.degraded: one event of type "timeout", whatever the error was.
Degraded(e) == <<[type |-> "timeout", results |-> 0]>>

\* Retries exhausted, or an error that is not transient: no hits, no exception.
Degrade(c) ==
  /\ stage[c] = "joining" /\ Exception(c) # NoError
  /\ Exception(c) \in Transient => ~RetriesLeft(c)
  /\ Delivers(c, <<>>, Degraded(Exception(c)))
  /\ GiveUp(c)
  /\ UNCHANGED <<askVars, retries, threadVars, gateVars>>

-----------------------------------------------------------------------------
\* A key makes a difference to tavily only.
Configs == {conf \in [gatekept : BOOLEAN, limits_file : BOOLEAN,
                      search_backend : Backends \cup {"unknown"}, api_key : BOOLEAN] :
              conf.api_key => conf.search_backend = "tavily"}

SearchInit ==
  /\ config \in Configs
  /\ query = [c \in Callers |-> [control |-> FALSE, length |-> 0]]
  /\ stage = [c \in Callers |-> "idle"] /\ retries = [c \in Callers |-> 0]
  /\ result = [c \in Callers |-> <<>>]
  /\ outcome = [c \in Callers |-> "pending"] /\ log = [c \in Callers |-> <<>>]
  /\ late = {}
  /\ thread = [w \in Workers |-> "new"] /\ requests = [w \in Workers |-> 0]
  /\ box = [w \in Workers |-> <<>>] /\ error = [w \in Workers |-> NoError]
  /\ admitted = 0 /\ queued = {}

Caller(c) ==
  Prepare(c) \/ Attempt(c) \/ Collect(c) \/ Retry(c) \/ Wake(c) \/ Degrade(c)
Worker(w) ==
  \/ AskDirectly(w) \/ Admit(w) \/ Queue(w) \/ RefuseCall(w)
  \/ Answer(w) \/ BackOff(w) \/ SendAgain(w) \/ Fail(w)

SearchNext ==
  \/ \E c \in Callers : Begin(c) \/ Caller(c)
  \/ \E w \in Workers : Worker(w)

\* A search that has begun is scheduled, its joins and sleeps end.  Nothing
\* is assumed of the workers, nor that anybody searches.
SearchSpec ==
  SearchInit /\ [][SearchNext]_searchVars /\ \A c \in Callers : WF_searchVars(Caller(c))

-----------------------------------------------------------------------------
Hits == [url : Workers, title : RawTexts, snippet : RawTexts]
SafeHits == [url : Workers, title : SafeTexts, snippet : SafeTexts]
Events == [type : {"retry", "timeout", "tool_call"}, results : 0 .. MaxResults]

\* Every variable ranges over what the code keeps in it; nothing that was not
\* sanitised is ever among the results.
SearchTypeOK ==
  /\ config \in Configs
  /\ query \in [Callers -> SearchQueryInput]
  /\ stage \in [Callers -> {"idle", "preparing", "attempting", "joining", "sleeping", "done"}]
  /\ retries \in [Callers -> 0 .. MaxRetries] /\ result \in [Callers -> Seq(SafeHits)]
  /\ outcome \in [Callers -> {"pending", "rejected", "raised", "returned"}]
  /\ log \in [Callers -> Seq(Events)] /\ late \subseteq Workers
  /\ thread \in [Workers -> {"new", "started", "asking", "sleeping", "finished"}]
  /\ requests \in [Workers -> 0 .. MaxRetries + 1]
  /\ box \in [Workers -> Seq(Hits)]
  /\ error \in [Workers -> ProviderErrors \cup {NoError, "QueueFullError", "ValueError"}]
  /\ admitted \in Nat /\ queued \subseteq Workers

\* The results are the hits of the attempt the search was waiting for, one for
\* one, and never what a worker it had given up on came up with later, nor a
\* hit of another search (resilient.py:103-119, _timeout.py:48-64).
ResultsAreOwn ==
  \A c \in Callers : outcome[c] = "returned" /\ result[c] # <<>> =>
    /\ thread[Current(c)] = "finished" /\ error[Current(c)] = NoError
    /\ Len(result[c]) = Len(box[Current(c)])
    /\ \A i \in DOMAIN result[c] : result[c][i].url = Current(c)

\* Retries are nested in retries: one search costs the provider at most
\* (max_retries + 1)^2 requests, counting those that workers it gave up on
\* send later, max_retries + 1 without a gatekeeper, and none when it was
\* refused (_web_search_build.py:63-71).
RequestsOf(c) == Cardinality(UNION {{a} \X (1 .. requests[<<c, a>>]) : a \in Attempts})
RequestsBounded ==
  \A c \in Callers :
    /\ RequestsOf(c) <= (MaxRetries + 1) * (IF config.gatekept THEN MaxRetries + 1 ELSE 1)
    /\ outcome[c] \in {"rejected", "raised"} => RequestsOf(c) = 0

Logged(c, type) == Cardinality({i \in DOMAIN log[c] : log[c][i].type = type})

\* A search that returns nothing either was told of as given up, or found
\* nothing, or was queued, to be run by nobody, because every slot was taken
\* by workers given up on and other searches, or the minute's calls were made:
\* never for another reason (gatekept.py:70-81, resilient.py:117-119).
EmptyIsExplained ==
  \A c \in Callers : outcome[c] = "returned" /\ result[c] = <<>> /\ Logged(c, "timeout") = 0 =>
    \/ requests[Current(c)] > 0
    \/ /\ Current(c) \in queued
       /\ \/ Cardinality({w \in Workers : requests[w] > 0 /\ (w \in late \/ w[1] # c)})
             >= ConcurrentMax
          \/ admitted >= PerMinute

\* The log of a search tells what happened to it: as many retries as attempts
\* after the first, an event that it was given up, with nothing returned, if
\* and only if the last attempt owed to it failed, and last the call with as
\* many results as were returned (web_search.py:87-90, _resilient_log.py:43-80).
LogTellsTheSearch ==
  \A c \in Callers : outcome[c] = "returned" =>
    /\ Logged(c, "retry") = retries[c] /\ Logged(c, "tool_call") = 1
    /\ log[c][Len(log[c])] = [type |-> "tool_call", results |-> Len(result[c])]
    /\ IF Logged(c, "timeout") = 0
         THEN thread[Current(c)] = "finished" /\ error[Current(c)] = NoError
         ELSE /\ Logged(c, "timeout") = 1 /\ result[c] = <<>>
              /\ \/ retries[c] = MaxRetries
                 \/ error[Current(c)] \notin Transient \cup {NoError}

\* web_search keeps the promise of SearchPromise: sound requests are served,
\* once, in the end and with safe texts, faulty ones refused.
TextsOf(page) == UNION {{page[i].title, page[i].snippet} : i \in DOMAIN page}
Asked(c) == IF stage[c] = "idle" THEN "idle"
            ELSE IF ValidQuery(query[c]) /\ Buildable THEN "sound" ELSE "faulty"
Answered(c) == CASE outcome[c] = "pending" -> <<"none", {}>>
                 [] outcome[c] = "returned" -> <<"page", TextsOf(result[c])>>
                 [] OTHER -> <<"refused", {}>>
Promise == INSTANCE SearchPromise
             WITH asked <- [c \in Callers |-> Asked(c)], answer <- [c \in Callers |-> Answered(c)]
ImplementsSearchPromise == Promise!Spec
=============================================================================
