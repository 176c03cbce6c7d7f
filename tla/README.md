# agent_debate: TLA+ models, checks and proofs

agent_debate lets two language-model agents, Pro and Con, debate a topic under a
neutral controller that watches for drift and gives a verdict. A run is served to
a terminal, a REST/SSE API and a browser page. This directory models the parts of
it that keep state and meet concurrency, failure or ordering, checks them with TLC
and proves the core ones with TLAPS. Paths below are relative to the repository;
`core/` stands for `packages/core/src/agent_debate/core/`, `log/` for
`packages/log/src/agent_debate/log/`, `api/` for
`packages/api/src/agent_debate/api/`.

`tlc -config X.cfg MCX` checks a module, `tlapm XProofs.tla` its proofs;
`PROJECT.json` lists every run, the mutant of the code each property catches, the
source lines of every definition, the hazards and the findings.

## 1. The system

```
 browser page --POST--> API --background worker--> debate thread (engine loop)
      ^                  |          |                    |
      |                  |     EventBuffer <--queue-- live sink
      +------ SSE -------+          |                    |
      +------ GET -------+     DebateRecord              v
                                              turn call: retry + timeout
                                                         |
                                              worker thread per attempt
                                                         |
                                              API gatekeeper --> provider
            every part --> JSONL log (one process-wide set-up, one file per run)
```

| Part | State it keeps | Operations | What is hard |
|---|---|---|---|
| API gatekeeper (`core/gatekeeper/`) | per service: admission timestamps, in-flight counter, bounded FIFO queue, lifetime counters | `execute`, `drain`, `get_queue_status`, retries with backoff | window boundaries, slots held through backoff, drains against executes, a dict iterated while it grows |
| Turn calls (`core/engine/_call.py`, `core/search/_timeout.py`) | the attempt's cells, the retry counter, abandoned workers | `run_with_retry` around `run_with_timeout` | an abandoned worker answers later and holds a slot for as long as the provider hangs |
| Debate loop (`core/engine/loop.py` and what it calls) | transcript, contexts, forwarded frames, nudges, totals | turn, drift check, forward, closing, verdict | FAILED, blank, captured and trimmed turns in any mixture over the rounds |
| Agents (`core/agents/`) | one context per agent | anchoring, relay, word limit | isolation of the contexts |
| Event stream and API (`core/engine/stream.py`, `core/engine/sdk.py`, `api/`) | queue, box, EventBuffer, DebateRecord | sink, background worker, SSE readers, GET | three kinds of threads, a condition variable, fields read without the lock that guards their writer |
| JSONL log (`log/`) | live file and archives; open sinks; structlog's configuration | `log_event`, rotation, reopening | crashes inside a rotation; one process-wide configuration under many threads |
| Watchdog (`core/watchdog/`) | restarts used | `run` | a heartbeat read before the clock it is compared with; falls during a check |
| Browser page (`packages/ui/.../static/app.js`) | form, status, panels, verdict, EventSources | submit, reset, listeners, verdict fetch | callbacks of several debates on one page |
| Search (`core/skills/web_search.py`, `core/search/`) | the retry counter and cells of a search; the search service of the gatekeeper | `web_search` over the resilient and gatekept wrappers | retries inside retries, abandoned workers holding slots, a queued call that looks like no hits |
| Skills: drift, nudge, verdict (`core/skills/`) | none | drift signals and threshold, scoring, tie-break cascade, convergence | two lexicons that must agree; a cascade symmetric in the sides |
| Pricing (`core/pricing/`, `core/engine/_cost.py`, `_budget.py`) | none | totals, breakdowns, price table, budget alert | shared models, FAILED and closing turns, a table read only at the end |
| Set-up and surfaces (`core/settings.py`, `core/validation.py`, `core/engine/setup.py`, `packages/cli`, `api/`) | cached settings, process environment, the engine's config, the menu's choices | load, override, validate, build, run, report | settings and config kept apart; a 201 before the run; one JSON blob on stdout |
| Dataset (`core/research/`) | none | a run's log read back into a row and per-round metrics | writer and reader of the log meet in no test |
| Input rules (`core/security/`) | none | topic and query rules, sanitiser | the order of the sanitiser's steps |
| Redaction, other skills, plots, scripts | none | text replacement, formatting | nothing that interleaves |

What makes each part correct:

- gatekeeper: no window is ever exceeded, slots are neither leaked nor doubled,
  deferred calls are neither lost, run twice nor reordered, `execute()` keeps to
  the cap;
- turn calls: a turn goes on with its own answer or fails only after every
  attempt it is owed, and a run always ends;
- loop: each debater rebuts the turn just before its own unless it FAILED, contexts stay apart,
  corrections come in time, the verdict and the totals account for everything;
- API: every reader gets every event once, in order, from the first, and the end;
  the end it is told is final and its result is there to be read;
- log: the newest lines survive rotations and crashes, in order, and go to the
  file of their run;
- watchdog: healthy workers live, fallen ones are found out in time;
- page: the live status is never stale, the user is never trapped;
- search: answered once, with its own sanitised hits, at a bounded cost, or with
  none for a reason its log or the gatekeeper's queue gives;
- outcome: the judge favours no side and nothing but arguments; every turn is
  charged once; an overrun is told;
- launch: a run's agents are those its config names; what is accepted starts, as
  far as the checks made on it can tell; every end is told; `--json` prints the result
  exactly once, beside at most the lines of calls the run gave up on;
- dataset: a row says of a run what its result says.

## 2. Modules

| Module | Models | Checked with |
|---|---|---|
| `ApiGatekeeper` | the gatekeeper | `MCApiGatekeeper`, `ApiGatekeeper.cfg`; `GatekeeperProofs` |
| `CallGate` | abstract: what callers of the gatekeeper may rely on | refined by `ApiGatekeeper` |
| `TurnCall` | the model calls of one run and their worker threads | `MCTurnCall`, `TurnCall.cfg`; `TurnCallProofs` |
| `DebateLoop` | one run of the engine, with contexts, log and stream | `MCDebateLoop`, `DebateLoop.cfg`; `DebateLoopProofs` |
| `RunDataset` | extends `DebateLoop`: the dataset's row and metrics of its log | `MCDebateLoop`, `DebateLoop.cfg`, `NudgesCounted.cfg` |
| `Outcome` | drift detection, verdict, totals, price and budget of a run | `MCOutcome`, `Outcome.cfg`; `DebateApiProofs` |
| `DebateApi` | one run served: debate thread, worker, buffer, record, readers, GETs, the thread pool | `MCDebateApi`, `DebateApi.cfg`; `DebateApiProofs` |
| `LiveFeed` | abstract: what live streaming promises | refined by `DebateApi` |
| `Launch` | a debate launched on any surface, from the environment to its exit | `MCLaunch`, `Launch.cfg`; `LaunchProofs` |
| `InputRules` | the rules for topics and queries, the sanitiser | extended by `Launch` and `SearchCall` |
| `SearchCall` | `web_search` and its provider stack | `MCSearchCall`, `SearchCall.cfg`; `WorkerProofs` |
| `SearchPromise` | abstract: what a debater's model may rely on | refined by `SearchCall` |
| `LogRotation` | the rotating sink, one writer, crashes and restarts | `MCLogRotation`, `LogRotation.cfg`; `SharedLogProofs` |
| `SharedLog` | the process-wide logging set-up under threads | `MCSharedLog`, `SharedLog.cfg`; `SharedLogProofs` |
| `Watchdog` | `Watchdog.run` and a worker that beats, hangs or dies | `MCWatchdog`, `Watchdog.cfg`; `WorkerProofs` |
| `BrowserPage` | the page with the callbacks of its debates | `MCBrowserPage`, `BrowserPage.cfg`; `BrowserPageProofs` |

The modules compose by what one assumes and the next shows. `TurnCall` and
`SearchCall` see of the gatekeeper the outcomes `ApiGatekeeper` has for a call (run,
queued, refused). `DebateLoop` sees of a turn call its three outcomes (an answer, a
FAILED turn, an error), and leaves to `Outcome` what its verdict, totals and price
come to. `RunDataset` reads the very log `DebateLoop` writes. `DebateApi` sees of a
run its numbered events and that it ends, which is `EveryRunEnds` of `TurnCall` for
every turn; `Launch` says how a run came to be accepted and what it was built of.
`BrowserPage` sees of the API that streams end, which `ReadersEnd` of `DebateApi` says of
runs that do not die and are not starved.

### ApiGatekeeper

One action per operation, and the steps of a call and of a drain between two
points where another thread may run: `Execute` (`ExecuteNow`, `ExecuteLater`),
`Succeed`, `Retry`, `Wake` and `Raise` for `_run` and `run_with_retry`;
`DrainBegin`, `DrainNext`, `DrainSkip`, `DrainTake`, `DrainRun` and `DrainLogFails` for
`drain()`, including the dict iterator that raises when a queue is created behind it;
`GetQueueStatus`, which creates the queue it reads. `events` is pruned exactly where `check()`
prunes; `admissions` is a history that is never pruned, so that `WindowsRespected`
speaks of what happened and not of what is remembered.

Calls interleave where they block, sleep or write to the log. From `check()` to
`acquire()` `execute()` does none of these, and the stretch is one step: the class
documents that it serialises access, and takes no lock to do so. `drain()` logs between
`record()` and `acquire()`; there it has two steps, and a call that is `taken` counts in
the windows but holds no slot yet. Thread switches inside a step are not modelled
(section 7).

### TurnCall

`TurnThread` is `run_with_retry` around `run_with_timeout`; a worker belongs to one
attempt of one turn and may act at any time after `StartAttempt`, whether or not
its turn still waits for it. Each attempt has cells of its own (`CellOf`), as each
call of `run_with_timeout` makes its own `box` and `error`. There is no clock: a
join may end at any moment. `NoRoom` therefore says when a call may be queued, and
`Admit` when it may be admitted; a call that comes after the minute's calls may be
either.

### DebateLoop

One action per step of the loop. What a model call comes back with is chosen
freely: on its side, captured, blank, too long, FAILED or an error nobody catches.
A message is a record of what the properties tell apart. `context` is what each
agent's next call is given; `logged` the run's log, of which `Streamed` is the part
the live sink sees.

### RunDataset

`research/_parse.py` folds over the log; so does `ParseRun`, handler by handler, with
a count of messages for each quantity it sums. An event is read by the fields the
writer gave it: `RoundOf` and `Payload` are what the engine logs, `NudgedSide` what
the reader looks for.

### Outcome

A text is the set of lexicon phrases in it. The six lexicons are the code's, phrase for
phrase; `Contents` adds the one marker that longer phrases contain, "the opponent".
Scores are in quarters of a point and confidence in twentieths, so that all sums are
exact; what is counted over the turns is counted as the set of their positions
(`Marked`, `Counted`). The run is the loop's order of turns with nothing but what the outcome depends
on; then `RenderLoopVerdict`, `PriceResult` or `FailToPrice`, and `CheckRunBudget`, one
action each, because the price table may be unusable after the verdict was told.

### SearchCall, SearchPromise and InputRules

A caller is the thread of a model call; two search at a time when one was abandoned
by its turn and the retry searches again. `Prepare` validates and builds; `Attempt`,
`Collect`, `Retry`, `Wake` and `Degrade` are the resilient wrapper; a worker per
attempt asks the provider directly or through the gatekeeper (`Admit`, `Queue`,
`RefuseCall`), which retries the request itself (`BackOff`, `SendAgain`). As in
`TurnCall` there is no clock and each attempt has its own cells. `InputRules` holds what
a topic and a query must satisfy and the sanitiser's three steps on classes of text;
`ImplementsSearchPromise` says that only sanitised texts come back.

### Launch

One process on one of four surfaces. `Start` loads the settings and puts the key
`.env` holds into the environment; the surface's own actions choose the options
(`Run`; `Accept`, `RefuseRequest`, `RefuseMisconfigured`; the menu's choices); `Prepare`
builds the engine, whose settings and config are two records, `SetupDebate` the
agents. A model string stands for its provider and `rounds` for all numbers that must
be positive. `ClientKey` is the key a provider's client wants, which
`PROVIDER_KEY_ENV_VARS` gives for two providers only. With `--json`, `stdout` keeps what
reaches it. `abandoned` counts the calls given up at a timeout, one per late attempt,
and `orphans` those still under way; each of them may log any number of lines
(`OrphanLogs`), within the bound `MaxLines` on the length of `stdout`.

### DebateApi and LiveFeed

The debate thread, the background worker, each SSE reader and each GET are
processes of their own; the store's lock, the queue, the buffer's condition
variable with its waiting readers, and every field that is written or read in a
statement of its own are steps. The worker and each `next()` of a reader run on the
server's pool of `Threads` threads (`HasRoom`, `TakeThread`, `Ask`); a reader keeps its
thread while it waits for an event. The box holds a result, an `Exception` or, as
`"fatal"`, another `BaseException`: `_run_debate` catches the second and dies of the third
(`Handles`, `Died`). `ImplementsLiveFeed` maps the event numbers of the
debate thread to what is produced and each reader's events to what is delivered.

### LogRotation and SharedLog

`LogRotation` follows `_rotate` and `_evict_and_shift` one file operation at a time;
`Crash` may come between any two, and `Open` is the next process. `SharedLog` takes
the file operations as four steps and follows what they share: the sink cache, the
handle, the line count and structlog's configuration, for threads of one run and of
several. What `LogRotation` must keep is said of two neighbours and of the total:
each file that is there goes on where the next older one stopped (`InOrder`), and
together they hold the newest lines up to the caps (`EnoughKept`).

### Watchdog

`run()` is split at every point where time passes or the worker may act: `Check`,
`Ask` (the heartbeat is read), `Judge` (the clock is read and compared), `Kill`,
`Start`. `Delay` bounds how long the watchdog is kept waiting between two of them. A wait
between `Ask` and `Judge` longer than `Timeout - BeatEvery` can kill a worker that beats
in time: the heartbeat judged may then be older than the window. `HealthyNeverKilled`
claims nothing of such waits, only that shorter ones never do.

### BrowserPage

One action per listener or continuation. Debates are numbered in the order they
are submitted; each may have its POST, its stream or its GET open while the user
types, submits or resets. `fate` is the status a debate ended with, which its done record
carries and the page does not read; the verdict view shows what the GET has, of a failed
debate no winner. The texts of the output under the form are left out but for whether
they are errors.

## 3. Runs

| Run | Question | Instance | Why it is enough |
|---|---|---|---|
| `gatekeeper` | do the limits, slots and queues hold in every interleaving, and is every step one `CallGate` allows? | 4 calls of one service on the default limits (1 a minute, 2 an hour, cap 1, queue of 2), a second service whose queue only appears, 2 drainers, windows of 1 and 3 ticks, clock to 3 | three admissions, the third held back by the hour when the minute is free; two calls wait behind one; the queue overflows; two drains have taken a call each; a queue is created while a drain iterates; a call is retried |
| `turn_call` | is an answer always the right one, a failure deserved, starvation explained, the end certain? | 2 turns of 2 attempts, cap 2, window 3, queue of 1 | two abandoned workers, or three calls, starve the last turn; a late worker of turn 1 can answer in turn 2 |
| `debate_loop` | are frames, contexts, corrections, verdict, stream and dataset right? | 2 rounds | each side speaks before and after hearing the other; a frame of round 1 can be left over in round 2; rounds nobody spoke in |
| `nudges_counted` | does the dataset count corrections? | the same | finding |
| `outcome` | is the judge neutral, agreement corrected, money exact? | 1 round and closing, 11 arguments, 2 models, budgets 0 and 12, 3 price tables | each of the 8 agreement phrases alone in an argument; totals apart or level, then decided by rebuttal, by staying on side or by the fallback (not by engagement, which takes three more FAILED turns on one side than on the other); sides share a model or not; costs below, at and above the cap; no table, one without a model, one without a default |
| `debate_api` | does every reader get everything and the truth about the end? | 2 events, 3 readers, 1 GET, a pool of 3 | a reader early, late, waiting at the close; a notification meant for two; three readers before the worker take the pool; the run completes, raises, dies or never starts |
| `launch` | do agents match the config, can what is accepted start, is the end told? | 5 environments (one invalid), 3 key states, rounds 0 and 1, 4 known providers and an unknown one, 2 debates from one menu, 2 abandoned calls, 4 lines | overrides of a shared and of a per-side model; a key in `.env`, blank, missing; a provider whose key the preflight does not know, and one without; stray lines before and after the result; the second debate after changed choices |
| `search_call` | is a search answered, by its own attempt, at what cost, and why with nothing? | 2 callers of 2 attempts of 2 requests, 1 slot, 3 calls a minute, queue of 1 | an abandoned worker starves its own retry or the other search; the minute is used up; the queue is full |
| `log_rotation` | do the newest lines survive, within the caps? | 1, 2 or 4 files of 2 lines, 14 writes, 2 crashes | all archives in place at the ninth write; a crash at every file operation, also of the recovery |
| `shared_log` | do overlapping calls harm later ones? | 2 threads, 2 runs, one shared; 5 calls; 2 lines a file | same file, different files, a rotation under another writer |
| `watchdog` | is a healthy worker safe and a fallen one found? | 4 checks, 1 restart, window 3, interval 2, delay 1 | a fall found at the next check, at a later one, or not before the last |
| `browser_page` | what can a user rely on? | 2 debates of 2 events, done or failed | the second finds the first's events, verdict and status, ended, failed or under way |

`MaxTime` (gatekeeper), `Writes` and `MaxCrashes` (rotation), `MaxEvents` (shared
log), `MaxRuns` and `LastEvent` (page, API), `MaxMenuRuns` (launch), `MaxTicks`
(watchdog; the code's own bound) are the bounds on what would grow without end; each
stands in the guard of one action. The gatekeeper run uses symmetry among the calls of
one service and among the drainers; no liveness property is checked there.
`search_call` does not check deadlock: a system whose searches are all answered and
whose workers have all ended stops, and one that stops earlier would break
`ImplementsSearchPromise`. A conjunction of two invariants of one subject is checked
under one name (`ContextsSound`, `MoneyIsTold`, `PageIsHonest`).

What the runs show beyond their properties' names:

- `drain()` does not look at the concurrency cap. `CapRespected` is about the calls
  `execute()` starts; a drained call comes on top. `CallGate` promises no more.
- A `drain()` whose iterator raises leaves what it had not reached queued
  (`OverflowConserved`, `DrainsFollowCalls`).
- Each worker that is given up on costs a slot for as long as its provider hangs;
  `QueuedOnlyWhenStarved` says this, or a minute's worth of calls, is the only way a
  run meets a queued call.
- A crash in a rotation loses no line but may leave fewer archives than allowed:
  `EnoughKept` holds of processes that did not crash, `NewestKept` of all.
- In the watchdog, a window of at least the beat period plus the wait between two
  statements is what makes a kill always deserved.
- `PatientUserSeesTheRun` needs the patience: a user who starts or resets over a
  debate under way gets both debates' events in the panels, a verdict on a cleared
  page, or a page without its New debate button, because no EventSource is closed.
- `SpeakingKeepsTheLead` holds although the verdict has an agreement step: it only
  breaks ties, and there in favour of the side that agreed less.
- `AgreementWasCorrected` needs every phrase of the verdict's agreement list in the
  drift lists at a weight that reaches the threshold. Its mutant takes one phrase away
  from a drift list. The converse is not claimed: "i was wrong" or "that's true" is
  nudged and is no agreement to the verdict. The closing is not checked for
  drift, so that agents can converge uncorrected there.
- `AcceptedRunsStart` must except a request with a model of its own, and a provider
  whose key the preflight does not check (section 5).
- A search without a gatekeeper never starves. The debaters `setup_debate` builds have
  none; the module has both.

## 4. Fairness

- `TurnCall`: weak fairness of the turn thread only. Its joins have a timeout and
  its sleeps end. Workers have none: a provider may never answer.
- `DebateApi`: weak fairness of the debate thread (each call of it ends,
  `EveryRunEnds`), of the background worker and of each reader that has a thread;
  strong fairness of being given one (`TakeThread`, `Ask`), since who awaits a thread of
  the pool is served in the order of asking: while threads come free, each is. The
  pool is the server's (starlette runs a synchronous background task and every `next()`
  of a synchronous iterator on it, 40 threads by default) and not under `src/`. Nobody
  has to connect or to ask.
- `SearchCall`: weak fairness of each caller that has begun: its joins have a timeout
  and its sleeps end. Nothing of the workers, nor that anybody searches.
- `BrowserPage`: weak fairness of the network: each request is answered or fails,
  each stream ends or drops. The user owes nothing.

The other modules check no liveness. `Watchdog.run` is a loop bounded by `max_ticks`
over callables that return, so that its end is no question of its own.

## 5. Findings

`nudges_counted` is a violation run: `core/research/_summary.py:34` says `pro_nudges`
and `con_nudges` count the corrections aimed at each side. The engine logs a
correction with agent `controller` and the side under `target`
(`core/engine/drift.py:90-103`); `_on_nudge` (`core/research/_parse.py:141`) asks for
`side`, falls back on the agent, and counts nothing, in every run:
`CorrectionsUncounted` proves it for any number of rounds.

Other places where the code does less than a comment or a reader might expect, met
while modelling and described here only.

Calls and limits:

- `core/engine/turn.py:117` says the synchronous loop never queues a call. Abandoned
  workers keep their slots, so a later call may be queued; `execute` then returns
  `None` and the run is lost to an uncaught error. `QueuedOnlyWhenStarved` is proved
  and says exactly when.
- `execute()` says "overflow is never dropped" (`core/gatekeeper/_gatekeeper.py:88-92`).
  `drain()` takes a call off its queue and logs that before it runs it: if the event
  cannot be written, `drain()` raises and the call is gone (`DrainLogFails`, the `lost`
  of `CallGate`), though the windows count it. Two drains take calls in order but may
  start them in another.
- Retried requests are in no window of the gatekeeper; `drain()` ignores the cap; a
  `TimeoutError` the provider raises is logged as a turn timeout.
- A search's timeout is the turn's, so that a search that hangs always costs its
  turn first. What `ddgs` raises is neither a `TimeoutError` nor a `ConnectionError` of
  Python's and is not retried. An unknown backend or a missing `rate_limits.json`
  escapes the wrapper that never raises. Searches of the tool are logged under
  `skills.web_search` and in no run.

The run:

- A blank reply loses the whole run, at its drift check or, as a closing statement,
  at the verdict. `run_drift_check` passes no message of the opponent, so that the
  "restating" signal never fires in the loop.
- Closing turns are not tied to a round, says `core/constants.py:170-173`, but their
  messages are stamped round 1, to which `usage_by_round` charges them, while
  `round_metrics`, from the log, has them in round 0.
- `_verdict_constants.py:93-96` calls the fallback side a last resort for transcripts
  symmetric byte for byte. It decides whenever the counts are level, so that Pro wins
  every complete debate in which neither side uses a marker.
- "the opponent is correct" is a concession for the drift check and engagement, not
  agreement, for the verdict.
- The price table is read after the whole debate. Without a `default` entry it raises
  even when it prices every model, after the verdict event and before any result.

Served and logged:

- `_run_debate` "never raises" (`api/debate_routes.py:55`) and catches `Exception` (line
  60). The debate thread catches whatever its run raises and `stream_debate` raises it
  again in the worker (`core/engine/stream.py:88-102`): a `SystemExit`, say, ends the worker
  with the record running and the buffer open, and its readers wait for nobody. So
  `ReadersEnd` excepts a run that `Died`.
- A reader that waits keeps a thread of the pool the runs need. As many waiting readers
  as threads starve a run that is not started yet, and then themselves: the other
  exception of `ReadersEnd`, `Starved`. `NoWakeupLost` proves that it takes as many readers
  as threads.
- `api/debate_store.py:9-10` says a concurrent GET reads a record safely. `mark_done`
  writes status before result (line 76) and the route reads both without the lock:
  an answer may say done with no result.
- `log/_setup.py:89-90` says the logger of a run writes to the run's file. Two threads
  between `configure` and `bind` exchange sinks; `OnlyRacesHurt` says only they do.
  Two sinks may be open on one file of a run, each with its own line count.
- The gatekeeper's and the budget check's events are in the log but not in the live
  stream. `stream()` does not log the set-up event: its runs have no topic in the
  dataset and, unjudged, no row. The archives of a rotation match the dataset's glob,
  so that a rotated run may have several rows.
- `Watchdog.run` returns `fell=False` for a worker that has fallen but was not found
  out before the last check.

On the page:

- Start is disabled "while a debate is running", say `docs/UI.md:78-79` and
  `packages/ui/tests/test_ui_usability.py:11`. `app.js` enables it again when the POST is
  answered (391-393), as the debate begins to stream; resetting does not disable it
  either. `NeverTrapped` asks for what both have in common: it is not left disabled, with
  a topic typed, when nothing is under way.
- The status line is "always honest" (`docs/UI.md:111`). The done event of a failed debate
  sets it to Complete (`app.js:298-303`; the status in the record is not read), and
  `showVerdict` makes a verdict view of the null result: "Winner: —", "did not converge", 0
  tokens (241-252). `PatientUserSeesTheRun` therefore says only that Complete is the end of
  the stream, and that the winner is empty exactly for a failed debate.

Launching:

- The preflight looks at the process settings, not at the request: a `model` whose
  provider has no key is answered 201 and fails, and one that would avoid a keyless
  default is answered 503. `run`, `menu` and the SDK do not call
  `validate_required_keys`.
- `OPENAI_API_KEY` in `.env` never reaches the environment. `--model` does not reach a
  side that has `PRO_MODEL` or `CON_MODEL`. A failed debate ends the menu.
- The preflight is to tell a missing key "before a doomed run starts"
  (`preflight.py:46-48`). It skips a provider outside `PROVIDER_KEY_ENV_VARS`
  (`validation.py:14-16`, 70-71), but `infer_model` (`core/models.py:47`) builds every
  provider's client at once and raises without its key: with `DEBATER_MODEL=mistral:...`
  and no `MISTRAL_API_KEY` the request is answered 201 and the debate fails at set-up.
  `AcceptedRunsStart` excepts such providers and unknown ones.
- `--json` is to print "ONLY" the result (`app.py:101-103`). Calls the run gave up on, one
  per timed-out attempt (`_call.py:120-136`), log every attempt and retry
  (`_gatekeeper.py:213`, 230, 232), and once `clean_stdout` has ended these lines go to
  stdout, before and after the JSON. `StdoutIsTheResult` allows them, in a run that
  abandoned a call, and nothing else.

## 6. Proofs

Every proof has the same outline: an inductive invariant `IInv`, `InitEstablishes`,
one lemma per action for `NextKeeps`, and the properties as its consequences. Each
module below starts with its argument.

`GatekeeperProofs`, for all calls, services, limits, drainers and windows, from
`CallsAssumption`, `LimitsAssumption`, `TimeAssumption` and `BackoffAssumption` (the
last states that a power of two is a natural number, arithmetic the provers do not
have):

- `TypeCorrect`: `TypeOK`, inductive as it stands once a drain's position is tied to
  the number of queues.
- `OverflowSafe`: `OverflowConserved`, and `DrainsSafe`: `DrainsFollowCalls`, one beside
  the other. An enqueue adds a call that was idle, a dequeue removes the head, which was
  queued and hence in no drain's hands, and no step of a drain that has taken a call
  touches a queued one; every end of a call reaches the drain that runs it.
- `SlotsSafe`: `SlotsConserved`. The set of running calls gains or loses one member
  with each acquired and each released slot. The call a drain takes a slot for must not
  be running yet, so the proof cites `DrainsSafe`.
- `CapSafe`: `CapRespected`, inductive beside the three above: `execute()` starts a
  call only below the cap by `SlotsSafe`, and a call that `drain()` starts has that
  drain waiting for it until it ends, so that it never joins the others.
- `WindowsSafe`: `WindowsRespected`. The invariant ties the pruned timestamps to the
  history: timestamps are in order, the remembered ones are the tail of all
  admissions, and every forgotten one is at least an hour old. An admission that
  passes `check()` then finds the one a full quota earlier outside its window,
  remembered or not.
- `GateImplemented`: `ImplementsCallGate`, the refinement, under all of the above and
  `QueuesBounded`. The mapping reads the calls claimed, in flight, ended, refused and lost
  off their status, and the admissions off the history. A window that `check()` finds free has room in the whole history, by the
  argument of `WindowsSafe`; a cap it finds free is one of running calls, by
  `SlotsSafe`; an error a caller sees ends a call or refuses it, and every other step
  claims a call, starts or loses the claimed one, or shows nothing.

`TurnCallProofs`, for all numbers of turns, retries, slots, window and queue sizes,
from `TurnCallAssumption` and `SentinelAssumption`:

- `TypeCorrect`: `TypeOK`.
- `AnswersAreCurrent`, `FailuresAreSpent`, `QueuedAreStarved`: the three invariants
  `AnswerIsCurrent`, `FailedOnlyWhenSpent` and `QueuedOnlyWhenStarved`, from one
  inductive invariant `IInv`. It says that a cell holds nothing before its worker
  has finished and then only its own value; that workers after the current attempt
  are new; that the log of a turn counts its retries and that each retried attempt
  was late or raised a transient error; and that a worker that executes is the
  current one or was given up on. The last makes a full house of executing workers
  a full house of late ones.
- `ThreadEnds`: `ThreadRunsOut`, with `ThreadLeft`, the attempts and phases to come.

`DebateLoopProofs`, for any number of rounds, from `DebateLoopAssumption`:

- `TypeCorrect`: `TypeOK`.
- `ContextsSafe`: `ContextsSound`. It is not inductive: that a correction comes before
  the next prompt depends on whether a drift check is due. `CorrectedInTime` says that a
  captured reply ends a context only until that check, or when its debater will not
  be asked again; `LatestIsOwn` that the reply under check is the turn just taken;
  `FramesAreOpponents` that what will be anchored is the opponent's. `GoodContexts` states
  the promise entry by entry, so that an appended entry is one case.
- `RebutsSafe`: `RebutsLatest`. `TurnsTaken` and `PromptsCounted` tie the length of the
  transcript and the number of prompts of each side to the round and whose turn it
  is; `FrameIsLatest` says that the frame about to be rebutted is that of the turn just
  before. An appended turn changes nothing that an earlier prompt answers.
- `JudgedSafe`: `JudgedOnEverything`. A turn is appended at the place `TurnsTaken` says,
  hence with the side and round of that place; a closing is never FAILED. So what the
  verdict is drawn from are all turns but the FAILED ones, and all closings.
- `StreamSafe`: `StreamTellsTheRun`, stated with positions of the log. Each kind of event tells a tale of its subjects:
  messages of the answered turns, nudges of the corrections, and so on. A step that
  logs an event adds one subject to the run and its event behind all others; since the
  subjects differ from each other (a turn has a side and a round of its own), the tale
  stays one of each, once, in order. The relay is told in the step that forwards, so it
  lacks at most the turn under way; nothing follows the verdict.
- `DatasetSafe`: `DatasetTellsTheRun`. The reader's fold over the log is first unfolded:
  `RowAfterNext` says what one more line makes of the row, and `RunSummed`, by
  induction over the length of the log, that the row then counts the messages of each
  side, has the greatest of their rounds and whether there was a verdict or a set-up.
  `LinesTell` then counts message lines by the turns and closings they tell of, which the
  tale of `StreamSafe` makes one to one.
- `CorrectionsUncounted`: `NoCorrectionCounted`, by the same unfolding.
- `DebateEnds`: `DebateRunsOut`, with `StepsLeft`, the turns to come and the steps of a
  turn.

`DebateApiProofs`, for all events, readers and requests, from `DebateApiAssumption`:

- `TypeCorrect`: `TypeOK`.
- `FarewellSafe`: `FarewellIsFinal`. `BoxIsFinal`: the box is written before the worker
  reads it; `RecordFollowsWorker`: the record holds the outcome from the marking on;
  `ReadersToldLast`: a reader is told done only by a closed buffer; `PollsReadOutcome`:
  a request that came after that reads what is stored.
- `FeedImplemented`: `ImplementsLiveFeed`, the refinement. `QueueGoesOn`: the queue
  continues the buffer, and the event the worker holds, number by number, with the
  sentinel as its last element; `ReadersFollow`: a reader has a prefix of the buffer
  and, once it saw it closed, all of it. Hence what a reader is sent next is the next
  event produced, and the end comes after the last.
- `NoWakeupLost`: `NobodyWaitsInVain`, under the above and `NoneMissed`: `publish` and
  `close` leave no reader waiting, and a reader goes to wait only with the buffer read
  to its end. So a worker waits at an empty queue only for a debate thread that still
  runs, one that joins finds the thread over, and one at the store finds its lock free.
  `PoolBounded`: the worker and the readers never hold more threads than there are. So
  who finds none finds a holder that goes on, or one waiting reader per thread.
- `ServingEnds`: `ServingRunsOut`, with `ReaderLeft`. What the run has left counts
  double, since a step of the worker may send a waiting reader back to check. The
  readers of a run that died keep what they have left.

Of `Outcome` the same module proves, for any number of rounds and any arguments over
the phrases of the lexicons, from `OutcomeAssumption`:

- `OutcomeTypeCorrect`: `OutcomeTypeOK`.
- `NeutralSafe`: `VerdictIsNeutral`. Each criterion is the number of marked positions
  of a side's turns, and exchanging the sides exchanges the two sets.
- `CorrectedSafe`: `AgreementWasCorrected`, beside `AgreementsCorrected`: every phrase
  that counts as agreement reaches the drift threshold, alone or with any others.
- `LeadSafe`: `SpeakingKeepsTheLead`. A turn of the leader adds a position to its own
  sets and none to the other's, and what agreement adds breaks ties only.
- `MoneySafe`: `MoneyIsTold`. The sum of a function over a finite set is a fold in an
  order nobody chose. `SumsAgree` and `SumWith` show that the order does not matter: the
  sum recurs at any element. From there sums of sums, of multiples and of groups
  (`SumOfGroups`), so that totals by side and by round come to those of the run, and the
  breakdowns of turns and of closings pool to the one of both (`BreakdownsPool`).
  `PricedInStep` says that the result is priced from what was spoken, by one table, and
  that an alert follows from it alone.

`LaunchProofs`, for all environments, key states and options, from `LaunchAssumption`
and `InputAssumption`:

- `TypeCorrect`: `TypeOK`; `AgentsSafe`: `AgentsMatchTheConfig`; `AcceptedSafe`:
  `AcceptedRunsStart`; `EndTold`: `EndIsTold`. The invariant says that settings, once
  loaded, are those of the environment; that the engine is that of the options and the
  agents those of the engine while a debate is under way; that what let a request
  through still holds, because no key is taken away; and what the exit code, the
  answer and the record mean at each stage.
- `StdoutSafe`: `StdoutIsTheResult`, for any number of abandoned calls and of lines. While
  stdout is diverted nothing reaches it; after that a stray line adds no result
  (`StrayTold`), and the result is printed where there is none yet (`ResultTold`).

`SharedLogProofs`, for all threads, runs and file sizes:

- `TypeCorrect`: `TypeOK`.
- `LogSafe`: `OnlyRacesHurt`. `Solo`: a call that none overlaps finds the other threads
  idle; `CacheIsRight`: the cache holds a run's sinks under that run; `FileIsThere`: the
  live file is missing only between archiving and reopening; `AloneIsSound`: the sink of
  a lone call is configured, open and its run's until it has written.

Of `LogRotation` the same module proves, for all caps and any number of writes and
crashes, from `LogRotationAssumption`:

- `RotationTypeCorrect`: `RotationTypeOK`, that is, the caps on files and lines.
- `NewestSafe`: `NewestKept`, crashes included. `WriteInStep` says what a write has
  done so far, `ShiftsInStep` that an archive is only ever moved to a free place.
  `EnoughKept` needs how old an archive is: `AgedInTurn` says that, in a process that
  did not crash, each archive lies a full file of lines behind the one after it, where
  one that is already shifted still counts at its old place.

`WorkerProofs`, of the watchdog, for every interval, window, beat period, delay and
budget that fit:

- `TypeCorrect`: `TypeOK`; `HealthySafe`: `HealthyNeverKilled`, for
  `BeatEvery + Delay <= Timeout`; `FallFound`: `FallFoundInTime`. `DueInTime` and `WorkerInTime` bound how late the next step and
  the next beat are; `SeenIsPast` ties what was read to what is there.
- `FallsAnswered`: `ActionsAnswerFalls`. `LogInStep` ties each kind of logged action to
  the restarts used and to how the run ended, `KillsAnswerFalls` the kills to the
  falls, the one not yet found included.

and of `SearchCall`, for every number of callers, retries, slots and results, from
`SearchCallAssumption` and `InputAssumption`:

- `SearchTypeCorrect`, `ResultsOwn`, `RequestsSafe`, `EmptySafe` and `SearchLogSafe`:
  `SearchTypeOK`, `ResultsAreOwn`, `RequestsBounded`, `EmptyIsExplained` and
  `LogTellsTheSearch`. `WorkersInStep` and `BoxesInStep` follow a worker from its
  start to the cells it leaves, with its own address on every hit; `AttemptsInTurn`
  says that those a search no longer waits for are known to be late; `QueuedStarved`
  names who held the slots a call was queued behind; `AnswersInStep` has the two ways
  in which a search is answered, with what each logged.
- `PromiseKept`: every step of a search is one `SearchPromise` allows, or shows
  nothing. This is the safety half of `ImplementsSearchPromise`.
- `SearchEnds`: `SearchRunsOut`, with `SearchLeft`, the attempts to come and the steps of
  one.

`BrowserPageProofs`, for any number of debates and events:

- `TypeCorrect`: `TypeOK`.
- `PageSafe`: `PageIsHonest`, from `PostsComeFirst`, that a debate has no stream before its
  POST is answered, and `StartReenabled`, that the answer enables Start.
- `PatientUserSafe`: `PatientUserSeesTheRun`. `OneAtATime`: a user who waits has at most
  the last debate under way, in one of its POST, its stream and its GET;
  `FeedsAreOfStreams`: whatever is on the page came through a stream.

- `PageComesToRest`: `CallbacksRunOut`, with `CallbacksLeft`. `FetchedLast`: a verdict is
  fetched only of a closed stream, and a stream brings no more than its events.

Model-checked only: liveness (`EveryRunEnds`, `ReadersEnd`, `LiveEnds` and the liveness of
`SearchPromise`), since it needs fairness and ENABLED. What can be said without them is
proved: `ThreadEnds`, `DebateEnds`, `ServingEnds`, `SearchEnds` and `PageComesToRest` give a
natural number that each step of the threads, searches and callbacks in question lowers
and no other step raises, but for the user's of the page, and `NoWakeupLost` says that no
one waits for nobody. That one of those steps is taken until the end is TLC's.

The folds of `DatasetSafe` and `MoneySafe` need induction over numbers and over finite
sets. The library's rules for it take an operator as a parameter, which the provers
cannot instantiate. It also says, of sets, that the finite subsets of a set are well
founded by inclusion; taken of the initial segments of the naturals, this yields
`LeastNatural` (every nonempty set of naturals has a least member), hence `Inductive` (a
set of naturals with 0 and with every successor is all of them) and `GrowingSets` (the
same for finite sets, by one element more).

`OutcomeTypeOK` is proved and not checked by a run: `OutcomeTypeCorrect` says it for
every instance.

## 7. Not modelled, and what is left

Not modelled:

- thread switches between `check`, `record`, `acquire` and `release` of the
  gatekeeper, which take no lock. The class says it serialises access, and the model
  takes its word: two threads that both pass the check are outside it;
- several runs on one pool: `DebateApi` has one run and its readers;
- prompts, the other skills' texts, redaction, plots, projections and layout (pure
  functions from text to text); the providers (HTTP); scripts, notebooks and CI.

Left: a module for each of the first two, that of the pool on top of `DebateApi`.
