------------------------------- MODULE Launch -------------------------------
(***************************************************************************)
(* How a debate is launched, from the environment to the agents, and how   *)
(* its end is told, on the four surfaces: the API server, `run`,           *)
(* `run --json` and `menu` (core/settings.py, core/validation.py,          *)
(* engine/models.py, engine/setup.py, engine/sdk.py, the cli and api       *)
(* packages).  The run itself is DebateLoop, the record's reads DebateApi. *)
(*                                                                         *)
(* A model string is known by its provider.  `rounds` stands for the       *)
(* numbers that must be positive (rounds, max_words, turn_timeout_s).      *)
(***************************************************************************)
EXTENDS Integers, Sequences, InputRules

CONSTANTS
  Environments,    \* what the environment and .env configure
  KeyStates,       \* what os.environ and .env hold for the keys, as pairs
  Rounds,          \* numbers a user may give
  KnownProviders,  \* providers pydantic-ai knows
  Keys,            \* the environment variables that hold keys
  ClientKey,       \* the one each known provider's client wants, None for none
  MaxMenuRuns,     \* bound: debates started from one menu
  MaxAbandoned,    \* bound: calls given up
  MaxLines,        \* bound: lines on stdout, where they stop
  None             \* Python's None

Surfaces == {"server", "run", "json", "menu"}
PROVIDER_KEY_ENV_VARS == [anthropic |-> "ANTHROPIC_API_KEY", openai |-> "OPENAI_API_KEY"]
Providers == KnownProviders \cup {"unknown"}
Held == {"absent", "blank", "set"}
Settings == [debater : Providers, pro : Providers \cup {None}, con : Providers \cup {None},
             controller : Providers, rounds : Int]
Agents == [pro : Providers, con : Providers, controller : Providers]
Statuses == {"running", "done", "failed"}
Options == [topic : TopicInput, rounds : Rounds \cup {None}, model : Providers \cup {None}]

ASSUME LaunchAssumption ==
  /\ DOMAIN PROVIDER_KEY_ENV_VARS \subseteq KnownProviders /\ "unknown" \notin KnownProviders
  /\ ClientKey \in [KnownProviders -> Keys \cup {None}]
  /\ \A p \in DOMAIN PROVIDER_KEY_ENV_VARS : /\ PROVIDER_KEY_ENV_VARS[p] \in Keys
                                            /\ ClientKey[p] = PROVIDER_KEY_ENV_VARS[p]
  /\ None \notin Keys \cup Providers \cup Int \cup Statuses /\ None \notin Agents
  /\ Environments \subseteq Settings \cup {None} /\ Rounds \subseteq Int
  /\ KeyStates \subseteq [environ : [Keys -> Held], dotenv : [Keys -> Held]]
  /\ MaxMenuRuns \in Nat /\ MaxAbandoned \in Nat /\ MaxLines \in Nat

VARIABLES
  surface,   \* what the user runs
  env,       \* what Settings() reads, None when it does not validate
  dotenv,    \* the keys written in .env
  environ,   \* the keys in os.environ
  settings,  \* the cached Settings
  stage,     \* what the process does next
  options,   \* the request, the flags or the menu's choices
  engine,    \* the DebateEngine: its settings and the config derived from them
  agents,    \* the models the agents of the last run were built on
  record,    \* the DebateRecord's status
  answer,    \* the status code the request was answered with
  exit,      \* the exit code of the process
  stdout,    \* with --json: what reached stdout
  abandoned, \* calls given up at their timeout
  orphans,   \* those of them still under way
  runs       \* debates started

process == <<surface, env, dotenv, environ, settings>>
calls == <<abandoned, orphans>>
vars == <<process, stage, options, engine, agents, record, answer, exit, stdout, calls, runs>>

-----------------------------------------------------------------------------
(* Console output: every step below logs to stdout, unless diverted. *)

\* Mutant: the settings and the config are loaded before stdout is diverted.
DivertedLate == stage \in {"setup", "running"}

\* Within clean_stdout.
Diverted == stage \in {"start", "ready", "prepare", "setup", "running"}

Printed(text) ==
  stdout' = IF surface = "json" /\ ~Diverted THEN Append(stdout, text) ELSE stdout

-----------------------------------------------------------------------------
(* Settings and keys. *)

\* get_settings writes the keys it has into os.environ, where they are missing.
PropagatedKeys == {"ANTHROPIC_API_KEY"}
Propagated ==
  [k \in Keys |-> IF k \in PropagatedKeys /\ environ[k] = "absent" THEN dotenv[k] ELSE environ[k]]

ProModel(s) == IF s.pro = None THEN s.debater ELSE s.pro
ConModel(s) == IF s.con = None THEN s.debater ELSE s.con

\* Mutant: the controller's provider is not looked at.
ActiveProvidersOfDebaters(s) == {s.debater, ProModel(s), ConModel(s)}

ActiveProviders(s) == {s.debater, s.controller, ProModel(s), ConModel(s)}

\* validate_required_keys: providers without a known key are let through.
MissingKeys(s) ==
  {PROVIDER_KEY_ENV_VARS[p] : p \in {q \in ActiveProviders(s) \cap DOMAIN PROVIDER_KEY_ENV_VARS :
                                       environ[PROVIDER_KEY_ENV_VARS[q]] # "set"}}

\* _resolve_settings / overrides(): only what was given replaces the configured.
Overridden(s, o) ==
  [s EXCEPT !.rounds  = IF o.rounds = None THEN @ ELSE o.rounds,
            !.debater = IF o.model = None THEN @ ELSE o.model]

\* DebateConfig.from_settings.
FromSettings(s) ==
  [pro_model |-> ProModel(s), con_model |-> ConModel(s), rounds |-> s.rounds]

-----------------------------------------------------------------------------
Start ==
  /\ stage = "start"
  /\ IF env # None
       THEN /\ settings' = env /\ environ' = Propagated
            /\ options' = [options EXCEPT !.rounds = IF surface = "menu" THEN env.rounds ELSE None]
            /\ stage' = "ready"
            /\ Printed("log")
            /\ UNCHANGED exit
       ELSE /\ exit' = 1 /\ stage' = "exiting"
            /\ UNCHANGED <<environ, settings, options, stdout>>
  /\ UNCHANGED <<surface, env, dotenv, engine, agents, record, answer, calls, runs>>

\* The topic and the flags of the command line.
Run ==
  /\ surface \in {"run", "json"} /\ stage = "ready"
  /\ options' \in Options
  /\ stage' = "prepare"
  /\ UNCHANGED <<process, engine, agents, record, answer, exit, stdout, calls, runs>>

Answered(code) == answer' = code /\ UNCHANGED <<process, engine, agents, exit, stdout, calls, runs>>

WellFormed(o) == ValidTopic(o.topic) /\ (o.rounds = None \/ o.rounds > 0)

\* POST /debates: DebateRequest does not validate.
RefuseRequest ==
  /\ surface = "server" /\ stage = "ready"
  /\ options' \in {o \in Options : ~WellFormed(o)}
  /\ Answered(422)
  /\ stage' = "over"
  /\ UNCHANGED record

\* The preflight, against the process settings.
RefuseMisconfigured ==
  /\ surface = "server" /\ stage = "ready"
  /\ options' \in {o \in Options : WellFormed(o)}
  /\ MissingKeys(settings) # {}
  /\ Answered(503)
  /\ stage' = "over"
  /\ UNCHANGED record

Accept ==
  /\ surface = "server" /\ stage = "ready"
  /\ options' \in {o \in Options : WellFormed(o)}
  /\ MissingKeys(settings) = {}
  /\ record' = "running"
  /\ Answered(201)
  /\ stage' = "prepare"

-----------------------------------------------------------------------------
(* The menu: a choice that does not parse leaves the previous one. *)

Choosing ==
  /\ surface = "menu" /\ stage = "ready"
  /\ UNCHANGED <<process, engine, agents, record, answer, exit, stdout, calls, runs>>

SetTopic == Choosing /\ \E topic \in TopicInput : options' = [options EXCEPT !.topic = topic]
                     /\ UNCHANGED stage

SetInt == Choosing /\ \E n \in Rounds : n > 0 /\ options' = [options EXCEPT !.rounds = n]
                   /\ UNCHANGED stage

SetModel == Choosing /\ \E model \in Providers \cup {None} : options' = [options EXCEPT !.model = model]
                     /\ UNCHANGED stage

\* The menu refuses to start without a topic.
StartDebate ==
  /\ Choosing /\ ~RejectIfEmpty(options.topic) /\ runs < MaxMenuRuns
  /\ stage' = "prepare"
  /\ UNCHANGED options

Quit ==
  /\ surface = "menu" /\ stage = "ready"
  /\ exit' = 0 /\ stage' = "exiting"
  /\ UNCHANGED <<process, options, engine, agents, record, answer, stdout, calls, runs>>

-----------------------------------------------------------------------------
(* The engine is built, set up and run. *)

\* Mutant: a failure other than the named ones ends the command without a code.
FailedQuietly(code) ==
  IF surface = "server" THEN record' = "failed" /\ stage' = "over" /\ UNCHANGED exit
  ELSE stage' = "exiting" /\ exit' = (IF code = 1 THEN 0 ELSE code) /\ UNCHANGED record

\* _run_debate records the failure; the commands report it and exit.
Failed(code) ==
  IF surface = "server" THEN record' = "failed" /\ stage' = "over" /\ UNCHANGED exit
  ELSE stage' = "exiting" /\ exit' = code /\ UNCHANGED record

\* Mutant: the engine is given the process settings.
EngineOfProcess == [settings |-> settings, config |-> FromSettings(Overridden(settings, options))]

EngineOf ==
  LET s == Overridden(settings, options)
  IN  [settings |-> s, config |-> FromSettings(s)]

Prepare ==
  /\ stage = "prepare" /\ Overridden(settings, options).rounds > 0
  /\ engine' = EngineOf
  /\ agents' = None
  /\ runs' = runs + 1
  /\ Printed("log")
  /\ stage' = "setup"
  /\ UNCHANGED <<process, options, record, answer, exit, calls>>

\* DebateConfig refuses the settings: a usage error on the command line.
PrepareRefused ==
  /\ stage = "prepare" /\ Overridden(settings, options).rounds <= 0
  /\ Failed(2)
  /\ UNCHANGED <<process, options, engine, agents, answer, stdout, calls, runs>>

AgentModels ==
  [pro |-> ProModel(engine.settings), con |-> ConModel(engine.settings),
   controller |-> engine.settings.controller]

\* infer_model builds the provider's client at once, which wants its key, be it
\* one the validation knows or not.
Buildable(model, keys) ==
  /\ model \in KnownProviders
  /\ ClientKey[model] # None => keys[ClientKey[model]] = "set"

SetUpRaises ==
  ~ValidTopic(options.topic) \/ \E agent \in DOMAIN AgentModels : ~Buildable(AgentModels[agent], environ)

SetupDebate ==
  /\ stage = "setup" /\ ~SetUpRaises
  /\ agents' = AgentModels
  /\ Printed("log")
  /\ stage' = "running"
  /\ UNCHANGED <<process, options, engine, record, answer, exit, calls, runs>>

SetupRefused ==
  /\ stage = "setup" /\ SetUpRaises
  /\ Failed(1)
  /\ UNCHANGED <<process, options, engine, agents, answer, stdout, calls, runs>>

\* An attempt at a turn times out: its worker is abandoned.
Abandon ==
  /\ stage = "running" /\ abandoned < MaxAbandoned
  /\ abandoned' = abandoned + 1 /\ orphans' = orphans + 1
  /\ Printed("log")
  /\ UNCHANGED <<process, stage, options, engine, agents, record, answer, exit, runs>>

\* The gatekeeper logs every attempt and retry of an abandoned call, until the
\* call ends: several lines of each.
OrphanLogs ==
  /\ orphans > 0 /\ stage # "over" /\ Len(stdout) < MaxLines
  /\ orphans' \in {orphans, orphans - 1}
  /\ Printed("stray")
  /\ UNCHANGED <<process, stage, options, engine, agents, record, answer, exit, abandoned, runs>>

\* The run returns its result.
Finish ==
  /\ stage = "running"
  /\ stage' = CASE surface = "server" -> "over"
                [] surface = "menu" -> "ready"
                [] surface = "run" -> "exiting"
                [] surface = "json" -> "emit"
  /\ record' = IF surface = "server" THEN "done" ELSE record
  /\ exit' = IF surface = "run" THEN 0 ELSE exit
  /\ UNCHANGED <<process, options, engine, agents, answer, stdout, calls, runs>>

RunRaises ==
  /\ stage = "running"
  /\ Failed(1)
  /\ UNCHANGED <<process, options, engine, agents, answer, stdout, calls, runs>>

\* clean_stdout has ended.
EmitJson ==
  /\ stage = "emit"
  /\ Printed("json")
  /\ exit' = 0 /\ stage' = "exiting"
  /\ UNCHANGED <<process, options, engine, agents, record, answer, calls, runs>>

\* A daemon worker does not outlive the process.
Exit ==
  /\ stage = "exiting"
  /\ stage' = "over"
  /\ UNCHANGED <<process, options, engine, agents, record, answer, exit, stdout, calls, runs>>

Over == stage = "over" /\ UNCHANGED vars

NoTopic == [control |-> FALSE, length |-> 0]

Init ==
  /\ surface \in Surfaces /\ env \in Environments
  /\ \E keys \in KeyStates : environ = keys.environ /\ dotenv = keys.dotenv
  /\ settings = None /\ stage = "start"
  /\ options = [topic |-> NoTopic, rounds |-> None, model |-> None]
  /\ engine = None /\ agents = None
  /\ record = None /\ answer = None /\ exit = None
  /\ stdout = <<>> /\ abandoned = 0 /\ orphans = 0 /\ runs = 0

Next ==
  \/ Start \/ Run
  \/ RefuseRequest \/ RefuseMisconfigured \/ Accept
  \/ SetTopic \/ SetInt \/ SetModel \/ StartDebate \/ Quit
  \/ Prepare \/ PrepareRefused \/ SetupDebate \/ SetupRefused
  \/ Abandon \/ OrphanLogs \/ Finish \/ RunRaises
  \/ EmitJson \/ Exit \/ Over

Spec == Init /\ [][Next]_vars

-----------------------------------------------------------------------------
Configs == [pro_model : Providers, con_model : Providers, rounds : Int]

\* Every variable ranges over what the code keeps in it.
TypeOK ==
  /\ surface \in Surfaces /\ env \in Environments
  /\ dotenv \in [Keys -> Held] /\ environ \in [Keys -> Held]
  /\ settings \in {None, env}
  /\ stage \in {"start", "ready", "prepare", "setup", "running", "emit", "exiting", "over"}
  /\ options \in [topic : TopicInput, rounds : Int \cup {None}, model : Providers \cup {None}]
  /\ engine \in [settings : Settings, config : Configs] \cup {None}
  /\ agents \in Agents \cup {None}
  /\ record \in Statuses \cup {None}
  /\ answer \in {None, 201, 422, 503} /\ exit \in {None, 0, 1, 2}
  /\ stdout \in Seq({"log", "json", "stray"})
  /\ abandoned \in Nat /\ orphans \in 0 .. abandoned /\ runs \in Nat

\* What a run is priced and paced by is what it runs on: the agents are built
\* on the models the config names, the configured ones but for what this
\* launch gave, and a choice of an earlier debate of the menu that was changed
\* since has no say (app.py:56-77, debate_runner.py:41-52, setup.py:94-144).
AgentsMatchTheConfig ==
  agents # None /\ stage \in {"running", "emit"} =>
    LET debater == IF options.model = None THEN env.debater ELSE options.model
    IN  /\ agents.pro = engine.config.pro_model /\ agents.con = engine.config.con_model
        /\ agents.pro = (IF env.pro = None THEN debater ELSE env.pro)
        /\ agents.con = (IF env.con = None THEN debater ELSE env.con)
        /\ engine.config.rounds = (IF options.rounds = None THEN env.rounds ELSE options.rounds)

\* An accepted debate is not doomed by a key the server checks: without a model
\* of its own it gets to its first turn, unless the server's own numbers forbid
\* it or a provider the preflight has no key for does, one nobody knows or one
\* whose client wants a key of its own (preflight.py:42-50, models.py:47).
AcceptedRunsStart ==
  record = "failed" /\ agents = None =>
    \/ options.model # None
    \/ Overridden(env, options).rounds <= 0
    \/ \E p \in ActiveProviders(env) \ DOMAIN PROVIDER_KEY_ENV_VARS : ~Buildable(p, environ)

\* With --json the result reaches stdout once, in a run that exits with 0 and in
\* no other, and beside it nothing but lines of calls the run abandoned, in a
\* run that abandoned one (app.py:137-147, _json.py:45-71).
StdoutIsTheResult ==
  surface = "json" =>
    LET results == {i \in DOMAIN stdout : stdout[i] = "json"}
    IN  /\ IF exit = 0 THEN \E i \in DOMAIN stdout : results = {i} ELSE results = {}
        /\ \A i \in DOMAIN stdout \ results : stdout[i] = "stray" /\ abandoned > 0

\* How the launch ended is told: a command exits with 0 only when the debate
\* it was given has a result, or at the user's word; a refused request leaves
\* no record, an accepted one a record that says how its run ended
\* (_json.py:74-98, debate_routes.py:45-65).
EndIsTold ==
  stage = "over" =>
    /\ exit = None <=> surface = "server" /\ env # None
    /\ exit = 0 /\ surface # "menu" => agents # None
    /\ exit \in {1, 2} /\ surface # "menu" /\ agents # None => exit = 1
    /\ record # None <=> answer = 201
    /\ record # "running"
    /\ record = "done" => agents # None
=============================================================================
