----------------------------- MODULE LaunchProofs -----------------------------
(***************************************************************************)
(* For every environment, key and option: a launch keeps its types, its    *)
(* agents are built on the models its config names, an accepted request is *)
(* not doomed by a key the server checks, how it ended is told, and with   *)
(* --json stdout has the result and what abandoned calls print beside it.  *)
(*                                                                         *)
(* The argument: from Start to the end of a debate the settings are those  *)
(* of the environment, from Prepare to the end the engine is the one of    *)
(* these settings and of the options chosen, and no key is taken away.     *)
(***************************************************************************)
EXTENDS Launch, TLAPS

USE LaunchAssumption, InputAssumption DEF calls

\* A configuration is there once the process has started.
Started ==
  stage \in {"ready", "prepare", "setup", "running", "emit"} => env # None /\ settings = env

\* The engine is that of the options, the agents those of the engine.
Built ==
  /\ stage \in {"setup", "running", "emit"} => engine = EngineOf
  /\ stage \in {"running", "emit"} => agents = AgentModels

\* What an accepted request was let through for still holds.
StillAccepted ==
  /\ surface = "server" /\ stage \in {"prepare", "setup", "running"} =>
       WellFormed(options) /\ MissingKeys(settings) = {}
  /\ record = "failed" => stage = "over" /\ surface = "server"

\* The exit code is given when the process leaves, the record goes with 201.
ExitGiven ==
  /\ stage \notin {"exiting", "over"} => exit = None
  /\ stage = "exiting" => exit # None /\ (surface = "server" => env = None)
  /\ surface = "server" /\ env # None => exit = None
  /\ stage = "over" /\ (surface # "server" \/ env = None) => exit # None
  /\ stage = "emit" => surface = "json"
  /\ env = None => stage \in {"start", "exiting", "over"} /\ record = None

ExitMeant ==
  /\ surface # "menu" /\ stage \in {"start", "ready", "prepare", "setup"} => agents = None
  /\ exit = 0 /\ surface # "menu" => agents # None
  /\ exit \in {1, 2} /\ surface # "menu" /\ agents # None => exit = 1

RecordTold ==
  /\ record # None <=> answer = 201
  /\ surface = "server" /\ stage \in {"prepare", "setup", "running"} => record = "running"
  /\ surface # "server" => record = None
  /\ stage \in {"start", "ready"} => record = None
  /\ stage \in {"exiting", "over"} => record # "running"
  /\ record = "done" => agents # None

Parts ==
  /\ Started /\ Built /\ StillAccepted /\ ExitGiven /\ ExitMeant /\ RecordTold
  /\ AcceptedRunsStart

IInv == TypeOK /\ Parts

-----------------------------------------------------------------------------
(* The operators: their types, and what they do not read. *)

AnyOptions == [topic : TopicInput, rounds : Int \cup {None}, model : Providers \cup {None}]

LEMMA OverriddenTyped ==
  ASSUME NEW s \in Settings, NEW o \in AnyOptions
  PROVE  Overridden(s, o) \in Settings
  BY DEF Overridden, Settings, AnyOptions

LEMMA ConfigTyped ==
  ASSUME NEW s \in Settings
  PROVE  ProModel(s) \in Providers /\ ConModel(s) \in Providers /\ FromSettings(s) \in Configs
  BY DEF FromSettings, Configs, Settings, ProModel, ConModel

LEMMA OptionsTyped == Options \subseteq AnyOptions
  BY DEF Options, AnyOptions

LEMMA EngineTyped ==
  ASSUME settings \in Settings, options \in AnyOptions
  PROVE  EngineOf \in [settings : Settings, config : Configs]
  BY OverriddenTyped, ConfigTyped DEF EngineOf

LEMMA AgentsTyped ==
  ASSUME engine \in [settings : Settings, config : Configs]
  PROVE  AgentModels \in Agents
<1>1. engine.settings \in Settings
  OBVIOUS
<1> QED
  BY <1>1, ConfigTyped DEF AgentModels, Agents, Settings

LEMMA PropagatedTyped ==
  ASSUME dotenv \in [Keys -> Held], environ \in [Keys -> Held]
  PROVE  Propagated \in [Keys -> Held]
  BY DEF Propagated

LEMMA PrintedTyped ==
  ASSUME stdout \in Seq({"log", "json", "stray"}), NEW text \in {"log", "json", "stray"},
         Printed(text)
  PROVE  stdout' \in Seq({"log", "json", "stray"})
  BY DEF Printed

LEMMA SameEngine == UNCHANGED <<settings, options>> => EngineOf' = EngineOf
  BY DEF EngineOf

LEMMA SameAgents == UNCHANGED engine => AgentModels' = AgentModels
  BY DEF AgentModels

LEMMA SameKeys == UNCHANGED <<settings, environ>> => MissingKeys(settings)' = MissingKeys(settings)
  BY DEF MissingKeys

LEMMA ConfigThere ==
  ASSUME IInv, stage \in {"ready", "prepare", "setup", "running", "emit"}
  PROVE  settings = env /\ settings \in Settings /\ options \in AnyOptions
  BY DEF IInv, Parts, Started, TypeOK, AnyOptions

LEMMA AgentsThere ==
  ASSUME IInv, stage \in {"running", "emit"}
  PROVE  agents \in Agents /\ agents # None
<1>1. settings \in Settings /\ options \in AnyOptions /\ engine = EngineOf /\ agents = AgentModels
  BY ConfigThere DEF IInv, Parts, Built
<1>2. agents \in Agents
  BY <1>1, EngineTyped, AgentsTyped
<1> QED
  BY <1>2

\* A set-up that raises for an accepted debate without a model of its own is
\* one of a provider the preflight has no key for.
LEMMA SetupRaisesForUnmapped ==
  ASSUME IInv, stage = "setup", SetUpRaises, surface = "server", options.model = None
  PROVE  \E p \in ActiveProviders(env) \ DOMAIN PROVIDER_KEY_ENV_VARS : ~Buildable(p, environ)
<1>1. settings = env /\ settings \in Settings /\ options \in AnyOptions
  BY ConfigThere
<1>2. engine.settings = Overridden(settings, options)
  BY DEF IInv, Parts, Built, EngineOf
<1>3. /\ engine.settings.debater = settings.debater /\ engine.settings.pro = settings.pro
      /\ engine.settings.con = settings.con /\ engine.settings.controller = settings.controller
  BY <1>1, <1>2 DEF Overridden, Settings
<1>4. WellFormed(options) /\ MissingKeys(settings) = {}
  BY DEF IInv, Parts, StillAccepted
<1>5. PICK agent \in DOMAIN AgentModels : ~Buildable(AgentModels[agent], environ)
  BY <1>4 DEF SetUpRaises, WellFormed
<1>6. AgentModels[agent] \in ActiveProviders(env)
  BY <1>1, <1>3, <1>5 DEF AgentModels, ActiveProviders, ProModel, ConModel, Settings
<1>7. \A p \in ActiveProviders(settings) \cap DOMAIN PROVIDER_KEY_ENV_VARS :
        environ[PROVIDER_KEY_ENV_VARS[p]] = "set"
  BY <1>4 DEF MissingKeys
<1>8. \A p \in DOMAIN PROVIDER_KEY_ENV_VARS :
        p \in KnownProviders /\ ClientKey[p] = PROVIDER_KEY_ENV_VARS[p]
  BY LaunchAssumption
<1>9. AgentModels[agent] \notin DOMAIN PROVIDER_KEY_ENV_VARS
  <2> DEFINE model == AgentModels[agent]
  <2>1. model \in ActiveProviders(env) /\ ~Buildable(model, environ)
    BY <1>5, <1>6
  <2> HIDE DEF model
  <2>2. model \notin DOMAIN PROVIDER_KEY_ENV_VARS
    BY <1>1, <1>7, <1>8, <2>1 DEF Buildable
  <2> QED
    BY <2>2 DEF model
<1> QED
  BY <1>5, <1>6, <1>9

-----------------------------------------------------------------------------
(* Every action keeps the invariant. *)

LEMMA InitEstablishes == Init => IInv
<1> SUFFICES ASSUME Init PROVE IInv
  OBVIOUS
<1>1. abandoned \in Nat /\ orphans \in 0 .. abandoned
  BY DEF Init
<1>2. options \in AnyOptions
  BY DEF Init, AnyOptions, NoTopic, TopicInput, TextInput
<1>3. /\ dotenv \in [Keys -> Held] /\ environ \in [Keys -> Held]
      /\ stdout \in Seq({"log", "json", "stray"})
  BY DEF Init
<1>4. TypeOK
  BY <1>1, <1>2, <1>3 DEF Init, TypeOK, AnyOptions
<1>5. Parts
  BY DEF Init, Parts, Started, Built, StillAccepted, ExitGiven, ExitMeant, RecordTold,
      AcceptedRunsStart, Statuses
<1> QED
  BY <1>4, <1>5 DEF IInv

LEMMA StartKeeps == IInv /\ Start => IInv'
<1> SUFFICES ASSUME IInv, Start PROVE IInv'
  OBVIOUS
<1>1. environ' \in [Keys -> Held]
  BY PropagatedTyped DEF Start, IInv, TypeOK
<1>2. env # None => env.rounds \in Int
  BY DEF IInv, TypeOK, Settings
<1>3. options' \in [topic : TopicInput, rounds : Int \cup {None}, model : Providers \cup {None}]
  BY <1>2 DEF Start, IInv, TypeOK
<1>4. settings' \in {None, env} /\ exit' \in {None, 0, 1, 2}
  BY DEF Start, IInv, TypeOK
<1>5. stdout' \in Seq({"log", "json", "stray"})
  BY PrintedTyped DEF Start, IInv, TypeOK
<1>6. TypeOK'
  BY <1>1, <1>3, <1>4, <1>5 DEF Start, process, IInv, TypeOK
<1>7. Parts'
  BY SameEngine, SameAgents, SameKeys
  DEF Start, process, IInv, Parts, Started, Built, StillAccepted, ExitGiven, ExitMeant,
      RecordTold, AcceptedRunsStart, Statuses
<1> QED
  BY <1>6, <1>7 DEF IInv

LEMMA RunKeeps == IInv /\ Run => IInv'
<1> SUFFICES ASSUME IInv, Run PROVE IInv'
  OBVIOUS
<1>1. options' \in [topic : TopicInput, rounds : Int \cup {None}, model : Providers \cup {None}]
  BY OptionsTyped DEF Run, AnyOptions
<1>2. TypeOK'
  BY <1>1 DEF Run, process, IInv, TypeOK
<1>3. Parts'
  BY SameEngine, SameAgents, SameKeys
  DEF Run, process, IInv, Parts, Started, Built, StillAccepted, ExitGiven, ExitMeant,
      RecordTold, AcceptedRunsStart, Statuses
<1> QED
  BY <1>2, <1>3 DEF IInv

LEMMA RefuseRequestKeeps == IInv /\ RefuseRequest => IInv'
<1> SUFFICES ASSUME IInv, RefuseRequest PROVE IInv'
  OBVIOUS
<1>1. options' \in [topic : TopicInput, rounds : Int \cup {None}, model : Providers \cup {None}]
  BY OptionsTyped DEF RefuseRequest, AnyOptions
<1>2. TypeOK'
  BY <1>1 DEF RefuseRequest, Answered, process, IInv, TypeOK
<1>3. Parts'
  BY SameEngine, SameAgents, SameKeys
    DEF RefuseRequest, Answered, process, IInv, Parts, Started, Built, StillAccepted,
      ExitGiven, ExitMeant,
      RecordTold, AcceptedRunsStart, Statuses
<1> QED
  BY <1>2, <1>3 DEF IInv

LEMMA RefuseMisconfiguredKeeps == IInv /\ RefuseMisconfigured => IInv'
<1> SUFFICES ASSUME IInv, RefuseMisconfigured PROVE IInv'
  OBVIOUS
<1>1. options' \in [topic : TopicInput, rounds : Int \cup {None}, model : Providers \cup {None}]
  BY OptionsTyped DEF RefuseMisconfigured, AnyOptions
<1>2. TypeOK'
  BY <1>1 DEF RefuseMisconfigured, Answered, process, IInv, TypeOK
<1>3. Parts'
  BY SameEngine, SameAgents, SameKeys
    DEF RefuseMisconfigured, Answered, process, IInv, Parts, Started, Built, StillAccepted,
      ExitGiven, ExitMeant,
      RecordTold, AcceptedRunsStart, Statuses
<1> QED
  BY <1>2, <1>3 DEF IInv

LEMMA AcceptKeeps == IInv /\ Accept => IInv'
<1> SUFFICES ASSUME IInv, Accept PROVE IInv'
  OBVIOUS
<1>1. WellFormed(options)'
  BY DEF Accept, WellFormed
<1>2. /\ env # None /\ settings = env
      /\ None \notin {0, 1, 2, 201, 422, 503, "running", "done", "failed"}
  BY DEF Accept, IInv, Parts, Started, Statuses
<1>3. options' \in [topic : TopicInput, rounds : Int \cup {None}, model : Providers \cup {None}]
  BY OptionsTyped DEF Accept, AnyOptions
<1>4. TypeOK'
  BY <1>3 DEF Accept, Answered, Statuses, process, IInv, TypeOK
<1>5. Parts'
  BY <1>1, <1>2, SameEngine, SameAgents, SameKeys
    DEF Accept, Answered, process, IInv, Parts, Started, Built, StillAccepted, ExitGiven,
      ExitMeant,
      RecordTold, AcceptedRunsStart, Statuses
<1> QED
  BY <1>4, <1>5 DEF IInv

LEMMA SetTopicKeeps == IInv /\ SetTopic => IInv'
<1> SUFFICES ASSUME IInv, SetTopic PROVE IInv'
  OBVIOUS
<1>1. TypeOK'
  BY DEF SetTopic, Choosing, process, IInv, TypeOK
<1>2. Parts'
  BY SameEngine, SameAgents, SameKeys
    DEF SetTopic, Choosing, process, IInv, Parts, Started, Built, StillAccepted, ExitGiven,
      ExitMeant,
      RecordTold, AcceptedRunsStart, Statuses
<1> QED
  BY <1>1, <1>2 DEF IInv

LEMMA SetIntKeeps == IInv /\ SetInt => IInv'
<1> SUFFICES ASSUME IInv, SetInt PROVE IInv'
  OBVIOUS
<1>1. TypeOK'
  BY DEF SetInt, Choosing, process, IInv, TypeOK
<1>2. Parts'
  BY SameEngine, SameAgents, SameKeys
    DEF SetInt, Choosing, process, IInv, Parts, Started, Built, StillAccepted, ExitGiven,
      ExitMeant,
      RecordTold, AcceptedRunsStart, Statuses
<1> QED
  BY <1>1, <1>2 DEF IInv

LEMMA SetModelKeeps == IInv /\ SetModel => IInv'
<1> SUFFICES ASSUME IInv, SetModel PROVE IInv'
  OBVIOUS
<1>1. TypeOK'
  BY DEF SetModel, Choosing, process, IInv, TypeOK
<1>2. Parts'
  BY SameEngine, SameAgents, SameKeys
    DEF SetModel, Choosing, process, IInv, Parts, Started, Built, StillAccepted, ExitGiven,
      ExitMeant,
      RecordTold, AcceptedRunsStart, Statuses
<1> QED
  BY <1>1, <1>2 DEF IInv

LEMMA StartDebateKeeps == IInv /\ StartDebate => IInv'
<1> SUFFICES ASSUME IInv, StartDebate PROVE IInv'
  OBVIOUS
<1>1. TypeOK'
  BY DEF StartDebate, Choosing, process, IInv, TypeOK
<1>2. Parts'
  BY SameEngine, SameAgents, SameKeys
    DEF StartDebate, Choosing, process, IInv, Parts, Started, Built, StillAccepted,
      ExitGiven, ExitMeant,
      RecordTold, AcceptedRunsStart, Statuses
<1> QED
  BY <1>1, <1>2 DEF IInv

LEMMA QuitKeeps == IInv /\ Quit => IInv'
<1> SUFFICES ASSUME IInv, Quit PROVE IInv'
  OBVIOUS
<1>1. TypeOK'
  BY DEF Quit, process, IInv, TypeOK
<1>2. Parts'
  BY SameEngine, SameAgents, SameKeys
  DEF Quit, process, IInv, Parts, Started, Built, StillAccepted, ExitGiven, ExitMeant,
      RecordTold, AcceptedRunsStart, Statuses
<1> QED
  BY <1>1, <1>2 DEF IInv

LEMMA PrepareKeeps == IInv /\ Prepare => IInv'
<1> SUFFICES ASSUME IInv, Prepare PROVE IInv'
  OBVIOUS
<1>1. settings = env /\ settings \in Settings /\ options \in AnyOptions
  BY ConfigThere DEF Prepare
<1>2. TypeOK'
  BY <1>1, EngineTyped, PrintedTyped DEF Prepare, process, IInv, TypeOK
<1>3. Parts'
  BY <1>1, SameEngine, SameAgents, SameKeys
  DEF Prepare, process, IInv, Parts, Started, Built, StillAccepted, ExitGiven, ExitMeant,
      RecordTold, AcceptedRunsStart, Statuses
<1> QED
  BY <1>2, <1>3 DEF IInv

LEMMA PrepareRefusedKeeps == IInv /\ PrepareRefused => IInv'
<1> SUFFICES ASSUME IInv, PrepareRefused PROVE IInv'
  OBVIOUS
<1>1. agents \in Agents \cup {None} /\ None \notin {0, 1, 2, "running", "done", "failed"}
  BY DEF IInv, TypeOK, Statuses
<1>2. surface = "server" => record = "running" /\ env # None
  BY DEF PrepareRefused, IInv, Parts, RecordTold, Started
<1>3. TypeOK'
  BY DEF PrepareRefused, Failed, Statuses, process, IInv, TypeOK
<1>4. Parts'
  BY <1>1, <1>2, SameEngine, SameAgents, SameKeys
    DEF PrepareRefused, Failed, process, IInv, Parts, Started, Built, StillAccepted,
      ExitGiven, ExitMeant,
      RecordTold, AcceptedRunsStart, Statuses
<1> QED
  BY <1>3, <1>4 DEF IInv

LEMMA SetupDebateKeeps == IInv /\ SetupDebate => IInv'
<1> SUFFICES ASSUME IInv, SetupDebate PROVE IInv'
  OBVIOUS
<1>1. AgentModels \in Agents
  <2>1. settings \in Settings /\ options \in AnyOptions /\ engine = EngineOf
    BY ConfigThere DEF SetupDebate, IInv, Parts, Built
  <2> QED
    BY <2>1, EngineTyped, AgentsTyped
<1>2. TypeOK'
  BY <1>1, PrintedTyped DEF SetupDebate, process, IInv, TypeOK
<1>3. Parts'
  BY <1>1, SameEngine, SameAgents, SameKeys
    DEF SetupDebate, process, IInv, Parts, Started, Built, StillAccepted, ExitGiven,
      ExitMeant,
      RecordTold, AcceptedRunsStart, Statuses
<1> QED
  BY <1>2, <1>3 DEF IInv

LEMMA SetupRefusedKeeps == IInv /\ SetupRefused => IInv'
<1> SUFFICES ASSUME IInv, SetupRefused PROVE IInv'
  OBVIOUS
<1>1. surface = "server" =>
        \/ options.model # None
        \/ \E p \in ActiveProviders(env) \ DOMAIN PROVIDER_KEY_ENV_VARS : ~Buildable(p, environ)
  BY SetupRaisesForUnmapped DEF SetupRefused
<1>2. (options.model # None)' = (options.model # None) /\ UNCHANGED <<env, environ>>
  BY DEF SetupRefused, process
<1>3. None \notin {0, 1, 2, "running", "done", "failed"} /\ env # None
  BY DEF SetupRefused, IInv, Parts, Started, Statuses
<1>4. AcceptedRunsStart'
  BY <1>1, <1>2 DEF SetupRefused, Failed, AcceptedRunsStart, IInv, Parts
<1>5. TypeOK'
  BY DEF SetupRefused, Failed, Statuses, process, IInv, TypeOK
<1>6. Parts'
  BY <1>3, <1>4, SameEngine, SameAgents, SameKeys
    DEF SetupRefused, Failed, process, IInv, Parts, Started, Built, StillAccepted,
      ExitGiven, ExitMeant,
      RecordTold, AcceptedRunsStart, Statuses
<1> QED
  BY <1>5, <1>6 DEF IInv

LEMMA AbandonKeeps == IInv /\ Abandon => IInv'
<1> SUFFICES ASSUME IInv, Abandon PROVE IInv'
  OBVIOUS
<1>1. TypeOK'
  BY PrintedTyped DEF Abandon, process, IInv, TypeOK
<1>2. Parts'
  BY SameEngine, SameAgents, SameKeys
  DEF Abandon, process, IInv, Parts, Started, Built, StillAccepted, ExitGiven, ExitMeant,
      RecordTold, AcceptedRunsStart, Statuses
<1> QED
  BY <1>1, <1>2 DEF IInv

LEMMA OrphanLogsKeeps == IInv /\ OrphanLogs => IInv'
<1> SUFFICES ASSUME IInv, OrphanLogs PROVE IInv'
  OBVIOUS
<1>1. stdout' \in Seq({"log", "json", "stray"})
  BY PrintedTyped DEF OrphanLogs, IInv, TypeOK
<1>2. orphans' \in 0 .. abandoned'
  BY DEF OrphanLogs, IInv, TypeOK
<1>3. TypeOK'
  BY <1>1, <1>2 DEF OrphanLogs, process, IInv, TypeOK
<1>4. Parts'
  BY SameEngine, SameAgents, SameKeys
  DEF OrphanLogs, process, IInv, Parts, Started, Built, StillAccepted, ExitGiven, ExitMeant,
      RecordTold, AcceptedRunsStart, Statuses
<1> QED
  BY <1>3, <1>4 DEF IInv

LEMMA FinishKeeps == IInv /\ Finish => IInv'
<1> SUFFICES ASSUME IInv, Finish PROVE IInv'
  OBVIOUS
<1>1. surface \in {"server", "menu", "run", "json"}
  BY DEF IInv, TypeOK, Surfaces
<1>2. /\ stage' = (IF surface = "server" THEN "over" ELSE IF surface = "menu" THEN "ready"
                    ELSE IF surface = "run" THEN "exiting" ELSE "emit")
      /\ record' = (IF surface = "server" THEN "done" ELSE record)
      /\ exit' = (IF surface = "run" THEN 0 ELSE exit)
  BY <1>1 DEF Finish
<1>3. agents # None
  BY AgentsThere DEF Finish
<1>4. None \notin {0, 1, 2, "running", "done", "failed"}
  BY DEF Statuses
<1>5. TypeOK'
  BY <1>1, <1>2 DEF Finish, Statuses, process, IInv, TypeOK
<1>6. Parts'
  BY <1>1, <1>2, <1>3, <1>4, SameEngine, SameAgents, SameKeys
  DEF Finish, process, IInv, Parts, Started, Built, StillAccepted, ExitGiven, ExitMeant,
      RecordTold, AcceptedRunsStart, Statuses
<1> QED
  BY <1>5, <1>6 DEF IInv

LEMMA RunRaisesKeeps == IInv /\ RunRaises => IInv'
<1> SUFFICES ASSUME IInv, RunRaises PROVE IInv'
  OBVIOUS
<1>1. agents # None /\ agents' # None
  BY AgentsThere DEF RunRaises
<1>2. None \notin {0, 1, 2, "running", "done", "failed"} /\ env # None
  BY DEF RunRaises, IInv, Parts, Started, Statuses
<1>3. TypeOK'
  BY DEF RunRaises, Failed, Statuses, process, IInv, TypeOK
<1>4. Parts'
  BY <1>1, <1>2, SameEngine, SameAgents, SameKeys
    DEF RunRaises, Failed, process, IInv, Parts, Started, Built, StillAccepted, ExitGiven,
      ExitMeant,
      RecordTold, AcceptedRunsStart, Statuses
<1> QED
  BY <1>3, <1>4 DEF IInv

LEMMA EmitJsonKeeps == IInv /\ EmitJson => IInv'
<1> SUFFICES ASSUME IInv, EmitJson PROVE IInv'
  OBVIOUS
<1>1. agents # None
  BY AgentsThere DEF EmitJson
<1>2. None # 0
  OBVIOUS
<1>3. TypeOK'
  BY PrintedTyped DEF EmitJson, process, IInv, TypeOK
<1>4. Parts'
  BY <1>1, <1>2, SameEngine, SameAgents, SameKeys
  DEF EmitJson, process, IInv, Parts, Started, Built, StillAccepted, ExitGiven, ExitMeant,
      RecordTold, AcceptedRunsStart, Statuses
<1> QED
  BY <1>3, <1>4 DEF IInv

LEMMA ExitKeeps == IInv /\ Exit => IInv'
<1> SUFFICES ASSUME IInv, Exit PROVE IInv'
  OBVIOUS
<1>1. TypeOK'
  BY DEF Exit, process, IInv, TypeOK
<1>2. Parts'
  BY SameEngine, SameAgents, SameKeys
  DEF Exit, process, IInv, Parts, Started, Built, StillAccepted, ExitGiven, ExitMeant,
      RecordTold, AcceptedRunsStart, Statuses
<1> QED
  BY <1>1, <1>2 DEF IInv

LEMMA NextKeeps == IInv /\ [Next]_vars => IInv'
<1> SUFFICES ASSUME IInv, [Next]_vars PROVE IInv'
  OBVIOUS
<1>1. CASE UNCHANGED vars
  <2>1. TypeOK'
    BY <1>1 DEF vars, process, IInv, TypeOK
  <2>2. Parts'
    BY <1>1, SameEngine, SameAgents, SameKeys
    DEF vars, process, IInv, Parts, Started, Built, StillAccepted, ExitGiven, ExitMeant,
        RecordTold, AcceptedRunsStart
  <2> QED
    BY <2>1, <2>2 DEF IInv
<1>2. CASE Over
  BY <1>1, <1>2 DEF Over
<1> QED
  BY <1>1, <1>2, StartKeeps, RunKeeps, RefuseRequestKeeps, RefuseMisconfiguredKeeps,
     AcceptKeeps, SetTopicKeeps, SetIntKeeps, SetModelKeeps, StartDebateKeeps, QuitKeeps,
     PrepareKeeps, PrepareRefusedKeeps, SetupDebateKeeps, SetupRefusedKeeps, AbandonKeeps,
     OrphanLogsKeeps, FinishKeeps, RunRaisesKeeps, EmitJsonKeeps, ExitKeeps
  DEF Next

LEMMA Invariance == Spec => []IInv
  BY InitEstablishes, NextKeeps, PTL DEF Spec

-----------------------------------------------------------------------------
\* Settings, engine, agents, record, codes and output keep their types.
THEOREM TypeCorrect == Spec => []TypeOK
<1>1. IInv => TypeOK
  BY DEF IInv
<1> QED
  BY <1>1, Invariance, PTL

\* A run's agents are built on the models its config names, those of the
\* environment but for what this launch gave (app.py:56-77, setup.py:94-144).
THEOREM AgentsSafe == Spec => []AgentsMatchTheConfig
<1>1. IInv => AgentsMatchTheConfig
  <2> SUFFICES ASSUME IInv, agents # None, stage \in {"running", "emit"}
               PROVE  AgentsMatchTheConfig
    BY DEF AgentsMatchTheConfig
  <2>1. settings = env /\ settings \in Settings /\ options \in AnyOptions
    BY ConfigThere
  <2>2. engine = EngineOf /\ agents = AgentModels
    BY DEF IInv, Parts, Built
  <2> QED
    BY <2>1, <2>2 DEF AgentsMatchTheConfig, EngineOf, AgentModels, Overridden, FromSettings,
       ProModel, ConModel, Settings
<1> QED
  BY <1>1, Invariance, PTL

\* An accepted debate with no model of its own starts, whatever the keys,
\* unless the server's numbers forbid it or a provider whose key the preflight
\* does not check cannot be built (preflight.py:42-50, models.py:47).
THEOREM AcceptedSafe == Spec => []AcceptedRunsStart
<1>1. IInv => AcceptedRunsStart
  BY DEF IInv, Parts
<1> QED
  BY <1>1, Invariance, PTL

\* How a launch ended is told by its code, its answer and its record
\* (_json.py:74-98, debate_routes.py:45-65).
THEOREM EndTold == Spec => []EndIsTold
<1>1. IInv => EndIsTold
  BY DEF IInv, Parts, ExitGiven, ExitMeant, RecordTold, EndIsTold
<1> QED
  BY <1>1, Invariance, PTL

-----------------------------------------------------------------------------
(* What reaches stdout: nothing while it is diverted, and then the result, *)
(* between whatever lines the abandoned calls print.                       *)

Lines == {"log", "json", "stray"}
Results(out) == {i \in DOMAIN out : out[i] = "json"}

\* The result once if it is told, and lines of calls that were abandoned.
TellsOnly(out, told, given) ==
  /\ IF told THEN \E i \in DOMAIN out : Results(out) = {i} ELSE Results(out) = {}
  /\ \A i \in DOMAIN out \ Results(out) : out[i] = "stray" /\ given > 0

StdoutInStep ==
  surface = "json" =>
    /\ stage \in {"start", "ready", "prepare", "setup", "running"} => stdout = <<>>
    /\ stage # "exiting" /\ stage # "over" => exit # 0

SInv == StdoutInStep /\ (surface = "json" => TellsOnly(stdout, exit = 0, abandoned))

LEMMA NothingTold == \A given : TellsOnly(<<>>, FALSE, given)
  BY DEF TellsOnly, Results

LEMMA StrayTold ==
  ASSUME NEW out \in Seq(Lines), NEW told \in BOOLEAN, NEW given \in Nat, given > 0,
         TellsOnly(out, told, given)
  PROVE  TellsOnly(Append(out, "stray"), told, given)
<1> DEFINE longer == Append(out, "stray")
<1>1. /\ DOMAIN longer = DOMAIN out \cup {Len(out) + 1} /\ Len(out) + 1 \notin DOMAIN out
      /\ longer[Len(out) + 1] = "stray" /\ \A i \in DOMAIN out : longer[i] = out[i]
  OBVIOUS
<1> HIDE DEF longer
<1>2. Results(longer) = Results(out)
  BY <1>1 DEF Results
<1>3. \A i \in DOMAIN longer \ Results(longer) : longer[i] = "stray" /\ given > 0
  BY <1>1, <1>2 DEF TellsOnly
<1> QED
  BY <1>1, <1>2, <1>3 DEF TellsOnly, longer

LEMMA ResultTold ==
  ASSUME NEW out \in Seq(Lines), NEW given, TellsOnly(out, FALSE, given)
  PROVE  TellsOnly(Append(out, "json"), TRUE, given)
<1> DEFINE longer == Append(out, "json")
<1>1. /\ DOMAIN longer = DOMAIN out \cup {Len(out) + 1} /\ Len(out) + 1 \notin DOMAIN out
      /\ longer[Len(out) + 1] = "json" /\ \A i \in DOMAIN out : longer[i] = out[i]
  OBVIOUS
<1> HIDE DEF longer
<1>2. Results(out) = {}
  BY DEF TellsOnly
<1>3. Results(longer) = {Len(out) + 1}
  BY <1>1, <1>2 DEF Results
<1>4. \A i \in DOMAIN longer \ Results(longer) : longer[i] = "stray" /\ given > 0
  BY <1>1, <1>2, <1>3 DEF TellsOnly
<1> QED
  BY <1>1, <1>3, <1>4 DEF TellsOnly, longer

LEMMA StdoutInit == Init => SInv
<1> SUFFICES ASSUME Init PROVE SInv
  OBVIOUS
<1>1. stage = "start" /\ stdout = <<>> /\ (exit = 0) = FALSE
  BY LaunchAssumption DEF Init
<1>2. TellsOnly(stdout, exit = 0, abandoned)
  BY <1>1, NothingTold
<1> QED
  BY <1>1, <1>2 DEF SInv, StdoutInStep

\* Steps of the launch and of the run, under a diverted stdout.
LEMMA DivertedKeeps ==
  ASSUME IInv, SInv, stage \in {"start", "ready", "prepare", "setup", "running"},
         surface' = surface,
         surface = "json" => stdout' = stdout /\ exit' # 0
  PROVE  SInv'
<1>1. surface = "json" => stdout' = <<>> /\ exit' # 0
  BY DEF SInv, StdoutInStep
<1> QED
  BY <1>1, NothingTold DEF SInv, StdoutInStep

\* Steps that print nothing and abandon no call.
LEMMA SilentKeeps ==
  ASSUME SInv, UNCHANGED <<surface, stdout, exit, abandoned>>,
         stage' \notin {"start", "ready", "prepare", "setup", "running"} \/ stage' = stage,
         exit = 0 => stage' \in {"exiting", "over"} \/ stage' = stage
  PROVE  SInv'
  BY DEF SInv, StdoutInStep

LEMMA NothingPrinted ==
  ASSUME NEW text, Printed(text), stage \in {"start", "ready", "prepare", "setup", "running"}
  PROVE  stdout' = stdout
  BY DEF Printed, Diverted

LEMMA OrphanLogsStdout == ASSUME IInv, SInv, OrphanLogs PROVE SInv'
<1>1. UNCHANGED <<surface, stage, exit, abandoned>> /\ Printed("stray")
  BY DEF OrphanLogs, process
<1>2. stdout \in Seq(Lines) /\ abandoned \in Nat /\ abandoned > 0
  BY DEF OrphanLogs, IInv, TypeOK, Lines
<1>3. CASE surface = "json" /\ ~Diverted
  <2>1. stdout' = Append(stdout, "stray")
    BY <1>1, <1>3 DEF Printed
  <2>2. TellsOnly(stdout', exit = 0, abandoned)
    BY <1>2, <1>3, <2>1, StrayTold DEF SInv
  <2> QED
    BY <1>1, <1>3, <2>2 DEF SInv, StdoutInStep, Diverted
<1>4. CASE ~(surface = "json" /\ ~Diverted)
  <2>1. stdout' = stdout
    BY <1>1, <1>4 DEF Printed
  <2> QED
    BY <1>1, <2>1, SilentKeeps
<1> QED
  BY <1>3, <1>4

LEMMA EmitJsonStdout == ASSUME IInv, SInv, EmitJson PROVE SInv'
<1>1. /\ stage = "emit" /\ stage' = "exiting" /\ exit' = 0
      /\ UNCHANGED <<surface, abandoned>>
  BY DEF EmitJson, process
<1>2. surface = "json" => exit # 0 /\ stdout' = Append(stdout, "json")
  BY <1>1 DEF EmitJson, Printed, Diverted, SInv, StdoutInStep
<1>3. stdout \in Seq(Lines)
  BY DEF IInv, TypeOK, Lines
<1>4. surface = "json" => TellsOnly(stdout', TRUE, abandoned)
  BY <1>2, <1>3, ResultTold DEF SInv
<1> QED
  BY <1>1, <1>4 DEF SInv, StdoutInStep

LEMMA NextStdout == IInv /\ SInv /\ [Next]_vars => SInv'
<1> SUFFICES ASSUME IInv, SInv, [Next]_vars PROVE SInv'
  OBVIOUS
<1> USE DEF process
<1>n. None # 0 /\ (stage \notin {"exiting", "over"} => exit = None)
  BY LaunchAssumption DEF IInv, Parts, ExitGiven
<1>1. CASE Start
  BY <1>1, <1>n, NothingPrinted, DivertedKeeps DEF Start
<1>2. CASE Run \/ RefuseRequest \/ RefuseMisconfigured \/ Accept
  BY <1>2, <1>n, DivertedKeeps DEF Run, RefuseRequest, RefuseMisconfigured, Accept, Answered
<1>3. CASE SetTopic \/ SetInt \/ SetModel \/ StartDebate \/ Quit
  <2>1. surface = "menu" /\ UNCHANGED surface
    BY <1>3 DEF SetTopic, SetInt, SetModel, StartDebate, Quit, Choosing
  <2> QED
    BY <2>1 DEF SInv, StdoutInStep
<1>4. CASE Prepare \/ SetupDebate
  BY <1>4, <1>n, NothingPrinted, DivertedKeeps DEF Prepare, SetupDebate
<1>5. CASE PrepareRefused \/ SetupRefused \/ RunRaises
  <2>1. surface = "json" => exit' \in {1, 2} /\ stdout' = stdout
    BY <1>5 DEF PrepareRefused, SetupRefused, RunRaises, Failed
  <2>2. stage \in {"prepare", "setup", "running"} /\ UNCHANGED surface
    BY <1>5 DEF PrepareRefused, SetupRefused, RunRaises
  <2> QED
    BY <2>1, <2>2, DivertedKeeps
<1>6. CASE Abandon
  BY <1>6, <1>n, NothingPrinted, DivertedKeeps DEF Abandon
<1>7. CASE OrphanLogs
  BY <1>7, OrphanLogsStdout
<1>8. CASE Finish
  <2>1. stage = "running" /\ UNCHANGED <<surface, stdout>>
        /\ (surface = "json" => exit' = exit)
    BY <1>8 DEF Finish
  <2> QED
    BY <1>n, <2>1, DivertedKeeps
<1>9. CASE EmitJson
  BY <1>9, EmitJsonStdout
<1>10. CASE Exit
  BY <1>10, SilentKeeps DEF Exit
<1>11. CASE Over \/ UNCHANGED vars
  BY <1>11, SilentKeeps DEF Over, vars
<1> QED
  BY <1>1, <1>2, <1>3, <1>4, <1>5, <1>6, <1>7, <1>8, <1>9, <1>10, <1>11 DEF Next

\* Under --json stdout holds the result once, in a run that exits with 0 and in
\* no other, and beside it only lines of calls the run abandoned, however many
\* and however often they log (app.py:137-147, _json.py:45-71).
THEOREM StdoutSafe == Spec => []StdoutIsTheResult
<1>1. SInv => StdoutIsTheResult
  BY DEF SInv, StdoutIsTheResult, TellsOnly, Results
<1> QED
  BY <1>1, Invariance, StdoutInit, NextStdout, PTL DEF Spec
=============================================================================
