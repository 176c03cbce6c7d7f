------------------------------ MODULE MCLaunch ------------------------------
(* Launch for TLC: four configurations, and one that does not validate. *)
EXTENDS Launch

Environment(debater, pro, con, rounds) ==
  [debater |-> debater, pro |-> pro, con |-> con, controller |-> "anthropic", rounds |-> rounds]

MCEnvironments ==
  {None,
   Environment("anthropic", None, None, 2),
   Environment("openai", None, "openai", 2),
   Environment("test", "openai", None, 0),
   Environment("anthropic", None, "mistral", 2)}

\* "test" stands for a provider without a key, "mistral" for one whose key the
\* validation does not know.
MCClientKey == [anthropic |-> "ANTHROPIC_API_KEY", openai |-> "OPENAI_API_KEY",
                mistral |-> "MISTRAL_API_KEY", test |-> None]

Held3(anthropic, openai, mistral) ==
  [ANTHROPIC_API_KEY |-> anthropic, OPENAI_API_KEY |-> openai, MISTRAL_API_KEY |-> mistral]

\* The keys in .env alone, in the shell, blank in the shell.
MCKeyStates ==
  {[environ |-> Held3("absent", "absent", "set"), dotenv |-> Held3("set", "set", "absent")],
   [environ |-> Held3("blank", "set", "absent"), dotenv |-> Held3("set", "absent", "set")],
   [environ |-> Held3("set", "set", "absent"), dotenv |-> Held3("absent", "absent", "set")]}
=============================================================================
