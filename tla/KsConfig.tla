------------------------------- MODULE KsConfig -------------------------------
(***************************************************************************)
(* src/ks_config.c: defaults, then the environment for every setting that  *)
(* no argument names, then the arguments from left to right.  A text is a  *)
(* string; Number gives the value of those that are whole numbers.         *)
(***************************************************************************)
EXTENDS Integers, Sequences, FiniteSetsExt

CONSTANTS Arguments,   \* the argument lists, without the program name
          Environments,\* functions from some of the settings to texts
          Number,      \* the integers that numeric texts stand for
          Levels,      \* the log level of each level name
          PortMax,     \* UINT16_MAX
          ClientMax,   \* 1023
          ULong,       \* ULONG_MAX + 1
          Defaults     \* what ks_config_init sets

VARIABLES argv, env,   \* the input
          cfg,         \* ks_config_t
          pc, at       \* where the loader is: the setting or the argument

loader == <<argv, env, cfg, at>>

Settings == <<"host", "port", "log", "clients">>
Fields == {Settings[k] : k \in DOMAIN Settings}
OptionOf == [host |-> "--host", port |-> "--port", log |-> "--log", clients |-> "--max-clients"]
Options == {OptionOf[f] : f \in Fields}

ASSUME LimitAssumption == PortMax \in Nat /\ ClientMax \in Nat /\ ULong \in Nat \ {0}
ASSUME DefaultsAssumption ==
  /\ DOMAIN Defaults = Fields
  /\ Defaults.host # "" /\ Defaults.port \in 1 .. PortMax /\ Defaults.clients \in 1 .. ClientMax
ASSUME InputAssumption == /\ Arguments \subseteq Seq(STRING)
                          /\ \A e \in Environments : DOMAIN e \subseteq Fields

-----------------------------------------------------------------------------
(* The parsers: the values a text may stand for, one or none.              *)

ParseHost(t) == IF t = "" THEN {} ELSE {t}

ParseLogLevel(t) == IF t \in DOMAIN Levels THEN {Levels[t]} ELSE {}

ParsePort(t) == {n \in {Number[x] : x \in {t} \cap DOMAIN Number} : n \in 1 .. PortMax}

\* strtoul takes a minus sign and negates modulo ULong; only a magnitude beyond
\* ULONG_MAX is an error.
StrToUL(n) == IF n > -ULong /\ n < ULong THEN {n % ULong} ELSE {}

ParseMaxClients(t) ==
  {v \in UNION {StrToUL(Number[x]) : x \in {t} \cap DOMAIN Number} : v \in 1 .. ClientMax}

Parse(f, t) == CASE f = "host"    -> ParseHost(t)
                 [] f = "port"    -> ParsePort(t)
                 [] f = "log"     -> ParseLogLevel(t)
                 [] f = "clients" -> ParseMaxClients(t)

-----------------------------------------------------------------------------
(* ks_config_load.                                                         *)

LoadInit == /\ argv \in Arguments /\ env \in Environments
            /\ cfg = Defaults
            /\ pc = "env" /\ at = 1

\* has_argument.
HasArgument(f) == \E i \in DOMAIN argv : argv[i] = OptionOf[f]

\* Mutant: the environment is always looked at.
UsesAlways(f) == f \in DOMAIN env

Uses(f) == f \in DOMAIN env /\ ~HasArgument(f)

\* A setting takes a text, or the loader fails.
Applies(f, t) == \E v \in Parse(f, t) : cfg' = [cfg EXCEPT ![f] = v]

Fails == pc' = "failed" /\ UNCHANGED <<argv, env, cfg, at>>

AfterEnv == /\ pc' = IF at = Len(Settings) THEN "argv" ELSE "env"
            /\ at' = IF at = Len(Settings) THEN 1 ELSE at + 1
            /\ UNCHANGED <<argv, env>>

EnvApplies == /\ pc = "env" /\ Uses(Settings[at])
              /\ Applies(Settings[at], env[Settings[at]])
              /\ AfterEnv

EnvFails == /\ pc = "env" /\ Uses(Settings[at])
            /\ Parse(Settings[at], env[Settings[at]]) = {}
            /\ Fails

EnvSkips == pc = "env" /\ ~Uses(Settings[at]) /\ UNCHANGED cfg /\ AfterEnv

\* Whether argument i is a name that has a value behind it.
IsOption(i) == argv[i] \in Options /\ i < Len(argv)

SettingOf(o) == CHOOSE f \in Fields : OptionOf[f] = o

ArgApplies == /\ pc = "argv" /\ at <= Len(argv) /\ IsOption(at)
              /\ Applies(SettingOf(argv[at]), argv[at + 1])
              /\ at' = at + 2
              /\ UNCHANGED <<argv, env, pc>>

ArgFails == /\ pc = "argv" /\ at <= Len(argv) /\ IsOption(at)
            /\ Parse(SettingOf(argv[at]), argv[at + 1]) = {}
            /\ Fails

ArgUnknown == pc = "argv" /\ at <= Len(argv) /\ ~IsOption(at) /\ Fails

Loaded == /\ pc = "argv" /\ at > Len(argv)
          /\ pc' = "loaded" /\ UNCHANGED <<argv, env, cfg, at>>

LoadStep == \/ EnvApplies \/ EnvFails \/ EnvSkips
            \/ ArgApplies \/ ArgFails \/ ArgUnknown \/ Loaded

-----------------------------------------------------------------------------
(* Properties.                                                             *)

\* The arguments as names and values, if they are that.
Names == {i \in DOMAIN argv : i % 2 = 1}
Given(f) == {i \in Names : argv[i] = OptionOf[f]}
WellFormed == Len(argv) % 2 = 0 /\ \A i \in Names : argv[i] \in Options

\* A value that is spelled like an option hides the environment from another
\* setting; only a host can be, and none is an address ks_listen accepts.
ValueIsOption == \E i \in DOMAIN argv \ Names : argv[i] \in Options

\* The sources in use are valid: an argument that a later one overrides is in
\* use, a variable that an argument overrides is not.
Valid == /\ WellFormed
         /\ \A i \in Names : Parse(SettingOf(argv[i]), argv[i + 1]) # {}
         /\ \A f \in DOMAIN env : Given(f) = {} => Parse(f, env[f]) # {}

\* The loader fails exactly if a source in use is invalid; else arguments go
\* before the environment and the environment before the defaults, the last
\* argument wins, and what the server gets is in range.
ConfigAsGiven ==
  ~ValueIsOption =>
    /\ pc = "failed" => ~Valid
    /\ pc = "loaded" =>
         /\ Valid
         /\ cfg.host # "" /\ cfg.port \in 1 .. PortMax /\ cfg.clients \in 1 .. ClientMax
         /\ \A f \in Fields :
              cfg[f] \in IF Given(f) # {} THEN Parse(f, argv[Max(Given(f)) + 1])
                         ELSE IF f \in DOMAIN env THEN Parse(f, env[f])
                         ELSE {Defaults[f]}

=============================================================================
