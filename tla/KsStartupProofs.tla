-------------------------- MODULE KsStartupProofs --------------------------
(***************************************************************************)
(* Start and end of the server for every list of arguments, every          *)
(* environment and every failure on the way: the configuration is the one  *)
(* that was given, and what was acquired is given back.  The descriptors   *)
(* among it come from ks_net (KsNet, at the end), which leaks none, says   *)
(* what it moved and never makes a blocking call.                          *)
(***************************************************************************)
EXTENDS KsStartup, KsNet, TLAPS

-----------------------------------------------------------------------------
(* The configuration.                                                      *)

\* The four settings and their options.
LEMMA FourSettings ==
  /\ Len(Settings) = 4 /\ DOMAIN Settings = 1 .. 4
  /\ Settings[1] = "host" /\ Settings[2] = "port"
  /\ Settings[3] = "log" /\ Settings[4] = "clients"
  /\ Fields = {"host", "port", "log", "clients"}
  /\ \A k \in 1 .. 4 : Settings[k] \in Fields
  /\ \A k, l \in 1 .. 4 : Settings[k] = Settings[l] => k = l
  /\ \A f \in Fields : \E k \in 1 .. 4 : f = Settings[k]
<1>1. /\ Len(Settings) = 4 /\ DOMAIN Settings = 1 .. 4
      /\ Settings[1] = "host" /\ Settings[2] = "port"
      /\ Settings[3] = "log" /\ Settings[4] = "clients"
  BY DEF Settings
<1>2. Fields = {"host", "port", "log", "clients"}
  BY <1>1 DEF Fields
<1>3. 1 .. 4 = {1, 2, 3, 4}
  OBVIOUS
<1> QED BY <1>1, <1>2, <1>3

\* An option names one setting.
LEMMA OptionNames ==
  /\ \A f \in Fields : OptionOf[f] \in Options /\ SettingOf(OptionOf[f]) = f
  /\ \A o \in Options : SettingOf(o) \in Fields /\ OptionOf[SettingOf(o)] = o
<1>1. \A f, g \in Fields : OptionOf[f] = OptionOf[g] => f = g
  BY FourSettings DEF OptionOf
<1>2. \A f \in Fields : OptionOf[f] \in Options /\ SettingOf(OptionOf[f]) = f
  BY <1>1 DEF Options, SettingOf
<1> QED BY <1>2 DEF Options

\* What the server can work with.
Usable == /\ DOMAIN cfg = Fields
          /\ cfg.host # "" /\ cfg.port \in 1 .. PortMax /\ cfg.clients \in 1 .. ClientMax

\* A setting that no argument has touched yet: from the environment or the default.
EnvDone(f) == cfg[f] \in IF Uses(f) THEN Parse(f, env[f]) ELSE {Defaults[f]}

\* The arguments that name f, as far as they are read, and whether i is the last.
Read(f) == {i \in Given(f) : i < at}
IsLast(i, f) == i \in Read(f) /\ \A j \in Read(f) : j <= i

ArgsDone(f) ==
  /\ Read(f) = {} => EnvDone(f)
  /\ Read(f) # {} => \E i \in Read(f) : IsLast(i, f) /\ cfg[f] \in Parse(f, argv[i + 1])

InEnv == /\ at \in 1 .. 4
         /\ \A k \in 1 .. 4 :
              /\ k < at => EnvDone(Settings[k])
              /\ k >= at => cfg[Settings[k]] = Defaults[Settings[k]]

InArgs == /\ at \in 1 .. Len(argv) + 1 /\ at % 2 = 1
          /\ \A i \in Names : i < at => /\ argv[i] \in Options
                                        /\ Parse(SettingOf(argv[i]), argv[i + 1]) # {}
          /\ \A f \in Fields : ArgsDone(f)

ConfigInv == /\ argv \in Seq(STRING) /\ DOMAIN env \subseteq Fields
             /\ Usable
             /\ pc = "env" => InEnv
             /\ pc \in {"argv", "loaded"} => InArgs
             /\ pc = "loaded" => at > Len(argv)
             /\ pc = "failed" => ValueIsOption \/ ~Valid

\* What a parser accepts is usable.
LEMMA AppliesUsable ==
  ASSUME Usable, NEW f \in Fields, NEW t, Applies(f, t)
  PROVE  Usable' /\ cfg'[f] \in Parse(f, t) /\ \A g \in Fields : g # f => cfg'[g] = cfg[g]
<1>1. PICK v \in Parse(f, t) : cfg' = [cfg EXCEPT ![f] = v]
  BY DEF Applies
<1>2. DOMAIN cfg = Fields
  BY DEF Usable
<1>3. DOMAIN cfg' = Fields /\ cfg'[f] = v /\ \A g \in Fields : g # f => cfg'[g] = cfg[g]
  BY <1>1, <1>2
<1>4. cfg'.host # ""
  <2>1. CASE f = "host"
    <3>1. Parse(f, t) = ParseHost(t)
      BY <2>1 DEF Parse
    <3>2. v # ""
      BY <3>1 DEF ParseHost
    <3> QED BY <2>1, <3>2, <1>3
  <2>2. CASE f # "host"
    BY <2>2, <1>3, FourSettings DEF Usable
  <2> QED BY <2>1, <2>2
<1>5. cfg'.port \in 1 .. PortMax
  BY <1>3, FourSettings DEF Parse, ParsePort, Usable
<1>6. cfg'.clients \in 1 .. ClientMax
  BY <1>3, FourSettings DEF Parse, ParseMaxClients, Usable
<1> QED BY <1>3, <1>4, <1>5, <1>6 DEF Usable

\* Without values that are spelled like options, has_argument finds what the
\* arguments give.
LEMMA GivenIsArgument ==
  ASSUME ~ValueIsOption, NEW f \in Fields
  PROVE  HasArgument(f) <=> Given(f) # {}
BY OptionNames DEF ValueIsOption, HasArgument, Given, Names

\* The loader's step keeps its invariant.
LEMMA LoadInv ==
  ASSUME ConfigInv, LoadStep
  PROVE  ConfigInv'
<1> USE DEF ConfigInv
<1>1. argv' = argv /\ env' = env
  BY DEF LoadStep, EnvApplies, EnvFails, EnvSkips, ArgApplies, ArgFails, ArgUnknown, Loaded,
         Fails, AfterEnv
<1>2. Len(argv) \in Nat /\ DOMAIN argv = 1 .. Len(argv)
  OBVIOUS
<1>3. \A f : (HasArgument(f))' = HasArgument(f) /\ (Uses(f))' = Uses(f) /\ (Given(f))' = Given(f)
  BY <1>1 DEF HasArgument, Uses, Given, Names
<1>4. CASE EnvApplies \/ EnvSkips
  <2>1. pc = "env" /\ InEnv /\ AfterEnv /\ at \in 1 .. 4 /\ Settings[at] \in Fields
    BY <1>4, FourSettings DEF EnvApplies, EnvSkips, InEnv
  <2>2. PICK f \in Fields : f = Settings[at]
    BY <2>1
  <2>3. /\ Usable' /\ (EnvDone(f))'
        /\ \A g \in Fields : g # f => cfg'[g] = cfg[g]
    <3>1. CASE EnvApplies
      <4>1. Uses(f) /\ Applies(f, env[f])
        BY <2>2, <3>1 DEF EnvApplies
      <4>2. Usable' /\ cfg'[f] \in Parse(f, env[f]) /\ \A g \in Fields : g # f => cfg'[g] = cfg[g]
        BY <4>1, <2>2, AppliesUsable
      <4> QED BY <4>1, <4>2, <1>1, <1>3 DEF EnvDone
    <3>2. CASE EnvSkips
      <4>1. ~Uses(f) /\ cfg' = cfg
        BY <2>2, <3>2 DEF EnvSkips
      <4>2. cfg[f] = Defaults[f]
        BY <2>1, <2>2 DEF InEnv
      <4> QED BY <4>1, <4>2, <1>1, <1>3 DEF EnvDone, Usable
    <3> QED BY <1>4, <3>1, <3>2
  <2>4. ASSUME NEW g \in Fields, g # f, EnvDone(g)
        PROVE  (EnvDone(g))'
    BY <2>3, <2>4, <1>1, <1>3 DEF EnvDone
  <2>5. CASE at < 4
    <3>1. pc' = "env" /\ at' = at + 1
      BY <2>1, <2>5, FourSettings DEF AfterEnv
    <3>2. InEnv'
      <4>1. ASSUME NEW k \in 1 .. 4, k < at + 1
            PROVE  (EnvDone(Settings[k]))'
        <5>1. CASE k = at
          BY <5>1, <2>2, <2>3
        <5>2. CASE k < at
          <6>1. EnvDone(Settings[k]) /\ Settings[k] \in Fields /\ Settings[k] # f
            BY <5>2, <2>1, <2>2, FourSettings DEF InEnv
          <6> QED BY <6>1, <2>4
        <5> QED BY <4>1, <5>1, <5>2, <2>1
      <4>2. ASSUME NEW k \in 1 .. 4, k >= at + 1
            PROVE  cfg'[Settings[k]] = Defaults[Settings[k]]
        <5>1. k >= at /\ k # at
          BY <4>2, <2>1
        <5>2. Settings[k] \in Fields /\ Settings[k] # f /\ cfg[Settings[k]] = Defaults[Settings[k]]
          BY <5>1, <2>1, <2>2, FourSettings DEF InEnv
        <5> QED BY <5>2, <2>3
      <4> QED BY <3>1, <4>1, <4>2, <2>1, <2>5 DEF InEnv
    <3> QED BY <1>1, <2>3, <3>1, <3>2
  <2>6. CASE at = 4
    <3>1. pc' = "argv" /\ at' = 1
      BY <2>1, <2>6, FourSettings DEF AfterEnv
    <3>2. ASSUME NEW g \in Fields
          PROVE  (EnvDone(g))'
      <4>1. PICK k \in 1 .. 4 : g = Settings[k]
        BY FourSettings
      <4>2. CASE k = at
        BY <4>1, <4>2, <2>2, <2>3
      <4>3. CASE k # at
        <5>1. EnvDone(Settings[k]) /\ Settings[k] # f
          BY <4>3, <2>1, <2>2, <2>6, FourSettings DEF InEnv
        <5> QED BY <4>1, <5>1, <2>4
      <4> QED BY <4>2, <4>3
    <3>3. \A i \in Names' : ~(i < 1)
      BY <1>1, <1>2 DEF Names
    <3>4. \A g \in Fields : (Read(g))' = {}
      BY <3>1, <3>3 DEF Read, Given
    <3>5. \A g \in Fields : (ArgsDone(g))'
      BY <3>2, <3>4 DEF ArgsDone
    <3>6. InArgs'
      BY <1>1, <1>2, <3>1, <3>3, <3>5 DEF InArgs
    <3> QED BY <1>1, <2>3, <3>1, <3>6
  <2> QED BY <2>1, <2>5, <2>6
<1>5. CASE EnvFails \/ ArgFails \/ ArgUnknown
  <2>1. pc' = "failed" /\ cfg' = cfg
    BY <1>5 DEF EnvFails, ArgFails, ArgUnknown, Fails
  <2>2. ValueIsOption \/ ~Valid
    <3>1. CASE EnvFails
      <4> DEFINE f == Settings[at]
      <4>1. f \in Fields /\ f \in DOMAIN env /\ ~HasArgument(f) /\ Parse(f, env[f]) = {}
        BY <3>1, FourSettings DEF EnvFails, InEnv, Uses
      <4> HIDE DEF f
      <4> QED BY <4>1, GivenIsArgument DEF Valid
    <3>2. CASE ArgFails \/ ArgUnknown
      <4>1. /\ at \in 1 .. Len(argv) /\ at % 2 = 1
            /\ IsOption(at) => Parse(SettingOf(argv[at]), argv[at + 1]) = {}
        BY <3>2, <1>2 DEF ArgFails, ArgUnknown, InArgs
      <4>2. at \in Names
        BY <4>1, <1>2 DEF Names
      <4>3. CASE IsOption(at)
        BY <4>1, <4>2, <4>3 DEF Valid
      <4>4. CASE argv[at] \notin Options
        BY <4>2, <4>4 DEF Valid, WellFormed
      <4>5. CASE ~(at < Len(argv))
        <5>1. at = Len(argv)
          <6> DEFINE n == Len(argv)
          <6>1. n \in Nat /\ at \in 1 .. n /\ ~(at < n)
            BY <4>1, <4>5, <1>2
          <6> HIDE DEF n, ConfigInv
          <6>2. at = n
            BY <6>1
          <6> QED BY <6>2 DEF n
        <5> QED BY <4>1, <5>1 DEF Valid, WellFormed
      <4> QED BY <4>3, <4>4, <4>5 DEF IsOption
    <3> QED BY <1>5, <3>1, <3>2
  <2>3. (ValueIsOption \/ ~Valid)'
    BY <2>2, <1>1 DEF ValueIsOption, Valid, WellFormed, Names, Given
  <2> QED BY <1>1, <2>1, <2>3 DEF Usable
<1>6. CASE ArgApplies
  <2>1. /\ pc = "argv" /\ pc' = "argv" /\ InArgs /\ at' = at + 2
        /\ at \in 1 .. Len(argv) /\ at % 2 = 1 /\ at < Len(argv) /\ argv[at] \in Options
        /\ Applies(SettingOf(argv[at]), argv[at + 1])
    BY <1>6, <1>2 DEF ArgApplies, InArgs, IsOption
  <2>2. PICK f \in Fields : OptionOf[f] = argv[at] /\ f = SettingOf(argv[at])
    BY <2>1, OptionNames
  <2>3. /\ Usable' /\ cfg'[f] \in Parse(f, argv[at + 1])
        /\ \A g \in Fields : g # f => cfg'[g] = cfg[g]
    BY <2>1, <2>2, AppliesUsable
  <2>4. at' \in 1 .. Len(argv) + 1 /\ at' % 2 = 1
    BY <2>1, <1>2
  <2>5. \A i \in Names : i < at + 2 => i < at \/ i = at
    BY <2>1, <1>2 DEF Names
  <2>6. at \in Names /\ at \in Given(f)
    BY <2>1, <2>2, <1>2 DEF Names, Given
  <2>7. \A i \in Names : i < at + 2 => /\ argv[i] \in Options
                                       /\ Parse(SettingOf(argv[i]), argv[i + 1]) # {}
    BY <2>1, <2>2, <2>3, <2>5 DEF InArgs
  <2>8. ASSUME NEW g \in Fields, g # f
        PROVE  (ArgsDone(g))'
    <3>1. OptionOf[g] # OptionOf[f]
      BY <2>8, <2>2, OptionNames
    <3>2. at \notin Given(g)
      BY <3>1, <2>2 DEF Given
    <3>3. (Read(g))' = Read(g)
      <4>1. Given(g) \subseteq Names
        BY DEF Given
      <4>2. \A i \in Given(g) : i \in Int /\ (i < at + 2 <=> i < at)
        BY <4>1, <3>2, <2>1, <2>5, <1>2 DEF Names
      <4>3. (Given(g))' = Given(g)
        BY <1>3
      <4> HIDE DEF ConfigInv
      <4> QED BY <4>2, <4>3, <2>1 DEF Read
    <3>4. (EnvDone(g))' = EnvDone(g)
      BY <2>3, <2>8, <1>1, <1>3 DEF EnvDone
    <3>5. ArgsDone(g) /\ cfg'[g] = cfg[g]
      BY <2>1, <2>3, <2>8 DEF InArgs
    <3> QED BY <3>3, <3>4, <3>5, <1>1 DEF ArgsDone, IsLast
  <2>9. (ArgsDone(f))'
    <3>1. at \in (Read(f))' /\ \A j \in (Read(f))' : j <= at
      <4>1. Given(f) \subseteq Names
        BY DEF Given
      <4>2. at \in Int /\ \A i \in Given(f) : i \in Int /\ (i < at + 2 => i <= at)
        BY <4>1, <2>1, <2>5, <1>2 DEF Names
      <4>3. (Given(f))' = Given(f)
        BY <1>3
      <4>4. at' = at + 2 /\ at < at' /\ at \in Given(f)
        BY <4>2, <2>1, <2>6
      <4>5. (Read(f))' = {i \in Given(f) : i < at + 2}
        BY <4>3, <4>4 DEF Read
      <4> HIDE DEF ConfigInv
      <4> QED BY <4>2, <4>4, <4>5
    <3> QED BY <3>1, <2>3, <1>1 DEF ArgsDone, IsLast
  <2>10. InArgs'
    BY <2>1, <2>4, <2>7, <2>8, <2>9, <1>1 DEF InArgs, Names
  <2> QED BY <1>1, <2>1, <2>3, <2>10
<1>7. CASE Loaded
  <2>1. pc = "argv" /\ pc' = "loaded" /\ at > Len(argv) /\ UNCHANGED <<argv, env, cfg, at>>
    BY <1>7 DEF Loaded
  <2>2. InArgs'
    BY <2>1, <1>3 DEF InArgs, Names, ArgsDone, EnvDone, Read, IsLast, Uses, HasArgument, Given
  <2> QED BY <2>1, <2>2 DEF Usable
<1> QED BY <1>4, <1>5, <1>6, <1>7 DEF LoadStep

\* What the loader has done when it is through.
LEMMA LoadedAsGiven ==
  ASSUME ConfigInv
  PROVE  ConfigAsGiven
<1> SUFFICES ASSUME ~ValueIsOption, pc = "loaded"
             PROVE  /\ Valid
                    /\ cfg.host # "" /\ cfg.port \in 1 .. PortMax /\ cfg.clients \in 1 .. ClientMax
                    /\ \A f \in Fields :
                         cfg[f] \in IF Given(f) # {} THEN Parse(f, argv[Max(Given(f)) + 1])
                                    ELSE IF f \in DOMAIN env THEN Parse(f, env[f])
                                    ELSE {Defaults[f]}
  BY DEF ConfigInv, ConfigAsGiven
<1> DEFINE n == Len(argv)
<1>1. /\ n \in Nat /\ DOMAIN argv = 1 .. n /\ DOMAIN env \subseteq Fields
      /\ at \in 1 .. n + 1 /\ at % 2 = 1 /\ at > n /\ InArgs /\ Usable
  BY DEF ConfigInv, InArgs
<1> HIDE DEF n
<1>2. at = n + 1 /\ n % 2 = 0
  BY <1>1
<1>3. \A i \in Names : i \in Nat /\ i < at
  BY <1>1, <1>2 DEF Names
<1>4. \A f \in Fields : Read(f) = Given(f) /\ Given(f) \subseteq Nat
  BY <1>3 DEF Read, Given
<1>5. ASSUME NEW f \in Fields, Given(f) = {}
      PROVE  EnvDone(f) /\ (Uses(f) <=> f \in DOMAIN env)
  <2>1. ~HasArgument(f)
    BY <1>5, GivenIsArgument
  <2>2. EnvDone(f)
    BY <1>1, <1>4, <1>5 DEF InArgs, ArgsDone
  <2> QED BY <2>1, <2>2 DEF Uses
<1>6. Valid
  <2>1. WellFormed
    BY <1>1, <1>2, <1>3 DEF WellFormed, InArgs, n
  <2>2. \A i \in Names : Parse(SettingOf(argv[i]), argv[i + 1]) # {}
    BY <1>1, <1>3 DEF InArgs
  <2>3. ASSUME NEW f \in DOMAIN env, Given(f) = {}
        PROVE  Parse(f, env[f]) # {}
    <3>1. f \in Fields
      BY <1>1
    <3>2. cfg[f] \in Parse(f, env[f])
      BY <3>1, <2>3, <1>5 DEF EnvDone
    <3> QED BY <3>2
  <2> QED BY <2>1, <2>2, <2>3 DEF Valid
<1>7. ASSUME NEW f \in Fields
      PROVE  cfg[f] \in IF Given(f) # {} THEN Parse(f, argv[Max(Given(f)) + 1])
                        ELSE IF f \in DOMAIN env THEN Parse(f, env[f])
                        ELSE {Defaults[f]}
  <2>1. CASE Given(f) = {}
    BY <2>1, <1>5 DEF EnvDone
  <2>2. CASE Given(f) # {}
    <3>1. PICK i \in Given(f) : (\A j \in Given(f) : j <= i) /\ cfg[f] \in Parse(f, argv[i + 1])
      BY <2>2, <1>1, <1>4 DEF InArgs, ArgsDone, IsLast
    <3>2. Max(Given(f)) \in Given(f) /\ \A j \in Given(f) : j <= Max(Given(f))
      BY <3>1 DEF Max
    <3>3. Max(Given(f)) = i
      BY <3>1, <3>2, <1>4
    <3> QED BY <2>2, <3>1, <3>3
  <2> QED BY <2>1, <2>2
<1> QED BY <1>1, <1>6, <1>7 DEF Usable

-----------------------------------------------------------------------------
(* What is held.                                                           *)

Ups    == {"check", "listen", "fdsize", "store", "pubsub", "clients", "flag", "SIGINT",
           "SIGTERM", "enter"}
Downs  == {"clean", "give", "restoreInt", "restoreTerm", "returned"}
Places == {"env", "argv", "loaded", "failed"} \cup Ups \cup {"loop", "killed"} \cup Downs

\* What has been acquired and not yet given back at each place.
HeldAt(p) ==
  CASE p \in {"fdsize", "store"} -> {"listener"}
    [] p = "pubsub" -> {"listener", "store"}
    [] p = "clients" -> {"listener", "store", "pubsub"}
    [] p \in {"flag", "SIGINT", "SIGTERM", "enter", "loop", "clean"} -> Resources
    [] p = "give" -> {"listener", "store", "pubsub"}
    [] OTHER -> {}

\* The same as a table.
LEMMA HeldTable ==
  /\ \A p \in {"loaded", "failed", "check", "listen", "restoreInt", "restoreTerm", "returned"} :
       HeldAt(p) = {}
  /\ HeldAt("fdsize") = {"listener"} /\ HeldAt("store") = {"listener"}
  /\ HeldAt("pubsub") = {"listener", "store"}
  /\ HeldAt("clients") = {"listener", "store", "pubsub"}
  /\ \A p \in {"flag", "SIGINT", "SIGTERM", "enter", "loop", "clean"} :
       HeldAt(p) = {"listener", "store", "pubsub", "clients"}
  /\ HeldAt("give") = {"listener", "store", "pubsub"}
BY DEF HeldAt, Resources

\* Exactly that is held, and connections only while the loop runs.
Held == /\ ~twice
        /\ pc # "killed" => held = HeldAt(pc)
        /\ conns \in Nat
        /\ conns # 0 => pc \in {"loop", "clean", "killed"}

\* The limit and the listener are checked before anything is built on them.
Fit == /\ pc \in Places
       /\ pc \in (Ups \ {"check"}) \cup {"loop"} => cfg.clients \in 1 .. FdSetSize - 1
       /\ listenFd \in Nat
       /\ pc \in (Ups \ {"check", "listen", "fdsize"}) \cup {"loop"} => listenFd < FdSetSize

\* A signal's handler: untouched until it is installed, what was found is saved
\* while it is, and put back or never changed when it is restored.
Before(s) == {"env", "argv", "loaded", "failed"} \cup (Ups \ {"SIGTERM", "enter"})
             \cup (IF s = "SIGTERM" THEN {"SIGTERM"} ELSE {})
After(s)  == {"returned"} \cup (IF s = "SIGINT" THEN {"restoreTerm"} ELSE {})

Handled ==
  /\ before \in [Signals -> {"default", "ignore"}]
  /\ disposition \in [Signals -> {"default", "ignore", "handler"}]
  /\ previous \in [Signals -> {"none", "default", "ignore", "SIG_ERR"}]
  /\ \A s \in Signals :
       /\ pc \in Before(s) \cup After(s) => disposition[s] = before[s]
       /\ pc \in Places \ (Before(s) \cup After(s) \cup {"killed"}) =>
            \/ previous[s] = before[s]
            \/ previous[s] = "SIG_ERR" /\ disposition[s] = before[s]

StartInv == ConfigInv /\ Held /\ Fit /\ Handled

-----------------------------------------------------------------------------
(* Every step keeps it.                                                    *)

\* Nothing looks at the configuration's sources after the loader.
LEMMA ConfigKept ==
  ASSUME ConfigInv, UNCHANGED loader,
         pc' = pc \/ pc' \notin {"env", "argv", "loaded", "failed"}
  PROVE  ConfigInv'
<1>1. UNCHANGED <<argv, env, cfg, at>>
  BY DEF loader
<1>2. CASE pc' = pc
  <2>1. InEnv' = InEnv /\ InArgs' = InArgs
    BY <1>1 DEF InEnv, InArgs, Names, ArgsDone, EnvDone, Read, IsLast, Uses, HasArgument, Given
  <2>2. (ValueIsOption \/ ~Valid)' = (ValueIsOption \/ ~Valid)
    BY <1>1 DEF ValueIsOption, Valid, WellFormed, Names, Given
  <2> QED BY <1>1, <1>2, <2>1, <2>2 DEF ConfigInv, Usable
<1>3. CASE pc' \notin {"env", "argv", "loaded", "failed"}
  BY <1>1, <1>3 DEF ConfigInv, Usable
<1> QED BY <1>2, <1>3

\* A step of the loader leaves the rest alone.
LEMMA LoadKeeps ==
  ASSUME StartInv, Load
  PROVE  StartInv'
<1>1. /\ pc \in {"env", "argv"} /\ pc' \in {"env", "argv", "loaded", "failed"}
      /\ UNCHANGED <<listenFd, held, twice, conns, before, disposition, previous>>
  BY DEF Load, LoadStep, EnvApplies, EnvFails, EnvSkips, ArgApplies, ArgFails, ArgUnknown,
         Loaded, Fails, AfterEnv, resources, signals
<1>2. ConfigInv'
  BY LoadInv DEF StartInv, Load
<1>3. Held' /\ Fit'
  BY <1>1 DEF StartInv, Held, HeldAt, Fit, Places, Ups
<1>4. Handled'
  BY <1>1 DEF StartInv, Handled, Before, Places, Ups
<1> QED BY <1>2, <1>3, <1>4 DEF StartInv

\* The steps of ks_server_run up to its loop that leave the signals alone.
LEMMA UpInv ==
  ASSUME StartInv, UNCHANGED loader,
         \/ LoadFails \/ Starts \/ Check \/ CheckFails \/ (\E f \in Listeners : Listen(f))
         \/ ListenFails \/ InRange \/ RangeFails \/ Store \/ StoreFails \/ Pubsub
         \/ PubsubFails \/ Clients \/ ClientsFails \/ ClearFlag \/ Enter
  PROVE  StartInv'
<1> USE DEF StartInv
<1>1. /\ pc \in {"failed", "loaded"} \cup Ups /\ pc # "SIGINT" /\ pc # "SIGTERM"
      /\ pc' \in Ups \cup {"loop", "returned"}
      /\ UNCHANGED <<before, disposition, previous, conns>>
      /\ pc = "enter" <=> pc' = "loop"
      /\ pc # "enter" => pc' \in Before("SIGINT") \cup {"returned"}
  BY DEF LoadFails, Starts, Check, CheckFails, Listen, ListenFails, InRange, RangeFails, Store,
         StoreFails, Pubsub, PubsubFails, Clients, ClientsFails, ClearFlag, Enter,
         Goes, Acquires, Releases, Gives, Ups, Before, resources, signals
<1>2. ConfigInv'
  BY <1>1, ConfigKept DEF Ups
<1>3. Handled'
  <2>1. \A s \in Signals :
          /\ pc' \in Before(s) \cup After(s) => pc \in Before(s) \cup After(s)
          /\ pc' \in Places \ (Before(s) \cup After(s) \cup {"killed"}) =>
               pc \in Places \ (Before(s) \cup After(s) \cup {"killed"})
    BY <1>1 DEF Signals, Before, After, Places, Ups
  <2> QED BY <1>1, <2>1 DEF Handled
<1>4. Held'
  <2>1. ~twice /\ held = HeldAt(pc) /\ conns = 0
    BY <1>1 DEF Held, Ups
  <2>2. ASSUME NEW S, Gives(S), S = HeldAt(pc)
        PROVE  Held'
    <3>1. ~twice'
      BY <2>1, <2>2, Zenon DEF Gives, Releases
    <3>2. held' = {} /\ pc' = "returned"
      BY <2>1, <2>2 DEF Gives, Releases
    <3> QED BY <3>1, <3>2, <2>1, <1>1, HeldTable DEF Held
  <2>3. ASSUME ~twice', held' = HeldAt(pc')
        PROVE  Held'
    BY <2>1, <2>3, <1>1 DEF Held
  <2>4. CASE LoadFails \/ CheckFails \/ ListenFails \/ RangeFails \/ StoreFails
    BY <2>2, <2>4, HeldTable
    DEF LoadFails, CheckFails, ListenFails, RangeFails, StoreFails
  <2>5. CASE PubsubFails \/ ClientsFails
    BY <2>2, <2>5, HeldTable DEF PubsubFails, ClientsFails, GivenWithoutClients
  <2>6. CASE Starts \/ Check \/ InRange \/ ClearFlag \/ Enter
    <3>1. twice' = twice /\ held' = held
      BY <2>6 DEF Starts, Check, InRange, ClearFlag, Enter, resources
    <3>2. HeldAt(pc') = HeldAt(pc)
      BY <2>6, HeldTable DEF Starts, Check, InRange, ClearFlag, Enter, Goes
    <3> QED BY <3>1, <3>2, <2>1, <2>3
  <2>7. CASE \E f \in Listeners : Listen(f)
    BY <2>1, <2>3, <2>7, HeldTable DEF Listen
  <2>8. CASE Store \/ Pubsub \/ Clients
    <3>1. twice' = twice
      BY <2>8 DEF Store, Pubsub, Clients, Acquires
    <3>2. held' = HeldAt(pc')
      BY <2>1, <2>8, HeldTable DEF Store, Pubsub, Clients, Acquires, Goes
    <3> QED BY <3>1, <3>2, <2>1, <2>3
  <2> QED BY <2>4, <2>5, <2>6, <2>7, <2>8
<1>5. Fit'
  <2>1. cfg' = cfg /\ cfg.clients \in Nat /\ FdSetSize \in Nat
    <3>1. cfg' = cfg
      BY DEF loader
    <3>2. cfg.clients \in 1 .. ClientMax
      BY DEF ConfigInv, Usable
    <3> QED BY <3>1, <3>2, SizesAssumption, LimitAssumption
  <2>2. CASE LoadFails \/ Starts \/ CheckFails \/ ListenFails
    BY <2>1, <2>2 DEF Fit, Places, Ups, Downs, LoadFails, Starts, CheckFails, ListenFails,
                      Goes, Gives
  <2>3. CASE Check
    BY <2>1, <2>3 DEF Fit, Places, Ups, Downs, Check, LimitIsValid, Goes
  <2>4. CASE (\E f \in Listeners : Listen(f)) \/ InRange \/ RangeFails
    BY <2>1, <2>4, SizesAssumption DEF Fit, Places, Ups, Downs, Listen, InRange, RangeFails,
                      Goes, Gives
  <2>5. CASE \/ Store \/ StoreFails \/ Pubsub \/ PubsubFails \/ Clients \/ ClientsFails
             \/ ClearFlag \/ Enter
    BY <2>1, <2>5 DEF Fit, Places, Ups, Downs, Store, StoreFails, Pubsub, PubsubFails, Clients,
                      ClientsFails, ClearFlag, Enter, Goes, Gives, Acquires
  <2> QED BY <2>2, <2>3, <2>4, <2>5
<1> QED BY <1>2, <1>3, <1>4, <1>5

\* Installing and restoring the handlers.
LEMMA HandlerInv ==
  ASSUME StartInv, UNCHANGED loader, NEW s \in Signals,
         Install(s) \/ InstallFails(s) \/ Restore(s)
  PROVE  StartInv'
<1> USE DEF StartInv
<1>1. UNCHANGED <<listenFd, held, twice, conns, before, cfg>>
  BY DEF Install, InstallFails, Restore, resources, loader
<1>2. CASE Install(s) \/ InstallFails(s)
  <2>1. /\ pc = s /\ pc' = (IF s = "SIGINT" THEN "SIGTERM" ELSE "enter")
        /\ \/ /\ previous' = [previous EXCEPT ![s] = disposition[s]]
              /\ disposition' = [disposition EXCEPT ![s] = "handler"]
           \/ previous' = [previous EXCEPT ![s] = "SIG_ERR"] /\ disposition' = disposition
    BY <1>2 DEF Install, InstallFails, Installed
  <2>2. ConfigInv'
    BY <2>1, ConfigKept DEF Signals
  <2>3. Held' /\ Fit'
    BY <1>1, <2>1 DEF Held, HeldAt, Fit, Signals, Places, Ups
  <2>4. disposition[s] = before[s]
    BY <2>1 DEF Handled, Signals, Before, Ups
  <2>5. Handled'
    <3>1. /\ disposition' \in [Signals -> {"default", "ignore", "handler"}]
          /\ previous' \in [Signals -> {"none", "default", "ignore", "SIG_ERR"}]
      BY <2>1, <2>4 DEF Handled
    <3>2. ASSUME NEW t \in Signals
          PROVE  /\ pc' \in Before(t) \cup After(t) => disposition'[t] = before[t]
                 /\ pc' \in Places \ (Before(t) \cup After(t) \cup {"killed"}) =>
                      \/ previous'[t] = before[t]
                      \/ previous'[t] = "SIG_ERR" /\ disposition'[t] = before[t]
      <4>1. CASE t = s
        <5>1. pc' \notin Before(t) \cup After(t)
          BY <4>1, <2>1 DEF Signals, Before, After, Ups
        <5>2. \/ previous'[t] = before[t]
              \/ previous'[t] = "SIG_ERR" /\ disposition'[t] = before[t]
          BY <4>1, <2>1, <2>4 DEF Handled
        <5> QED BY <5>1, <5>2
      <4>2. CASE t # s
        <5>1. disposition'[t] = disposition[t] /\ previous'[t] = previous[t]
          BY <4>2, <2>1 DEF Handled
        <5>2. /\ pc' \in Before(t) \cup After(t) => pc \in Before(t) \cup After(t)
              /\ pc' \in Places \ (Before(t) \cup After(t) \cup {"killed"}) =>
                   pc \in Places \ (Before(t) \cup After(t) \cup {"killed"})
          BY <4>2, <2>1 DEF Signals, Before, After, Ups, Places
        <5> QED BY <5>1, <5>2 DEF Handled
      <4> QED BY <4>1, <4>2
    <3> QED BY <1>1, <3>1, <3>2 DEF Handled
  <2> QED BY <2>2, <2>3, <2>5
<1>3. CASE Restore(s)
  <2>1. /\ pc = (IF s = "SIGINT" THEN "restoreInt" ELSE "restoreTerm")
        /\ pc' = (IF s = "SIGINT" THEN "restoreTerm" ELSE "returned")
        /\ disposition' = (IF previous[s] # "SIG_ERR"
                           THEN [disposition EXCEPT ![s] = previous[s]] ELSE disposition)
        /\ previous' = previous
    BY <1>3 DEF Restore, PutsBack
  <2>2. ConfigInv'
    BY <2>1, ConfigKept
  <2>3. Held' /\ Fit'
    BY <1>1, <2>1 DEF Held, HeldAt, Fit, Signals, Places, Ups, Downs
  <2>4. previous[s] = before[s] \/ (previous[s] = "SIG_ERR" /\ disposition[s] = before[s])
    BY <2>1 DEF Handled, Signals, Before, After, Places, Ups, Downs
  <2>5. /\ disposition' \in [Signals -> {"default", "ignore", "handler"}]
        /\ disposition'[s] = before[s]
    BY <2>1, <2>4 DEF Handled
  <2>6. ASSUME NEW t \in Signals
        PROVE  /\ pc' \in Before(t) \cup After(t) => disposition'[t] = before[t]
               /\ pc' \in Places \ (Before(t) \cup After(t) \cup {"killed"}) =>
                    \/ previous[t] = before[t]
                    \/ previous[t] = "SIG_ERR" /\ disposition'[t] = before[t]
    <3>1. CASE t = s
      BY <3>1, <2>4, <2>5
    <3>2. CASE t # s
      <4>1. disposition'[t] = disposition[t]
        BY <3>2, <2>1 DEF Handled
      <4>2. /\ pc' \in Before(t) \cup After(t) => pc \in Before(t) \cup After(t)
            /\ pc' \in Places \ (Before(t) \cup After(t) \cup {"killed"}) =>
                 pc \in Places \ (Before(t) \cup After(t) \cup {"killed"})
        BY <3>2, <2>1 DEF Signals, Before, After, Ups, Downs, Places
      <4> QED BY <4>1, <4>2 DEF Handled
    <3> QED BY <3>1, <3>2
  <2>7. Handled'
    BY <1>1, <2>1, <2>5, <2>6 DEF Handled
  <2> QED BY <2>2, <2>3, <2>7
<1> QED BY <1>2, <1>3

\* The loop seen from outside and the way out.
LEMMA DownInv ==
  ASSUME StartInv, UNCHANGED loader,
         Connects \/ Disconnects \/ LoopFails \/ LoopEnds \/ CleanClients \/ CleanRest
  PROVE  StartInv'
<1> USE DEF StartInv
<1>1. /\ pc \in {"loop", "clean", "give"}
      /\ pc' \in {"loop", "clean", "give", "restoreInt"} /\ (pc' = "loop" => pc = "loop")
      /\ UNCHANGED <<listenFd, before, disposition, previous, cfg>>
  BY DEF Connects, Disconnects, LoopFails, LoopEnds, CleanClients, CleanRest, Goes,
         Releases, signals, resources, loader
<1>2. ConfigInv'
  BY <1>1, ConfigKept
<1>3. Fit'
  BY <1>1 DEF Fit, Places, Ups, Downs
<1>4. Handled'
  <2>1. \A s \in Signals :
          /\ pc' \notin Before(s) \cup After(s)
          /\ pc \in Places \ (Before(s) \cup After(s) \cup {"killed"})
    BY <1>1 DEF Signals, Before, After, Places, Ups, Downs
  <2> QED BY <1>1, <2>1 DEF Handled
<1>5. Held'
  <2>1. CASE Connects \/ Disconnects
    <3>1. conns' \in Nat
      BY <2>1 DEF Connects, Disconnects, Held
    <3> QED BY <2>1, <3>1 DEF Connects, Disconnects, Held, HeldAt
  <2>2. CASE LoopFails \/ LoopEnds
    BY <2>2 DEF LoopFails, LoopEnds, Goes, Held, HeldAt, resources
  <2>3. CASE CleanClients
    BY <2>3 DEF CleanClients, Goes, Held, HeldAt, Resources
  <2>4. CASE CleanRest
    BY <2>4 DEF CleanRest, Goes, Held, HeldAt, Releases
  <2> QED BY <2>1, <2>2, <2>3, <2>4
<1> QED BY <1>2, <1>3, <1>4, <1>5

\* A signal at any time.
LEMMA SignalInv ==
  ASSUME StartInv, UNCHANGED loader, NEW s \in Signals, Signal(s)
  PROVE  StartInv'
<1> USE DEF StartInv
<1>1. /\ pc \notin {"returned", "killed"}
      /\ UNCHANGED <<listenFd, held, twice, conns, before, previous, cfg>>
  BY DEF Signal, resources, loader
<1>2. CASE pc' = "killed" /\ disposition' = disposition
  <2>1. ConfigInv'
    BY <1>2, ConfigKept
  <2>2. Held' /\ Fit'
    BY <1>1, <1>2 DEF Held, Fit, Places, Ups
  <2>3. Handled'
    BY <1>1, <1>2 DEF Handled, Before, After, Ups
  <2> QED BY <2>1, <2>2, <2>3
<1>3. ASSUME NEW d \in {"handler", "default"}, disposition[s] = "handler", pc' = pc,
             disposition' = [disposition EXCEPT ![s] = d]
      PROVE  StartInv'
  <2>1. ConfigInv'
    BY <1>3, ConfigKept
  <2>2. Held' /\ Fit'
    BY <1>1, <1>3 DEF Held, Fit
  <2>3. before[s] # "handler"
    BY DEF Handled
  <2>4. Handled'
    BY <1>1, <1>3, <2>3 DEF Handled
  <2> QED BY <2>1, <2>2, <2>4
<1> QED BY <1>2, <1>3 DEF Signal

\* The start is in order.
LEMMA StartInit == Init => StartInv
<1> SUFFICES ASSUME Init PROVE StartInv
  OBVIOUS
<1> USE DEF Init, LoadInit
<1>1. ConfigInv
  <2>1. argv \in Seq(STRING) /\ DOMAIN env \subseteq Fields
    BY InputAssumption
  <2>2. Usable
    BY DefaultsAssumption DEF Usable
  <2>3. InEnv
    BY DEF InEnv
  <2> QED BY <2>1, <2>2, <2>3 DEF ConfigInv
<1>2. Held /\ Fit
  BY DEF Held, HeldAt, Fit, Places, Ups
<1>3. Handled
  BY DEF Handled, Before, Places, Ups
<1> QED BY <1>1, <1>2, <1>3 DEF StartInv

\* Every step keeps it.
LEMMA StartNext == StartInv /\ [Next]_vars => StartInv'
<1> SUFFICES ASSUME StartInv, [Next]_vars PROVE StartInv'
  OBVIOUS
<1>1. CASE Load
  BY <1>1, LoadKeeps
<1>2. CASE Prologue /\ UNCHANGED loader
  BY <1>2, UpInv, HandlerInv DEF Prologue
<1>3. CASE Epilogue /\ UNCHANGED loader
  BY <1>3, DownInv, HandlerInv DEF Epilogue
<1>4. CASE Failures /\ UNCHANGED loader
  BY <1>4, UpInv, DownInv, HandlerInv DEF Failures
<1>5. CASE Around /\ UNCHANGED loader
  BY <1>5, DownInv, SignalInv DEF Around
<1>6. CASE UNCHANGED vars
  <2>1. /\ UNCHANGED <<pc, listenFd, held, twice, conns, before, disposition, previous, cfg>>
        /\ UNCHANGED loader
    BY <1>6 DEF vars, resources, signals, loader
  <2>2. ConfigInv'
    BY <2>1, ConfigKept DEF StartInv
  <2> QED BY <2>1, <2>2 DEF StartInv, Held, Fit, Handled
<1> QED BY <1>1, <1>2, <1>3, <1>4, <1>5, <1>6 DEF Next, Runs

\* The invariant of the start and the end of the server.
THEOREM StartInvariance == Spec => []StartInv
BY StartInit, StartNext, PTL DEF Spec

\* For all arguments and all environments: arguments go before the environment
\* and the environment before the defaults, the last argument wins, and
\* ks_config_load fails exactly if a source in use is invalid.
THEOREM ConfigurationAsGiven == Spec => []ConfigAsGiven
<1>1. StartInv => ConfigAsGiven
  BY LoadedAsGiven DEF StartInv
<1> QED BY <1>1, StartInvariance, PTL

\* Whatever fails on the way up and however the loop ends, ks_server_run gives
\* back what it acquired, once, and restores the handlers it found.
THEOREM AllGivenBack == Spec => []GivesBackExactly
<1>1. StartInv => GivesBackExactly
  <2> SUFFICES ASSUME StartInv PROVE GivesBackExactly
    OBVIOUS
  <2>1. pc = "returned" => held = {} /\ conns = 0
    BY DEF StartInv, Held, HeldAt
  <2>2. pc = "returned" => disposition = before
    <3> SUFFICES ASSUME pc = "returned" PROVE disposition = before
      OBVIOUS
    <3>1. \A s \in Signals : disposition[s] = before[s]
      BY DEF StartInv, Handled, After
    <3> QED BY <3>1 DEF StartInv, Handled
  <2>3. pc = "loop" => /\ held = Resources /\ listenFd < FdSetSize
                       /\ cfg.clients \in 1 .. FdSetSize - 1
    BY DEF StartInv, Held, HeldAt, Fit
  <2> QED BY <2>1, <2>2, <2>3 DEF GivesBackExactly, StartInv, Held
<1> QED BY <1>1, StartInvariance, PTL

-----------------------------------------------------------------------------
(* ks_net (KsNet), for every set of descriptors, every length of a transfer *)
(* and every failure of a system call.                                     *)

SetupCalls == {"setsockopt", "inet_pton", "bind", "listen", "F_GETFL", "F_SETFL"}

\* The caller's descriptors are open and non-blocking.
Handed == /\ listeners \subseteq owned
          /\ owned \subseteq open /\ owned \subseteq nonblock

\* A descriptor the caller does not have is open only while it is set up, and
\* then it is the one of the call in progress.
InCall == /\ call \in {"idle", "syscall"} \cup SetupCalls
          /\ call \in {"idle", "syscall"} => open = owned
          /\ call = "syscall" => fd \in owned
          /\ call \in SetupCalls => /\ fd \notin owned /\ open = owned \cup {fd}
                                    /\ op \notin {"recv", "send"}

\* The counter the caller sees is the number of bytes moved; nothing has moved
\* before the system call succeeds.
Reported == op \in {"recv", "send"} => count = moved

NetInv == Handed /\ InCall /\ Reported

\* The places of ks_listen and ks_set_nonblock, by name.
LEMMA SetupNames ==
  /\ Setup[1] = "setsockopt" /\ DOMAIN Setup = 1 .. 6 /\ Len(Setup) = 6
  /\ {Setup[k] : k \in DOMAIN Setup} = SetupCalls
  /\ \A k \in DOMAIN Setup : Setup[k] \in SetupCalls
BY DEF Setup, SetupCalls

LEMMA NetInitInv == NetInit => NetInv
BY DEF NetInit, NetInv, Handed, InCall, Reported, SetupCalls, None

\* A call starts: a new descriptor, or a system call on one of the caller's.
LEMMA CallsInv == NetInv /\ Calls => NetInv'
<1> SUFFICES ASSUME NetInv, Calls
             PROVE  NetInv'
  OBVIOUS
<1> USE DEF NetInv, Handed, InCall, Reported, caller, kernel
<1>1. CASE OpenNoSocket
  BY <1>1 DEF OpenNoSocket
<1>2. ASSUME NEW f \in Fds, OpenListener(f)
      PROVE  NetInv'
  BY <1>2, SetupNames DEF OpenListener, Opens, SetupCalls
<1>3. ASSUME NEW f \in Fds, Accept(f)
      PROVE  NetInv'
  BY <1>3 DEF Accept, Call, SetupCalls
<1>4. ASSUME NEW f \in Fds, Close(f)
      PROVE  NetInv'
  BY <1>4 DEF Close, Closes, SetupCalls
<1>5. ASSUME NEW f \in Fds, NEW what \in {"recv", "send"}, Transfer(what, f)
      PROVE  NetInv'
  BY <1>5 DEF Transfer, Call, SetupCalls
<1>6. ASSUME NEW f \in Fds, NEW what \in {"recv", "send"}, TransferNothing(what, f)
      PROVE  NetInv'
  BY <1>6 DEF TransferNothing, Call, SetupCalls
<1> QED BY <1>1, <1>2, <1>3, <1>4, <1>5, <1>6 DEF Calls

\* A call goes on: no step forgets the descriptor being set up.
LEMMA StepsInv == NetInv /\ Steps => NetInv'
<1> SUFFICES ASSUME NetInv, Steps
             PROVE  NetInv'
  OBVIOUS
<1> USE DEF NetInv, Handed, InCall, Reported, caller, kernel, Returns
<1>1. ASSUME NEW k \in DOMAIN Setup, SetupStep(k)
      PROVE  NetInv'
  <2>1. call \in SetupCalls /\ call' \in SetupCalls
    BY <1>1, SetupNames DEF SetupStep
  <2> QED BY <1>1, <2>1 DEF SetupStep, SetupCalls
<1>2. CASE HandOut
  BY <1>2 DEF HandOut, NonblockAfter, SetupCalls
<1>3. ASSUME NEW f \in Fds, Accepted(f)
      PROVE  NetInv'
  BY <1>3 DEF Accepted, Opens, SetupCalls
<1>4. CASE WouldBlock
  BY <1>4 DEF WouldBlock, SetupCalls
<1>5. CASE AcceptNoDescriptor
  BY <1>5 DEF AcceptNoDescriptor, SetupCalls
<1>6. ASSUME NEW n \in 1 .. MaxBytes, Moved(n)
      PROVE  NetInv'
  BY <1>6 DEF Moved, SetupCalls
<1>7. CASE Closed
  BY <1>7 DEF Closed, SetupCalls
<1> QED BY <1>1, <1>2, <1>3, <1>4, <1>5, <1>6, <1>7 DEF Steps

LEMMA NetNextInv == NetInv /\ [NetNext]_netVars => NetInv'
<1> SUFFICES ASSUME NetInv, [NetNext]_netVars
             PROVE  NetInv'
  OBVIOUS
<1> USE DEF NetInv, Handed, InCall, Reported, caller, kernel, Returns
<1>1. CASE Calls
  BY <1>1, CallsInv
<1>2. CASE Steps
  BY <1>2, StepsInv
<1>3. CASE SetupFails
  BY <1>3, SetupNames DEF SetupFails, ReleasesOnError, Closes, SetupCalls
<1>4. CASE SyscallFails
  BY <1>4 DEF SyscallFails, SetupCalls
<1>5. ASSUME NEW f \in Fds, Arrives(f)
      PROVE  NetInv'
  BY <1>5 DEF Arrives
<1>6. CASE UNCHANGED netVars
  BY <1>6 DEF netVars
<1> QED BY <1>1, <1>2, <1>3, <1>4, <1>5, <1>6 DEF NetNext, Interrupted

\* In every reachable state the caller's descriptors are open and non-blocking
\* and any other open one belongs to the call in progress.
THEOREM NetInvariance == NetSpec => []NetInv
BY NetInitInv, NetNextInv, PTL DEF NetSpec

\* No error path of ks_listen and ks_accept leaks a descriptor or closes one
\* the caller has, and ks_recv and ks_send report what this call moved.
THEOREM DescriptorsKept == NetSpec => []NoLeak
<1>1. NetInv => NoLeak
  BY DEF NetInv, Handed, InCall, Reported, NoLeak
<1> QED BY <1>1, NetInvariance, PTL

\* No accept, recv or send is made on a descriptor that could block the loop.
THEOREM CallsReturn == NetSpec => []NeverBlocks
<1>1. NetInv => NeverBlocks
  BY DEF NetInv, Handed, InCall, NeverBlocks
<1> QED BY <1>1, NetInvariance, PTL

=============================================================================
