----------------------------- MODULE CipherArgs -----------------------------
(***************************************************************************)
(* The cipher options of veilite-cli/src/main.rs: clap accepts a command   *)
(* line by the groups and requirements declared on CipherArgs, and         *)
(* CipherArgs::config makes a configuration of what it accepted.           *)
(***************************************************************************)
EXTENDS CipherConfig

CONSTANTS
  Absent,      \* an option that is not given
  PageSizes,   \* page sizes that are asked for
  Iterations   \* iteration counts that are asked for

ASSUME ArgsAssumption ==
  /\ PageSizes \subseteq Nat /\ Iterations \subseteq Nat
  /\ Absent \notin PageSizes \cup Iterations
  /\ Absent \notin HashAlgorithms \cup {"3", "4"}
  /\ Absent \notin Configs

VARIABLES
  stage,  \* "given", "parsed", "configured", "rejected" or "failed"
  args,   \* the options given
  config, \* the configuration made, or Absent
  error   \* why config() failed

vars == <<stage, args, config, error>>

Arguments ==
  [preset : {Absent, "3", "4"}, custom : BOOLEAN,
   page_size : PageSizes \cup {Absent},
   kdf_iterations : Iterations \cup {Absent},
   kdf_algorithm : HashAlgorithms \cup {Absent},
   hmac_algorithm : HashAlgorithms \cup {Absent}]

\* The group custom_configuration.
CustomOptions == {"page_size", "kdf_iterations", "kdf_algorithm", "hmac_algorithm"}

Given(a) == {option \in CustomOptions : a[option] # Absent}

Init ==
  /\ stage = "given"
  /\ args \in Arguments
  /\ config = Absent
  /\ error = "none"

\* The group cipher_mode: required, not multiple.
OneMode(a) == (a.preset # Absent) # a.custom

\* Mutants: a preset does not conflict with custom_configuration, which does
\* not require custom; or custom does not require all of it.
AcceptsExtraOptions(a) ==
  OneMode(a) /\ (a.custom => Given(a) = CustomOptions)
AcceptsMissingOptions(a) ==
  OneMode(a) /\ (Given(a) # {} => a.custom)

Accepts(a) ==
  /\ OneMode(a)
  /\ a.preset # Absent => Given(a) = {}
  /\ Given(a) # {} => a.custom
  /\ a.custom => Given(a) = CustomOptions

\* CliArgs::parse
Parse ==
  /\ stage = "given"
  /\ stage' = IF Accepts(args) THEN "parsed" ELSE "rejected"
  /\ UNCHANGED <<args, config, error>>

Configured(c) == stage' = "configured" /\ config' = c /\ error' = "none"
\* Mutant: an error falls back to a preset.
FailsToDefault(why) ==
  stage' = "failed" /\ config' = Preset("4") /\ error' = why

Fails(why) == stage' = "failed" /\ config' = Absent /\ error' = why

\* Mutant: the two hash algorithms are swapped.
CustomSwapped(a) ==
  [page_size |-> a.page_size, kdf_iterations |-> a.kdf_iterations,
   kdf_algorithm |-> a.hmac_algorithm, hmac_algorithm |-> a.kdf_algorithm]

Custom(a) ==
  [page_size |-> a.page_size, kdf_iterations |-> a.kdf_iterations,
   kdf_algorithm |-> a.kdf_algorithm, hmac_algorithm |-> a.hmac_algorithm]

MakeConfig(c) ==
  IF NewStatus(c) = "ok" THEN Configured(c) ELSE Fails(NewStatus(c))

\* CipherArgs::config
Config ==
  /\ stage = "parsed"
  /\ IF args.preset # Absent /\ ~args.custom THEN
       MakeConfig(Preset(args.preset))
     ELSE IF args.preset = Absent /\ args.custom THEN
       IF Given(args) = CustomOptions THEN MakeConfig(Custom(args))
       ELSE Fails("MissingOptions")
     ELSE Fails("NoSingleMode")
  /\ UNCHANGED args

Next == Parse \/ Config

Spec == Init /\ [][Next]_vars

-----------------------------------------------------------------------------
(* Properties.                                                             *)

TypeOK ==
  /\ stage \in {"given", "parsed", "configured", "rejected", "failed"}
  /\ args \in Arguments
  /\ config \in Configs \cup {Absent}
  /\ stage = "configured" <=> config # Absent

\* No option is ignored and no default is added to one: a configuration has
\* every option that was given, and without options it is that of a preset.
NoOptionIsIgnored ==
  stage = "configured" =>
    /\ \A option \in Given(args) : config[option] = args[option]
    /\ Given(args) = {} => config = Preset(args.preset)
    /\ Given(args) # {} => Given(args) = CustomOptions /\ args.preset = Absent

\* The page sizes and iteration counts of the documentation of CipherConfig.
Supported(c) ==
  /\ c.page_size \in {1024, 2048, 4096, 8192, 16384, 32768, 65536}
  /\ c.kdf_iterations \in 1 .. MaxKdfIterations

\* config() refuses just the values that no SQLCipher database has: the
\* requirements declared to clap leave it no incomplete options to complain
\* about, and no such value gets into a configuration.
SupportedValuesAreConfigured ==
  /\ stage = "failed" => Given(args) = CustomOptions /\ ~Supported(args)
  /\ stage = "configured" => Supported(config)

\* Pages of an accepted configuration can be decrypted in whole blocks, on
\* page 1 behind the salt too, hold the 480 bytes SQLite needs, and have a
\* reserve that the header byte for it can hold.
LayoutIsSound ==
  stage = "configured" =>
    LET usable == UsableEnd(config) IN
    /\ usable >= 480
    /\ usable % BlockSize = 0
    /\ ReserveSize(config) >= IvSize + OutputLen(config.hmac_algorithm)
    /\ ReserveSize(config) < 256
    /\ config.page_size \div 256 < 256 \/ config.page_size = MaxPageSize

-----------------------------------------------------------------------------
(* The inductive invariant behind the properties.                          *)

\* The configuration that the options describe.
Described(a) == IF a.preset # Absent THEN Preset(a.preset) ELSE Custom(a)

\* config() sees only what the parser accepts; it makes the configuration
\* described, or refuses it because CipherConfig::new does.
ArgsInv ==
  /\ TypeOK
  /\ stage \in {"parsed", "configured", "failed"} => Accepts(args)
  /\ stage = "configured" =>
       config = Described(args) /\ NewStatus(config) = "ok"
  /\ stage = "failed" => NewStatus(Described(args)) # "ok"
=============================================================================
