------------------------- MODULE CipherArgs_proofs -------------------------
(***************************************************************************)
(* The properties of CipherArgs, for every page size and iteration count   *)
(* that can be asked for and every largest count.                          *)
(***************************************************************************)
EXTENDS CipherArgs, TLAPS

-----------------------------------------------------------------------------
(* The options.                                                            *)

\* The page sizes that CipherConfig::new accepts.
LEMMA PageSizeFacts ==
  ASSUME NEW n \in Nat
  PROVE  ValidPageSize(n) <=> n \in {1024, 2048, 4096, 8192, 16384, 32768, 65536}
PROOF
  <1>1. MinPageSize = 1024 /\ MaxPageSize = 65536
    BY DEF MinPageSize, MaxPageSize
  <1>2. ValidPageSize(n) <=> n >= MinPageSize /\ n <= MaxPageSize /\ n \in PowersOfTwo
    <2>1. MinPageSize \in Int /\ MaxPageSize \in Int
      BY <1>1
    <2> QED BY <2>1 DEF ValidPageSize
  <1>3. ASSUME n >= 1024, n \in PowersOfTwo
        PROVE  n \in {1024, 2048, 4096, 8192, 16384, 32768, 65536}
    BY <1>3 DEF PowersOfTwo
  <1>4. ASSUME n \in {1024, 2048, 4096, 8192, 16384, 32768, 65536}
        PROVE  n >= 1024 /\ n <= 65536 /\ n \in PowersOfTwo
    BY <1>4 DEF PowersOfTwo
  <1> QED BY <1>1, <1>2, <1>3, <1>4

\* The presets are configurations that CipherConfig::new accepts.
LEMMA PresetFacts ==
  ASSUME NEW preset \in {"3", "4"}
  PROVE  Preset(preset) \in Configs /\ NewStatus(Preset(preset)) = "ok"
PROOF
  <1>1. CASE preset = "3"
    <2>1. Preset(preset) = [page_size |-> 1024, kdf_iterations |-> 64000,
                            kdf_algorithm |-> "Sha1", hmac_algorithm |-> "Sha1"]
      BY <1>1 DEF Preset
    <2>2. ValidPageSize(1024)
      BY PageSizeFacts
    <2>3. ValidIterations(64000)
      BY IterationsAssumption DEF ValidIterations
    <2>4. Preset(preset) \in Configs
      BY <2>1 DEF Configs, HashAlgorithms
    <2>5. NewStatus(Preset(preset)) = "ok"
      BY <2>1, <2>2, <2>3 DEF NewStatus
    <2> QED BY <2>4, <2>5
  <1>2. CASE preset = "4"
    <2>1. Preset(preset) = [page_size |-> 4096, kdf_iterations |-> 256000,
                            kdf_algorithm |-> "Sha512", hmac_algorithm |-> "Sha512"]
      BY <1>2 DEF Preset
    <2>2. ValidPageSize(4096)
      BY PageSizeFacts
    <2>3. ValidIterations(256000)
      BY IterationsAssumption DEF ValidIterations
    <2>4. Preset(preset) \in Configs
      BY <2>1 DEF Configs, HashAlgorithms
    <2>5. NewStatus(Preset(preset)) = "ok"
      BY <2>1, <2>2, <2>3 DEF NewStatus
    <2> QED BY <2>4, <2>5
  <1> QED BY <1>1, <1>2

\* The four options, one by one.
LEMMA GivenFacts ==
  ASSUME NEW a
  PROVE  /\ Given(a) = {} <=> /\ a.page_size = Absent /\ a.kdf_iterations = Absent
                              /\ a.kdf_algorithm = Absent /\ a.hmac_algorithm = Absent
         /\ Given(a) = CustomOptions <=>
              /\ a.page_size # Absent /\ a.kdf_iterations # Absent
              /\ a.kdf_algorithm # Absent /\ a.hmac_algorithm # Absent
         /\ "page_size" \in CustomOptions
  BY DEF Given, CustomOptions

\* What the parser accepts is a preset alone or a complete custom configuration.
LEMMA AcceptedModes ==
  ASSUME NEW a \in Arguments, Accepts(a)
  PROVE  \/ /\ a.preset \in {"3", "4"} /\ ~a.custom /\ Given(a) = {}
            /\ Described(a) = Preset(a.preset)
         \/ /\ a.preset = Absent /\ a.custom /\ Given(a) = CustomOptions
            /\ Described(a) = Custom(a) /\ Custom(a) \in Configs
PROOF
  <1>1. /\ a.preset \in {Absent, "3", "4"} /\ a.custom \in BOOLEAN
        /\ a.page_size \in PageSizes \cup {Absent}
        /\ a.kdf_iterations \in Iterations \cup {Absent}
        /\ a.kdf_algorithm \in HashAlgorithms \cup {Absent}
        /\ a.hmac_algorithm \in HashAlgorithms \cup {Absent}
    BY DEF Arguments
  <1>2. CASE a.preset # Absent
    <2>1. ~a.custom /\ Given(a) = {}
      BY <1>1, <1>2 DEF Accepts, OneMode
    <2> QED BY <1>1, <1>2, <2>1 DEF Described
  <1>3. CASE a.preset = Absent
    <2>1. a.custom /\ Given(a) = CustomOptions
      BY <1>1, <1>3 DEF Accepts, OneMode
    <2>2. /\ a.page_size \in PageSizes /\ a.kdf_iterations \in Iterations
          /\ a.kdf_algorithm \in HashAlgorithms /\ a.hmac_algorithm \in HashAlgorithms
      BY <1>1, <2>1, GivenFacts
    <2>3. Custom(a) \in Configs
      BY <2>2, ArgsAssumption DEF Custom, Configs
    <2> QED BY <1>3, <2>1, <2>3 DEF Described
  <1> QED BY <1>2, <1>3

-----------------------------------------------------------------------------
(* The invariant.                                                          *)

LEMMA MakeConfigStep ==
  ASSUME ArgsInv, stage = "parsed", UNCHANGED args,
         NEW c \in Configs, c = Described(args), MakeConfig(c)
  PROVE  ArgsInv'
PROOF
  <1>1. args \in Arguments /\ Accepts(args) /\ c # Absent
    BY ArgsAssumption DEF ArgsInv, TypeOK
  <1>2. CASE NewStatus(c) = "ok"
    <2>1. stage' = "configured" /\ config' = c
      BY <1>2 DEF MakeConfig, Configured
    <2> QED BY <1>1, <1>2, <2>1 DEF ArgsInv, TypeOK
  <1>3. CASE NewStatus(c) # "ok"
    <2>1. stage' = "failed" /\ config' = Absent
      BY <1>3 DEF MakeConfig, Fails
    <2> QED BY <1>1, <1>3, <2>1 DEF ArgsInv, TypeOK
  <1> QED BY <1>2, <1>3

LEMMA ParseStep ==
  ASSUME ArgsInv, Parse PROVE ArgsInv'
PROOF
  <1>1. CASE Accepts(args)
    BY <1>1 DEF Parse, ArgsInv, TypeOK
  <1>2. CASE ~Accepts(args)
    BY <1>2 DEF Parse, ArgsInv, TypeOK
  <1> QED BY <1>1, <1>2

\* The arms of config() for missing options and for no single mode are never
\* taken.
LEMMA ConfigStep ==
  ASSUME ArgsInv, Config PROVE ArgsInv'
PROOF
  <1>1. /\ stage = "parsed" /\ UNCHANGED args /\ args \in Arguments /\ Accepts(args)
    BY DEF Config, ArgsInv, TypeOK
  <1>2. CASE /\ args.preset \in {"3", "4"} /\ ~args.custom
             /\ Described(args) = Preset(args.preset)
    <2>1. args.preset # Absent
      BY <1>2, ArgsAssumption
    <2>2. MakeConfig(Preset(args.preset))
      BY <1>2, <2>1 DEF Config
    <2> QED BY <1>1, <1>2, <2>2, PresetFacts, MakeConfigStep
  <1>3. CASE /\ args.preset = Absent /\ args.custom /\ Given(args) = CustomOptions
             /\ Described(args) = Custom(args) /\ Custom(args) \in Configs
    <2>1. MakeConfig(Custom(args))
      BY <1>3 DEF Config
    <2> QED BY <1>1, <1>3, <2>1, MakeConfigStep
  <1> QED BY <1>1, <1>2, <1>3, AcceptedModes

\* ArgsInv holds in every reachable state.
THEOREM ArgsInvariant == Spec => []ArgsInv
PROOF
  <1>1. Init => ArgsInv
    BY DEF Init, ArgsInv, TypeOK
  <1>2. ArgsInv /\ [Next]_vars => ArgsInv'
    <2> SUFFICES ASSUME ArgsInv, [Next]_vars PROVE ArgsInv'
      OBVIOUS
    <2>1. CASE UNCHANGED vars
      BY <2>1 DEF vars, ArgsInv, TypeOK
    <2> QED BY <2>1, ParseStep, ConfigStep DEF Next
  <1> QED BY <1>1, <1>2, PTL DEF Spec

-----------------------------------------------------------------------------
(* The properties.                                                         *)

LEMMA NoOptionFromInv ==
  ASSUME ArgsInv PROVE NoOptionIsIgnored
PROOF
  <1> SUFFICES ASSUME stage = "configured"
               PROVE  /\ \A option \in Given(args) : config[option] = args[option]
                      /\ Given(args) = {} => config = Preset(args.preset)
                      /\ Given(args) # {} =>
                           Given(args) = CustomOptions /\ args.preset = Absent
    BY DEF NoOptionIsIgnored
  <1>1. args \in Arguments /\ Accepts(args) /\ config = Described(args)
    BY DEF ArgsInv, TypeOK
  <1>2. ASSUME config = Custom(args), NEW option \in CustomOptions
        PROVE  config[option] = args[option]
    BY <1>2 DEF Custom, CustomOptions
  <1>3. CustomOptions # {} /\ Given(args) \subseteq CustomOptions
    BY DEF CustomOptions, Given
  <1> QED BY <1>1, <1>2, <1>3, AcceptedModes

\* CipherConfig::new accepts the documented values and no others.
LEMMA AcceptedMeansSupported ==
  ASSUME NEW c \in Configs
  PROVE  NewStatus(c) = "ok" <=> Supported(c)
PROOF
  <1>1. c.page_size \in Nat /\ c.kdf_iterations \in Nat
    BY DEF Configs
  <1>2. ValidPageSize(c.page_size) <=>
          c.page_size \in {1024, 2048, 4096, 8192, 16384, 32768, 65536}
    BY <1>1, PageSizeFacts
  <1>3. ValidIterations(c.kdf_iterations) <=> c.kdf_iterations \in 1 .. MaxKdfIterations
    BY DEF ValidIterations
  <1> QED BY <1>2, <1>3 DEF NewStatus, Supported

LEMMA SupportedFromInv ==
  ASSUME ArgsInv PROVE SupportedValuesAreConfigured
PROOF
  <1>1. ASSUME stage = "failed"
        PROVE  Given(args) = CustomOptions /\ ~Supported(args)
    <2>1. args \in Arguments /\ Accepts(args) /\ NewStatus(Described(args)) # "ok"
      BY <1>1 DEF ArgsInv, TypeOK
    <2>2. /\ Given(args) = CustomOptions /\ Described(args) = Custom(args)
          /\ Custom(args) \in Configs
      BY <2>1, AcceptedModes, PresetFacts
    <2>3. ~Supported(Custom(args))
      BY <2>1, <2>2, AcceptedMeansSupported
    <2> QED BY <2>2, <2>3 DEF Supported, Custom
  <1>2. ASSUME stage = "configured" PROVE Supported(config)
    <2>1. args \in Arguments /\ Accepts(args) /\ config = Described(args)
          /\ NewStatus(config) = "ok"
      BY <1>2 DEF ArgsInv, TypeOK
    <2>2. config \in Configs
      BY <2>1, AcceptedModes, PresetFacts
    <2> QED BY <2>1, <2>2, AcceptedMeansSupported
  <1> QED BY <1>1, <1>2 DEF SupportedValuesAreConfigured

\* The reserve is 48 or 80 bytes, and holds the IV and the HMAC.
LEMMA ReserveFacts ==
  ASSUME NEW c \in Configs
  PROVE  /\ ReserveSize(c) \in {48, 80}
         /\ ReserveSize(c) >= IvSize + OutputLen(c.hmac_algorithm)
PROOF
  <1>1. c.hmac_algorithm \in {"Sha1", "Sha256", "Sha512"}
    BY DEF Configs, HashAlgorithms
  <1>2. OutputLen(c.hmac_algorithm) \in {20, 32, 64}
    BY <1>1 DEF OutputLen
  <1>3. CASE OutputLen(c.hmac_algorithm) = 20
    BY <1>3 DEF ReserveSize, NextMultipleOf, IvSize, BlockSize
  <1>4. CASE OutputLen(c.hmac_algorithm) = 32
    BY <1>4 DEF ReserveSize, NextMultipleOf, IvSize, BlockSize
  <1>5. CASE OutputLen(c.hmac_algorithm) = 64
    BY <1>5 DEF ReserveSize, NextMultipleOf, IvSize, BlockSize
  <1> QED BY <1>2, <1>3, <1>4, <1>5

LEMMA LayoutFromInv ==
  ASSUME ArgsInv PROVE LayoutIsSound
PROOF
  <1> SUFFICES ASSUME stage = "configured"
               PROVE  /\ UsableEnd(config) >= 480
                      /\ UsableEnd(config) % BlockSize = 0
                      /\ ReserveSize(config) >= IvSize + OutputLen(config.hmac_algorithm)
                      /\ ReserveSize(config) < 256
                      /\ config.page_size \div 256 < 256 \/ config.page_size = MaxPageSize
    BY DEF LayoutIsSound
  <1>1. config \in Configs /\ NewStatus(config) = "ok"
    BY DEF ArgsInv, TypeOK
  <1>2. config.page_size \in {1024, 2048, 4096, 8192, 16384, 32768, 65536}
    <2>1. config.page_size \in Nat
      BY <1>1 DEF Configs
    <2>2. ValidPageSize(config.page_size)
      BY <1>1 DEF NewStatus
    <2> QED BY <2>1, <2>2, PageSizeFacts
  <1>3. /\ ReserveSize(config) \in {48, 80}
        /\ ReserveSize(config) >= IvSize + OutputLen(config.hmac_algorithm)
    BY <1>1, ReserveFacts
  <1>4. \A n \in {1024, 2048, 4096, 8192, 16384, 32768, 65536}, r \in {48, 80} :
          /\ n - r >= 480 /\ (n - r) % 16 = 0 /\ r < 256
          /\ n \div 256 < 256 \/ n = 65536
    OBVIOUS
  <1> QED BY <1>2, <1>3, <1>4 DEF UsableEnd, BlockSize, MaxPageSize

\* What the decryptor assumes of a page (LayoutAssumption, with a salt of 16
\* bytes) is true of every configuration that CipherConfig::new accepts: salt
\* and reserve leave room, and what is decrypted is whole blocks.
THEOREM AcceptedLayout ==
  ASSUME NEW c \in Configs, NewStatus(c) = "ok"
  PROVE  /\ c.page_size \in Nat /\ ReserveSize(c) \in Nat
         /\ ReserveSize(c) > 0 /\ 16 + ReserveSize(c) < c.page_size
         /\ c.page_size <= MaxPageSize
         /\ (UsableEnd(c) - 16) % BlockSize = 0
PROOF
  <1>1. c.page_size \in {1024, 2048, 4096, 8192, 16384, 32768, 65536}
    <2>1. c.page_size \in Nat
      BY DEF Configs
    <2>2. ValidPageSize(c.page_size)
      BY DEF NewStatus
    <2> QED BY <2>1, <2>2, PageSizeFacts
  <1>2. ReserveSize(c) \in {48, 80}
    BY ReserveFacts
  <1>3. \A n \in {1024, 2048, 4096, 8192, 16384, 32768, 65536}, r \in {48, 80} :
          n \in Nat /\ r \in Nat /\ r > 0 /\ 16 + r < n /\ n <= 65536 /\ (n - r - 16) % 16 = 0
    OBVIOUS
  <1> QED BY <1>1, <1>2, <1>3 DEF UsableEnd, BlockSize, MaxPageSize

\* A configuration is there exactly when one was made.
THEOREM ArgsTypeCorrectness == Spec => []TypeOK
PROOF
  <1>1. ArgsInv => TypeOK
    BY DEF ArgsInv
  <1> QED BY <1>1, ArgsInvariant, PTL

\* CipherArgs::config: no option is ignored, and none gets a default.
THEOREM NoOptionIgnored == Spec => []NoOptionIsIgnored
PROOF
  <1>1. ArgsInv => NoOptionIsIgnored
    BY NoOptionFromInv
  <1> QED BY <1>1, ArgsInvariant, PTL

\* CipherArgs::config fails for unsupported values, never for options that
\* clap let through, and configures supported values only.
THEOREM SupportedConfigured == Spec => []SupportedValuesAreConfigured
PROOF
  <1>1. ArgsInv => SupportedValuesAreConfigured
    BY SupportedFromInv
  <1> QED BY <1>1, ArgsInvariant, PTL

\* The page layout of every configuration that CipherConfig::new accepts is
\* sound.
THEOREM LayoutSound == Spec => []LayoutIsSound
PROOF
  <1>1. ArgsInv => LayoutIsSound
    BY LayoutFromInv
  <1> QED BY <1>1, ArgsInvariant, PTL
=============================================================================
