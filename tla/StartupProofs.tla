---------------------------- MODULE StartupProofs ----------------------------
(* What a start of estd has seen of its files, for every configuration and *)
(* however often the files change meanwhile.                               *)
EXTENDS Startup, TLAPS

AfterValidate == {"stat", "backend", "store", "tls", "csrattrs", "listening"}
AfterStat == AfterValidate \ {"stat"}
AfterBackend == AfterStat \ {"backend"}
AfterTLS == AfterBackend \ {"store", "tls"}

\* Nothing is looked at before the fields are valid.
NothingSeenBefore ==
    step \in {"load", "validate"} => statted = {} /\ read = {}

\* Validate leaves a backend that the later steps have a case for.
ConfigThere ==
    /\ step \in {"validate"} \cup AfterValidate => config # None
    /\ step \in AfterValidate => config.backend \in Backends

\* No file of another backend is looked at.
OnlyOwnFiles ==
    statted \cup read # {} =>
        /\ config # None
        /\ config.backend \in Backends
        /\ statted \cup read \subseteq FilesOf(config)

\* What each step has read stays read.
StepsDone ==
    /\ step \in AfterStat => FilesOf(config) \subseteq statted
    /\ step \in AfterBackend => BackendFiles(config) \subseteq read
    /\ step \in AfterTLS => Common \subseteq read

\* The inductive invariant.
StartInv == TypeOK /\ NothingSeenBefore /\ ConfigThere /\ OnlyOwnFiles /\ StepsDone

-----------------------------------------------------------------------------

\* The files that a backend reads are among those that Validate looks for.
LEMMA FilesOfBackend ==
    ASSUME NEW c \in Config, c.backend \in Backends
    PROVE  /\ FilesOf(c) \in SUBSET FileFields
           /\ Common \subseteq FilesOf(c)
           /\ BackendFiles(c) \subseteq FilesOf(c)
BY DEF Backends, FilesOf, BackendFiles, Common, Required, FileFields

\* The end of a start forgets nothing and sees nothing.
LEMMA ExitKeeps ==
    ASSUME StartInv, Exit, disk' = disk, changes' = changes
    PROVE  StartInv'
BY DEF StartInv, TypeOK, NothingSeenBefore, ConfigThere, OnlyOwnFiles, StepsDone, AfterValidate,
       AfterStat, AfterBackend, AfterTLS, Exit, Goto, Steps

LEMMA LoadKeeps ==
    ASSUME StartInv, Load
    PROVE  StartInv'
<1>1. CASE Exit
  BY <1>1, ExitKeeps DEF Load
<1>2. ASSUME NEW c \in Configs, config' = c, Goto("validate"),
             UNCHANGED <<statted, read, validity, disk, changes>>
      PROVE  StartInv'
  <2>1. step = "load" /\ c \in Config /\ c # None
    BY StartupAssumption DEF Load
  <2> QED
    BY <1>2, <2>1 DEF StartInv, TypeOK, NothingSeenBefore, ConfigThere, OnlyOwnFiles, StepsDone,
       AfterValidate, AfterStat, AfterBackend, AfterTLS, Goto, Steps
<1> QED
  BY <1>1, <1>2 DEF Load

\* The default backend is filled in before any file is looked at.
LEMMA ValidateFieldsKeeps ==
    ASSUME StartInv, ValidateFields
    PROVE  StartInv'
<1>1. CASE Exit
  BY <1>1, ExitKeeps DEF ValidateFields
<1>2. CASE FieldsValid(config) /\ Goto("stat")
           /\ config' = [config EXCEPT !.backend = Normal(@)]
           /\ UNCHANGED <<statted, read, validity>>
  <2>1. config \in Config /\ step = "validate" /\ statted = {} /\ read = {}
    BY DEF ValidateFields, StartInv, TypeOK, NothingSeenBefore, ConfigThere
  <2>2. config'.backend \in Backends /\ config' \in Config
    BY <1>2, <2>1 DEF FieldsValid, Config
  <2>3. config' # None
    BY <2>2, StartupAssumption
  <2> QED
    BY <1>2, <2>1, <2>2, <2>3 DEF ValidateFields, StartInv, TypeOK, NothingSeenBefore,
       ConfigThere, OnlyOwnFiles, StepsDone, AfterValidate, AfterStat, AfterBackend, AfterTLS,
       Goto, Steps
<1> QED
  BY <1>1, <1>2 DEF ValidateFields

\* The files are found to be there one by one, and only files of the backend.
LEMMA StatKeeps ==
    ASSUME StartInv, Stat
    PROVE  StartInv'
<1>0. /\ step = "stat" /\ UNCHANGED <<disk, changes>>
      /\ config \in Config /\ config # None /\ config.backend \in Backends
  BY DEF Stat, StartInv, TypeOK, ConfigThere, AfterValidate
<1>1. FilesOf(config) \in SUBSET FileFields
  BY <1>0, FilesOfBackend
<1>2. CASE Exit
  BY <1>0, <1>2, ExitKeeps
<1>3. CASE /\ FilesOf(config) \subseteq statted
           /\ Goto("backend") /\ UNCHANGED <<config, statted, read, validity>>
  BY <1>0, <1>3 DEF StartInv, TypeOK, NothingSeenBefore, ConfigThere, OnlyOwnFiles, StepsDone,
     AfterValidate, AfterStat, AfterBackend, AfterTLS, Goto, Steps, FilesOf
<1>4. ASSUME NEW f \in FilesOf(config), statted' = statted \cup {f},
             UNCHANGED <<step, config, read, validity>>
      PROVE  StartInv'
  <2>1. TypeOK'
    BY <1>0, <1>1, <1>4 DEF StartInv, TypeOK
  <2>2. FilesOf(config)' = FilesOf(config)
    BY <1>4 DEF FilesOf
  <2>3. OnlyOwnFiles'
    BY <1>0, <1>4, <2>2 DEF StartInv, OnlyOwnFiles
  <2>4. NothingSeenBefore' /\ ConfigThere' /\ StepsDone'
    BY <1>0, <1>4 DEF StartInv, NothingSeenBefore, ConfigThere, StepsDone, AfterValidate,
       AfterStat, AfterBackend, AfterTLS
  <2> QED
    BY <2>1, <2>3, <2>4 DEF StartInv
<1> QED
  BY <1>2, <1>3, <1>4 DEF Stat

\* A step that reads files of the backend in use reads one more of them, goes
\* on with all of them read, or ends the start.
LEMMA ReadKeeps ==
    ASSUME StartInv, NEW files \in SUBSET FilesOf(config), NEW s \in {"store", "csrattrs"},
           step \in AfterStat, ReadThenGoto(files, s),
           validity' \in {None, "cert_validity", "openssl.cnf", "EJBCA profile"},
           UNCHANGED <<disk, changes>>,
           s = "store" => files = BackendFiles(config),
           s = "csrattrs" => files = Common /\ step = "tls"
    PROVE  StartInv'
<1>0. config \in Config /\ config # None /\ config.backend \in Backends
  BY DEF StartInv, TypeOK, ConfigThere, AfterValidate, AfterStat
<1>1. FilesOf(config) \in SUBSET FileFields
  BY <1>0, FilesOfBackend
<1>2. CASE Exit
  BY <1>2, ExitKeeps
<1>3. CASE files \subseteq read /\ Goto(s) /\ UNCHANGED <<config, statted, read>>
  <2>1. TypeOK'
    BY <1>0, <1>3 DEF StartInv, TypeOK, Goto, Steps
  <2>2. FilesOf(config)' = FilesOf(config) /\ BackendFiles(config)' = BackendFiles(config)
    BY <1>3 DEF FilesOf, BackendFiles
  <2>3. OnlyOwnFiles'
    BY <1>0, <1>3, <2>2 DEF StartInv, OnlyOwnFiles
  <2>4. ConfigThere' /\ NothingSeenBefore'
    BY <1>0, <1>3 DEF ConfigThere, NothingSeenBefore, Goto
  <2>5. StepsDone'
    BY <1>3, <2>2 DEF StartInv, StepsDone, Goto, AfterValidate, AfterStat, AfterBackend,
       AfterTLS
  <2> QED
    BY <2>1, <2>3, <2>4, <2>5 DEF StartInv
<1>4. ASSUME NEW f \in files, read' = read \cup {f}, UNCHANGED <<step, config, statted>>
      PROVE  StartInv'
  <2>1. TypeOK'
    BY <1>0, <1>1, <1>4 DEF StartInv, TypeOK
  <2>2. FilesOf(config)' = FilesOf(config) /\ BackendFiles(config)' = BackendFiles(config)
    BY <1>4 DEF FilesOf, BackendFiles
  <2>3. OnlyOwnFiles'
    BY <1>0, <1>4, <2>2 DEF StartInv, OnlyOwnFiles
  <2>4. ConfigThere' /\ NothingSeenBefore'
    BY <1>0, <1>4 DEF StartInv, ConfigThere, NothingSeenBefore, AfterStat, AfterValidate
  <2>5. StepsDone'
    BY <1>4, <2>2 DEF StartInv, StepsDone
  <2> QED
    BY <2>1, <2>3, <2>4, <2>5 DEF StartInv
<1> QED
  BY <1>2, <1>3, <1>4 DEF ReadThenGoto

LEMMA BuildBackendKeeps ==
    ASSUME StartInv, BuildBackend
    PROVE  StartInv'
<1>1. /\ step = "backend" /\ step \in AfterStat
      /\ config \in Config /\ config.backend \in Backends
  BY DEF BuildBackend, StartInv, TypeOK, ConfigThere, AfterValidate, AfterStat
<1>2. BackendFiles(config) \in SUBSET FilesOf(config)
  BY <1>1, FilesOfBackend
<1>3. validity' \in {None, "cert_validity", "openssl.cnf", "EJBCA profile"}
  BY <1>1 DEF BuildBackend, ValiditySource, Backends, StartInv, TypeOK
<1> QED
  BY <1>1, <1>2, <1>3, ReadKeeps DEF BuildBackend

LEMMA BuildTLSConfigKeeps ==
    ASSUME StartInv, BuildTLSConfig
    PROVE  StartInv'
<1>1. step = "tls" /\ config \in Config /\ config.backend \in Backends
  BY DEF BuildTLSConfig, StartInv, TypeOK, ConfigThere, AfterValidate
<1>2. Common \in SUBSET FilesOf(config)
  BY <1>1, FilesOfBackend
<1>3. step \in AfterStat
  BY <1>1 DEF AfterStat, AfterValidate
<1> QED
  BY <1>1, <1>2, <1>3, ReadKeeps DEF BuildTLSConfig, StartInv, TypeOK

\* The steps that look at no file of the configuration.
LEMMA OtherStepsKeep ==
    ASSUME StartInv, OpenStore \/ EncodeCSRAttrs \/ ChangeFile \/ UNCHANGED vars
    PROVE  StartInv'
<1>1. CASE Exit /\ UNCHANGED <<disk, changes>>
  BY <1>1, ExitKeeps
<1>2. CASE /\ UNCHANGED <<config, statted, read, validity, disk, changes>>
           /\ \/ step = "store" /\ Goto("tls")
              \/ step = "csrattrs" /\ Goto("listening")
  BY <1>2 DEF StartInv, TypeOK, NothingSeenBefore, ConfigThere, OnlyOwnFiles, StepsDone,
     AfterValidate, AfterStat, AfterBackend, AfterTLS, FilesOf, BackendFiles, Goto, Steps
<1>3. CASE ChangeFile \/ UNCHANGED vars
  <2>1. UNCHANGED <<step, config, statted, read, validity>>
    BY <1>3 DEF ChangeFile, vars
  <2>2. changes' \in 0..MaxChanges
    <3>1. changes \in 0..MaxChanges
      BY DEF StartInv, TypeOK
    <3>2. changes' = changes \/ (changes' = changes + 1 /\ changes < MaxChanges)
      BY <1>3 DEF ChangeFile, vars
    <3> QED
      BY <3>1, <3>2, StartupAssumption
  <2>3. disk' \in [FileFields \cup {"store_dir"} -> {"good", "bad", "gone"}]
    BY <1>3 DEF ChangeFile, vars, StartInv, TypeOK
  <2> QED
    BY <2>1, <2>2, <2>3 DEF StartInv, TypeOK, NothingSeenBefore, ConfigThere, OnlyOwnFiles,
       StepsDone, FilesOf, BackendFiles
<1> QED
  BY <1>1, <1>2, <1>3 DEF OpenStore, EncodeCSRAttrs, Exit, Goto

\* The inductive invariant, whatever happens to the files.
THEOREM StartInvariant == Spec => []StartInv
<1>1. Init => StartInv
  BY StartupAssumption DEF Init, StartInv, TypeOK, Steps, NothingSeenBefore, ConfigThere,
     OnlyOwnFiles, StepsDone, AfterValidate, AfterStat, AfterBackend, AfterTLS
<1>2. StartInv /\ [Next]_vars => StartInv'
  BY LoadKeeps, ValidateFieldsKeeps, StatKeeps, BuildBackendKeeps, BuildTLSConfigKeeps,
     OtherStepsKeep DEF Next
<1> QED
  BY <1>1, <1>2, PTL DEF Spec

\* The state of a starting process is well formed.
THEOREM StartupTypeCorrect == Spec => []TypeOK
<1>1. StartInv => TypeOK
  BY DEF StartInv
<1> QED
  BY StartInvariant, <1>1, PTL

\* A process that listens has read everything its requests will need, however
\* the files changed between Validate and the steps that read them
\* (config.go 184-188).
THEOREM ListeningHasReadAll == Spec => []ListeningIsReady
<1>1. StartInv => ListeningIsReady
  <2> SUFFICES ASSUME StartInv, step = "listening" PROVE ListeningIsReady
    BY DEF ListeningIsReady
  <2>1. /\ config.backend \in Backends
        /\ FilesOf(config) \subseteq statted
        /\ BackendFiles(config) \subseteq read
        /\ Common \subseteq read
    BY DEF StartInv, ConfigThere, StepsDone, AfterValidate, AfterStat, AfterBackend, AfterTLS
  <2>2. /\ config.backend = "local" =>
             {"ca_cert_file", "ca_key_file"} \subseteq BackendFiles(config)
        /\ config.backend = "openssl" => "ca_cert_file" \in BackendFiles(config)
        /\ config.backend = "ejbca" =>
             {"client_cert_file", "client_key_file"} \subseteq BackendFiles(config)
    BY DEF BackendFiles, FilesOf, Required, Common, FileFields
  <2> QED
    BY <2>1, <2>2 DEF ListeningIsReady
<1> QED
  BY StartInvariant, <1>1, PTL

\* The private key of the CA is never looked at by a process that does not
\* sign itself, although its configuration may name it (README.md 60-61).
THEOREM CAKeyStaysOut == Spec => []KeyStaysOut
<1>1. StartInv => KeyStaysOut
  <2>1. config.backend \in {"openssl", "ejbca"} => "ca_key_file" \notin FilesOf(config)
    BY DEF FilesOf, Required, Common
  <2>2. config.backend = "ejbca" => "ca_cert_file" \notin FilesOf(config)
    BY DEF FilesOf, Required, Common
  <2> QED
    BY <2>1, <2>2 DEF StartInv, OnlyOwnFiles, KeyStaysOut
<1> QED
  BY StartInvariant, <1>1, PTL
=============================================================================
