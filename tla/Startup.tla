------------------------------- MODULE Startup -------------------------------
(***************************************************************************)
(* cmd/estd run up to ListenAndServeTLS: the configuration is loaded and   *)
(* validated, and then the CA backend, the store, the TLS configuration    *)
(* and the /csrattrs response are built from it, each step ending the      *)
(* process when it fails.  The files the configuration names are looked    *)
(* at twice, by Validate (os.Stat) and by the step that reads them, and    *)
(* may change in between.                                                  *)
(*                                                                         *)
(* A configuration is the backend it asks for, the fields that are set,    *)
(* whether cert_validity is positive and whether csr_attrs is valid.  A    *)
(* file is identified with the field that names it.                        *)
(***************************************************************************)
EXTENDS Naturals, FiniteSets

CONSTANTS Configs,     \* configurations
          MaxChanges,  \* bound: how often a file changes during the start
          None

VARIABLES step,      \* what the process is at
          config,    \* the configuration as it is in memory, None before Load
          disk,      \* disk[f]: the file is "good", "bad" (of no use) or "gone"
          changes,   \* how often a file has changed
          statted,   \* files Validate has found to exist
          read,      \* files that have been read and made sense
          validity   \* who decides how long certificates are valid, None before

vars == <<step, config, disk, changes, statted, read, validity>>

Backends == {"local", "openssl", "ejbca"}

\* The fields that name files, of every backend.
FileFields ==
    {"server_cert_file", "server_key_file", "client_ca_files", "ca_cert_file",
     "ca_key_file", "openssl_path", "config_file", "client_cert_file", "client_key_file",
     "server_ca_file"}

\* Fields of the ejbca section that are plain strings are one field here.
Fields == FileFields \cup {"listen_addr", "store_dir", "ejbca_names"}

Config == [backend : Backends \cup {"", "unknown"}, set : SUBSET Fields,
           validity : BOOLEAN, attrs : BOOLEAN]

ASSUME StartupAssumption ==
    Configs \subseteq Config /\ None \notin Config /\ MaxChanges \in Nat

Steps == {"load", "validate", "stat", "backend", "store", "tls", "csrattrs",
          "listening", "exited"}

TypeOK ==
    /\ step \in Steps
    /\ config \in Config \cup {None}
    /\ disk \in [FileFields \cup {"store_dir"} -> {"good", "bad", "gone"}]
    /\ changes \in 0..MaxChanges
    /\ statted \in SUBSET FileFields
    /\ read \in SUBSET FileFields
    /\ validity \in {None, "cert_validity", "openssl.cnf", "EJBCA profile"}

Init ==
    /\ step = "load"
    /\ config = None
    /\ disk = [f \in FileFields \cup {"store_dir"} |-> "good"]
    /\ changes = 0
    /\ statted = {}
    /\ read = {}
    /\ validity = None

-----------------------------------------------------------------------------

Goto(s) == step' = s
Exit == Goto("exited") /\ UNCHANGED <<config, statted, read, validity>>

\* The file cannot be read or parsed, or it is one of Configs.
Load ==
    /\ step = "load"
    /\ \/ Exit
       \/ /\ \E c \in Configs : config' = c
          /\ Goto("validate")
          /\ UNCHANGED <<statted, read, validity>>
    /\ UNCHANGED <<disk, changes>>

Common == {"server_cert_file", "server_key_file", "client_ca_files"}

\* The fields each backend requires.
Required(b) ==
    CASE b = "local" -> {"ca_cert_file", "ca_key_file"}
      [] b = "openssl" -> {"ca_cert_file", "config_file"}
      [] b = "ejbca" -> {"client_cert_file", "client_key_file", "ejbca_names"}

Normal(b) == IF b = "" THEN "local" ELSE b

FieldsValid(c) ==
    /\ Normal(c.backend) \in Backends
    /\ {"listen_addr", "store_dir"} \cup Common \subseteq c.set
    /\ c.validity
    /\ Required(Normal(c.backend)) \subseteq c.set

\* The binary is looked up in the middle of the checks: it has to be there and
\* to be executable.  The default "openssl" stands for an unset openssl_path.
BinaryFound(c) == c.backend # "openssl" \/ disk["openssl_path"] = "good"

\* Validate: the fields, and the defaults it fills in.
ValidateFields ==
    /\ step = "validate"
    /\ IF FieldsValid(config) /\ BinaryFound(config)
       THEN /\ Goto("stat")
            /\ config' = [config EXCEPT !.backend = Normal(@)]
            /\ UNCHANGED <<statted, read, validity>>
       ELSE Exit
    /\ UNCHANGED <<disk, changes>>

\* A seeded fault: the store directory has to exist, too.
FilesOfAndStore(c) == Common \cup {"store_dir"}

\* The files Validate looks for.  Of the files of a section only those of the
\* backend in use matter.
FilesOf(c) ==
    Common \cup (Required(c.backend) \cap FileFields)
        \cup (IF c.backend = "ejbca" THEN {"server_ca_file"} \cap c.set ELSE {})

Exists(f) == disk[f] # "gone"

\* Validate: the files, one after the other.
Stat ==
    /\ step = "stat"
    /\ IF FilesOf(config) \subseteq statted
       THEN Goto("backend") /\ UNCHANGED <<config, statted, read, validity>>
       ELSE \E f \in FilesOf(config) \ statted :
                IF Exists(f)
                THEN statted' = statted \cup {f} /\ UNCHANGED <<step, config, read, validity>>
                ELSE Exit
    /\ UNCHANGED <<disk, changes>>

\* A seeded fault: the switch has no case for openssl, and local is the default.
BackendFilesDefault(c) ==
    IF c.backend = "ejbca" THEN FilesOf(c) \ Common ELSE {"ca_cert_file", "ca_key_file"}

\* A seeded fault: the key of the CA is not loaded before the first enrolment.
BackendFilesLazy(c) ==
    IF c.backend = "openssl" THEN {"ca_cert_file"} ELSE FilesOf(c) \ (Common \cup {"ca_key_file"})

\* The files NewCA, LoadCACertificate or LoadCAKeyPair read.  That openssl's own
\* configuration is sound is for openssl to find out, at the first enrolment.
BackendFiles(c) ==
    IF c.backend = "openssl" THEN {"ca_cert_file"} ELSE FilesOf(c) \ Common

Usable(f) == disk[f] = "good"

\* A step reads its files one after the other, each as it is by then, and goes
\* on when all of them make sense.
ReadThenGoto(files, s) ==
    IF files \subseteq read
    THEN Goto(s) /\ UNCHANGED <<config, statted, read>>
    ELSE \E f \in files \ read :
             IF Usable(f)
             THEN read' = read \cup {f} /\ UNCHANGED <<step, config, statted>>
             ELSE Exit

\* Only NewLocalCA is given cert_validity.
ValiditySource(c) ==
    CASE c.backend = "local" -> "cert_validity"
      [] c.backend = "openssl" -> "openssl.cnf"
      [] c.backend = "ejbca" -> "EJBCA profile"

BuildBackend ==
    /\ step = "backend"
    /\ ReadThenGoto(BackendFiles(config), "store")
    /\ validity' = IF step' = "store" THEN ValiditySource(config) ELSE validity
    /\ UNCHANGED <<disk, changes>>

\* NewFileStore makes the directory when it is not there.
OpenStore ==
    /\ step = "store"
    /\ IF disk["store_dir"] # "bad"
       THEN Goto("tls") /\ UNCHANGED <<config, statted, read, validity>>
       ELSE Exit
    /\ UNCHANGED <<disk, changes>>

BuildTLSConfig ==
    /\ step = "tls"
    /\ ReadThenGoto(Common, "csrattrs")
    /\ UNCHANGED <<validity, disk, changes>>

EncodeCSRAttrs ==
    /\ step = "csrattrs"
    /\ Goto(IF config.attrs THEN "listening" ELSE "exited")
    /\ UNCHANGED <<config, statted, read, validity, disk, changes>>

\* Somebody replaces or removes a file.
ChangeFile ==
    /\ step \notin {"listening", "exited"}
    /\ changes < MaxChanges
    /\ changes' = changes + 1
    /\ \E f \in DOMAIN disk, d \in {"good", "bad", "gone"} : disk' = [disk EXCEPT ![f] = d]
    /\ UNCHANGED <<step, config, statted, read, validity>>

Next ==
    \/ Load \/ ValidateFields \/ Stat \/ BuildBackend \/ OpenStore
    \/ BuildTLSConfig \/ EncodeCSRAttrs \/ ChangeFile

Spec == Init /\ [][Next]_vars

-----------------------------------------------------------------------------

\* config.go 184-188: a process that listens has read everything a request
\* will need from files that made sense, and has found the other files its
\* backend names to be there, whatever changed on disk meanwhile.
ListeningIsReady ==
    step = "listening" =>
        /\ config.backend \in Backends
        /\ FilesOf(config) \subseteq statted
        /\ Common \subseteq read
        /\ config.backend = "local" => {"ca_cert_file", "ca_key_file"} \subseteq read
        /\ config.backend = "openssl" => "ca_cert_file" \in read
        /\ config.backend = "ejbca" => {"client_cert_file", "client_key_file"} \subseteq read

\* README.md 60-61: no file of another backend is ever looked at: the CA's
\* private key under "openssl" and "ejbca", and its certificate under "ejbca",
\* although the fields may be set and the files be there.
KeyStaysOut ==
    config # None =>
        /\ config.backend \in {"openssl", "ejbca"} => "ca_key_file" \notin read \cup statted
        /\ config.backend = "ejbca" => "ca_cert_file" \notin read \cup statted

\* README.md 65: cert_validity is the validity of every issued certificate.
ValidityIsConfigured ==
    step = "listening" => validity = "cert_validity"
=============================================================================
