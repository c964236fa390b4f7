-------------------------------- MODULE Setup --------------------------------
(***************************************************************************)
(* Setting up a relay: "local init" and "configure" write the embedded     *)
(* certificate, its key and the configuration, "serve" reads them.  All    *)
(* are processes that run side by side on the same files; each step below  *)
(* is one call to the file system, a call may fail, and a process may be   *)
(* killed between two of them.                                             *)
(*                                                                         *)
(* A key and a certificate are known by the generation that made them.     *)
(* What the disk loses with the power is not modelled.                     *)
(***************************************************************************)
EXTENDS Naturals, FiniteSets

CONSTANTS
  Processes,    \* processes of the command line
  Generations,  \* key pairs that can be generated; bounds the creations
  Hosts,        \* values of -internal-listen-host
  Ports,        \* values that parsePort accepts
  Crashes,      \* whether a process can be killed
  Absent, Partial

\* The hosts that the code tells apart; "padded" is a loopback address with
\* spaces around it.
HostKinds == {"", "blank", "loopback", "padded", "public"}

MaxPort == 65535

\* A file of the pair: opened for writing, then whole.
PairFile == [gen : Generations, whole : BOOLEAN]

Config == [host : HostKinds, port : Nat, listenPort : Nat, tls : BOOLEAN]

Points ==
  {"idle", "stat", "openKey", "writeKey", "openCert", "writeCert",
   "closeCert", "removeKey", "validate", "save", "write", "info", "serving"}

\* What the properties make exceptions for: a process was killed, Close failed
\* on a certificate that was written, os.Remove failed.
Mishaps == {"kill", "close", "remove"}

ASSUME SetupConstants ==
  /\ Hosts \subseteq HostKinds /\ Ports \subseteq 0 .. MaxPort
  /\ Absent \notin PairFile \cup Config \cup Generations
  /\ Partial \notin Config
  /\ Absent # Partial
  /\ Crashes \in BOOLEAN

VARIABLES
  key, cert,   \* the files of the pair
  config,      \* the configuration file; Partial while it is truncated
  pc,
  flags,       \* the configuration that a process is about to save
  gen,         \* the pair that a process has generated
  sawCert,     \* what fileExists(certPath) said
  used,        \* the generations so far
  reported,    \* history: the fingerprints that "local init" has printed
  mishaps      \* history: the mishaps so far

setupVars ==
  <<key, cert, config, pc, flags, gen, sawCert, used, reported, mishaps>>

SetupTypeOK ==
  /\ key \in PairFile \cup {Absent}
  /\ cert \in PairFile \cup {Absent}
  /\ config \in Config \cup {Absent, Partial}
  /\ pc \in [Processes -> Points]
  /\ flags \in [Processes -> Config \cup {Absent}]
  /\ gen \in [Processes -> Generations \cup {Absent}]
  /\ sawCert \in [Processes -> BOOLEAN]
  /\ used \subseteq Generations
  /\ reported \subseteq Generations
  /\ mishaps \subseteq Mishaps

SetupInit ==
  /\ key = Absent /\ cert = Absent /\ config = Absent
  /\ pc = [p \in Processes |-> "idle"]
  /\ flags = [p \in Processes |-> Absent]
  /\ gen = [p \in Processes |-> Absent]
  /\ sawCert = [p \in Processes |-> FALSE]
  /\ used = {} /\ reported = {} /\ mishaps = {}

pair == <<key, cert>>

process == <<flags, gen, sawCert>>

history == <<used, reported, mishaps>>

Goto(p, point) == pc' = [pc EXCEPT ![p] = point]

\* The command returns, with or without success.
Exit(p) ==
  /\ pc' = [pc EXCEPT ![p] = "idle"]
  /\ flags' = [flags EXCEPT ![p] = Absent]
  /\ gen' = [gen EXCEPT ![p] = Absent]
  /\ sawCert' = [sawCert EXCEPT ![p] = FALSE]

-----------------------------------------------------------------------------
(* Validation *)

\* strings.TrimSpace
Trim(host) ==
  CASE host = "blank" -> ""
    [] host = "padded" -> "loopback"
    [] OTHER -> host

\* config.ValidateInternalListener
ValidateInternalListener(c) ==
  \/ Trim(c.host) = "" /\ c.port = 0
  \/ /\ Trim(c.host) # ""
     /\ c.port > 0 /\ c.port <= MaxPort
     /\ Trim(c.host) = "loopback"
     /\ c.port # c.listenPort

\* security.ValidateTLSCertificatePair, and what LoadX509KeyPair accepts
ValidPair ==
  /\ key # Absent /\ cert # Absent
  /\ key.whole /\ cert.whole
  /\ key.gen = cert.gen

\* What "local init" asks of its flags.
InitAccepts(c, embedded) ==
  /\ ValidateInternalListener(c)
  /\ c.host # "" \/ c.port # 0 => embedded

\* What Serve asks of its configuration: the pair loads, the internal
\* listener is valid and has TLS, and net.Listen takes its host, untrimmed.
ServeAccepts(c) ==
  /\ c.tls => ValidPair
  /\ ValidateInternalListener(c)
  /\ c.host # "" => c.tls
  /\ c.host # "" /\ c.port # 0 => c.host = Trim(c.host)

-----------------------------------------------------------------------------
(* local init, configure *)

MutSaveFirst(p, host, port, listenPort, embedded) ==
  LET c == [host |-> host, port |-> port, listenPort |-> listenPort,
            tls |-> embedded]
  IN /\ pc[p] = "idle"
     /\ InitAccepts(c, embedded)
     /\ flags' = [flags EXCEPT ![p] = c]
     /\ Goto(p, "save")
     /\ UNCHANGED <<pair, config, gen, sawCert, history>>

\* runLocalInit up to the first file that it touches.  It starts from the
\* default configuration, not from the one on disk.
RunLocalInit(p, host, port, listenPort, embedded) ==
  LET c == [host |-> host, port |-> port, listenPort |-> listenPort,
            tls |-> embedded]
  IN /\ pc[p] = "idle"
     /\ InitAccepts(c, embedded)
     /\ flags' = [flags EXCEPT ![p] = c]
     /\ IF embedded
        THEN /\ sawCert' = [sawCert EXCEPT ![p] = cert # Absent]
             /\ Goto(p, "stat")
        ELSE /\ Goto(p, "save")
             /\ UNCHANGED sawCert
     /\ UNCHANGED <<pair, config, gen, history>>

\* runConfigure knows neither an internal listener nor embedded TLS.
RunConfigure(p, listenPort) ==
  /\ pc[p] = "idle"
  /\ flags' = [flags EXCEPT ![p] =
       [host |-> "", port |-> 0, listenPort |-> listenPort, tls |-> FALSE]]
  /\ Goto(p, "save")
  /\ UNCHANGED <<pair, config, gen, sawCert, history>>

\* EnsureEmbeddedCertificate after the first of its two looks: one file
\* without the other is an error, both are validated, and if there is none
\* a pair is generated.
StatKey(p) ==
  /\ pc[p] = "stat"
  /\ \/ /\ sawCert[p] # (key # Absent)
        /\ Exit(p)
        /\ UNCHANGED history
     \/ /\ sawCert[p] /\ key # Absent
        /\ Goto(p, "validate")
        /\ UNCHANGED <<process, history>>
     \/ /\ ~sawCert[p] /\ key = Absent
        /\ \E g \in Generations \ used :
             /\ used' = used \cup {g}
             /\ gen' = [gen EXCEPT ![p] = g]
        /\ Goto(p, "openKey")
        /\ UNCHANGED <<flags, sawCert, reported, mishaps>>
  /\ UNCHANGED <<pair, config>>

MutRemoveOnConflict(p) ==
  /\ pc[p] = "openKey"
  /\ IF key = Absent
     THEN /\ key' = [gen |-> gen[p], whole |-> FALSE]
          /\ Goto(p, "writeKey")
     ELSE Goto(p, "removeKey") /\ UNCHANGED key
  /\ UNCHANGED <<cert, config, process, history>>

\* writeExclusive of the key: O_EXCL, then Write and Close.
OpenKey(p) ==
  /\ pc[p] = "openKey"
  /\ \/ /\ key = Absent
        /\ key' = [gen |-> gen[p], whole |-> FALSE]
        /\ Goto(p, "writeKey")
        /\ UNCHANGED process
     \/ Exit(p) /\ UNCHANGED key
  /\ UNCHANGED <<cert, config, history>>

\* When Write or Close fails the file is removed, and what Remove returns is
\* discarded: the key may stay, short or whole.  Without a certificate no
\* process tells a key that is written from one that is closed as well.
WriteKey(p) ==
  /\ pc[p] = "writeKey"
  /\ \/ /\ key' = [gen |-> gen[p], whole |-> TRUE]
        /\ Goto(p, "openCert")
        /\ UNCHANGED <<process, mishaps>>
     \/ /\ key' = Absent
        /\ Exit(p)
        /\ UNCHANGED mishaps
     \/ /\ \E written \in BOOLEAN :
             key' = [gen |-> gen[p], whole |-> written]
        /\ Exit(p)
        /\ mishaps' = mishaps \cup {"remove"}
  /\ UNCHANGED <<cert, config, used, reported>>

\* writeExclusive of the certificate; an error leads to Remove(keyPath).
OpenCert(p) ==
  /\ pc[p] = "openCert"
  /\ \/ /\ cert = Absent
        /\ cert' = [gen |-> gen[p], whole |-> FALSE]
        /\ Goto(p, "writeCert")
     \/ Goto(p, "removeKey") /\ UNCHANGED cert
  /\ UNCHANGED <<key, config, process, history>>

\* Remove(certPath) after the mishaps of the call before it.
RemoveCert(before) ==
  \/ cert' = Absent /\ mishaps' = mishaps \cup before
  \/ UNCHANGED cert /\ mishaps' = mishaps \cup before \cup {"remove"}

WriteCert(p) ==
  /\ pc[p] = "writeCert"
  /\ \/ /\ cert' = [gen |-> gen[p], whole |-> TRUE]
        /\ Goto(p, "closeCert")
        /\ UNCHANGED mishaps
     \/ /\ RemoveCert({})
        /\ Goto(p, "removeKey")
  /\ UNCHANGED <<key, config, process, used, reported>>

\* The pair is valid before the certificate is closed, and others may have
\* seen that when Close fails and both files are removed.
CloseCert(p) ==
  /\ pc[p] = "closeCert"
  /\ \/ /\ Goto(p, "validate")
        /\ UNCHANGED <<cert, mishaps>>
     \/ /\ RemoveCert({"close"})
        /\ Goto(p, "removeKey")
  /\ UNCHANGED <<key, config, process, used, reported>>

MutKeepKey(p) ==
  /\ pc[p] = "removeKey"
  /\ Exit(p)
  /\ UNCHANGED <<pair, config, history>>

\* os.Remove(keyPath), whose error is discarded.
RemoveKey(p) ==
  /\ pc[p] = "removeKey"
  /\ \/ key' = Absent /\ UNCHANGED mishaps
     \/ UNCHANGED key /\ mishaps' = mishaps \cup {"remove"}
  /\ Exit(p)
  /\ UNCHANGED <<cert, config, used, reported>>

\* The last call of EnsureEmbeddedCertificate, which returns.
Validate(p) ==
  /\ pc[p] = "validate"
  /\ \/ /\ ValidPair
        /\ Goto(p, "save")
        /\ gen' = [gen EXCEPT ![p] = Absent]
        /\ sawCert' = [sawCert EXCEPT ![p] = FALSE]
        /\ UNCHANGED flags
     \/ ~ValidPair /\ Exit(p)
  /\ UNCHANGED <<pair, config, history>>

\* config.Save: os.WriteFile truncates the file, then writes it.
TruncateConfig(p) ==
  /\ pc[p] = "save"
  /\ \/ /\ config' = Partial
        /\ Goto(p, "write")
        /\ UNCHANGED process
     \/ Exit(p) /\ UNCHANGED config
  /\ UNCHANGED <<pair, history>>

\* The file is opened at its start: when another process has written it
\* since, its text may show behind a shorter one and the file not parse.
WriteConfig(p) ==
  /\ pc[p] = "write"
  /\ \/ /\ config' = flags[p] \/ (config # Partial /\ config' = Partial)
        /\ Goto(p, "info")
        /\ UNCHANGED process
     \/ /\ config' = Partial
        /\ Exit(p)
  /\ UNCHANGED <<pair, history>>

MutReportHost(p) ==
  /\ pc[p] = "info"
  /\ Exit(p)
  /\ reported' = IF flags[p].tls /\ ValidPair
                 THEN reported \cup {flags[p].host} ELSE reported
  /\ UNCHANGED <<pair, config, used, mishaps>>

\* localInfoFromConfig reads the pair again for the fingerprint to print.
PrintInfo(p) ==
  /\ pc[p] = "info"
  /\ Exit(p)
  /\ reported' = IF flags[p].tls /\ ValidPair
                 THEN reported \cup {cert.gen} ELSE reported
  /\ UNCHANGED <<pair, config, used, mishaps>>

-----------------------------------------------------------------------------
(* serve *)

\* runServe: config.Load, then the checks of Serve.  A file that is absent
\* or truncated does not parse.
RunServe(p) ==
  /\ pc[p] = "idle"
  /\ config \notin {Absent, Partial}
  /\ ServeAccepts(config)
  /\ Goto(p, "serving")
  /\ UNCHANGED <<pair, config, process, history>>

Stop(p) ==
  /\ pc[p] = "serving"
  /\ Exit(p)
  /\ UNCHANGED <<pair, config, history>>

Crash(p) ==
  /\ Crashes
  /\ pc[p] \notin {"idle", "serving"}
  /\ mishaps' = mishaps \cup {"kill"}
  /\ Exit(p)
  /\ UNCHANGED <<pair, config, used, reported>>

SetupNext ==
  \E p \in Processes :
    \/ \E host \in Hosts, port, listenPort \in Ports, embedded \in BOOLEAN :
         RunLocalInit(p, host, port, listenPort, embedded)
    \/ \E listenPort \in Ports : RunConfigure(p, listenPort)
    \/ StatKey(p) \/ OpenKey(p) \/ WriteKey(p)
    \/ OpenCert(p) \/ WriteCert(p) \/ CloseCert(p) \/ RemoveKey(p)
    \/ Validate(p)
    \/ TruncateConfig(p) \/ WriteConfig(p) \/ PrintInfo(p)
    \/ RunServe(p) \/ Stop(p)
    \/ Crash(p)

SetupSpec == SetupInit /\ [][SetupNext]_setupVars

-----------------------------------------------------------------------------
(* Properties *)

\* A configuration that the commands have written is one that Serve accepts:
\* its internal listener is valid and its pair is on the disk, in the order
\* in which "local init" writes the three files, whoever is killed meanwhile
\* and whatever Remove leaves behind.  There are two exceptions.  A loopback
\* address with spaces around it is trimmed for the validation, and saved and
\* listened on as it was given.  And if Close fails on a certificate that
\* another command has found valid, the pair that it relies on is removed.
SavedConfigStarts ==
  config \notin {Absent, Partial} /\ "close" \notin mishaps
    => ServeAccepts(config)

\* A fingerprint that was printed stays the one that the relay presents:
\* nobody removes or replaces the pair of a finished "local init", unless
\* Close failed on its certificate.
ReportedIsPresented ==
  "close" \notin mishaps
    => \A g \in reported : ValidPair /\ cert.gen = g

\* If Remove does not fail, a certificate is only ever there with the whole
\* key that it was made for, though several "local init" write the two files
\* at once and are killed; and when all commands have ended of themselves,
\* there is no pair or a valid one.  What a killed command or a failed Remove
\* leaves is not repaired: every later "local init" refuses half a pair.
NoHalfPairLeft ==
  "remove" \notin mishaps =>
    /\ cert # Absent => key # Absent /\ key.whole /\ key.gen = cert.gen
    /\ \/ "kill" \in mishaps
       \/ \E p \in Processes : pc[p] \notin {"idle", "serving"}
       \/ key = Absent /\ cert = Absent
       \/ ValidPair

=============================================================================
