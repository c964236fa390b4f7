---------------------------- MODULE CommandProofs ----------------------------
(***************************************************************************)
(* Theorems about the command line.                                        *)
(*                                                                         *)
(* Setup, for every number of processes and generations: the two files of  *)
(* the certificate pair belong together whoever writes them at once, a     *)
(* pair that is valid stays, and with it the configuration that names it   *)
(* and the fingerprint that was printed.                                   *)
(*                                                                         *)
(* TenantCommands and Directory, for every number of tenants, hosts,       *)
(* requests and commands: no secret is lost before it was printed, and an  *)
(* enrolment that was confirmed is the one that is stored.                 *)
(***************************************************************************)
EXTENDS Setup, TenantCommands, TLAPS

\* The leaves go to Zenon; the ones that need more name their prover.
USE Zenon

-----------------------------------------------------------------------------
(* Setup: types *)

LEMMA TypesInit == SetupInit => SetupTypeOK
  BY DEF SetupInit, SetupTypeOK, Points

\* A file of the pair that p is writing.
LEMMA PairFileOf ==
  ASSUME NEW g \in Generations, NEW w \in BOOLEAN
  PROVE  [gen |-> g, whole |-> w] \in PairFile
  BY DEF PairFile

LEMMA FlagTypes ==
  Hosts \subseteq HostKinds /\ Ports \subseteq Nat /\ 0 \in Nat /\ "" \in HostKinds
<1>1. 0 .. MaxPort \subseteq Nat
  BY SMT
<1>2. QED
  BY <1>1, SetupConstants DEF HostKinds

\* The commands that write files have generated a pair before.
Generated(p) ==
  pc[p] \in {"openKey", "writeKey", "openCert", "writeCert", "closeCert"}
    => gen[p] \in Generations

\* The commands that save a configuration have made it from their flags.
Configured(p) ==
  pc[p] \notin {"idle", "serving"} => flags[p] \in Config

Typed == SetupTypeOK /\ \A p \in Processes : Generated(p) /\ Configured(p)

\* The steps of one command.
Step(p) ==
  \/ \E host \in Hosts, port, listenPort \in Ports, embedded \in BOOLEAN :
       RunLocalInit(p, host, port, listenPort, embedded)
  \/ \E listenPort \in Ports : RunConfigure(p, listenPort)
  \/ StatKey(p) \/ OpenKey(p) \/ WriteKey(p)
  \/ OpenCert(p) \/ WriteCert(p) \/ CloseCert(p) \/ RemoveKey(p)
  \/ Validate(p)
  \/ TruncateConfig(p) \/ WriteConfig(p) \/ PrintInfo(p)
  \/ RunServe(p) \/ Stop(p)
  \/ Crash(p)

LEMMA NextIsStep == SetupNext => \E p \in Processes : Step(p)
  BY DEF SetupNext, Step

\* A step of a command leaves what belongs to the others.
LEMMA OthersKept ==
  ASSUME SetupTypeOK, NEW p \in Processes, Step(p), NEW q \in Processes, q # p
  PROVE  pc'[q] = pc[q] /\ flags'[q] = flags[q] /\ gen'[q] = gen[q]
<1> USE DEF SetupTypeOK, Goto, Exit, process
<1>1. pc'[q] = pc[q]
  BY DEF Step, RunLocalInit, RunConfigure, StatKey, OpenKey, WriteKey, OpenCert,
       WriteCert, CloseCert, RemoveKey, Validate, TruncateConfig, WriteConfig, PrintInfo,
       RunServe, Stop, Crash
<1>2. flags'[q] = flags[q]
  BY DEF Step, RunLocalInit, RunConfigure, StatKey, OpenKey, WriteKey, OpenCert,
       WriteCert, CloseCert, RemoveKey, Validate, TruncateConfig, WriteConfig, PrintInfo,
       RunServe, Stop, Crash
<1>3. gen'[q] = gen[q]
  BY DEF Step, RunLocalInit, RunConfigure, StatKey, OpenKey, WriteKey, OpenCert,
       WriteCert, CloseCert, RemoveKey, Validate, TruncateConfig, WriteConfig, PrintInfo,
       RunServe, Stop, Crash
<1>4. QED
  BY <1>1, <1>2, <1>3

\* The types of what belongs to the command that takes the step.
OwnTypes(p) ==
  /\ pc \in [Processes -> Points]
  /\ flags \in [Processes -> Config \cup {Absent}]
  /\ gen \in [Processes -> Generations \cup {Absent}]
  /\ sawCert \in [Processes -> BOOLEAN]
  /\ Generated(p) /\ Configured(p)

\* A command that begins has made its configuration.
LEMMA BegunTypes ==
  ASSUME Typed, NEW p \in Processes, NEW c \in Config,
         NEW point \in {"stat", "save"},
         flags' = [flags EXCEPT ![p] = c], pc' = [pc EXCEPT ![p] = point],
         gen' = gen, sawCert' \in [Processes -> BOOLEAN]
  PROVE  OwnTypes(p)'
<1>1. /\ pc \in [Processes -> Points]
      /\ flags \in [Processes -> Config \cup {Absent}]
      /\ gen \in [Processes -> Generations \cup {Absent}]
  BY DEF Typed, SetupTypeOK
<1>2. pc' \in [Processes -> Points] /\ pc'[p] \in {"stat", "save"}
  BY <1>1 DEF Points
<1>3. flags' \in [Processes -> Config \cup {Absent}] /\ flags'[p] \in Config
  BY <1>1
<1>4. QED
  BY <1>1, <1>2, <1>3 DEF OwnTypes, Generated, Configured

LEMMA OwnTypesStep ==
  ASSUME Typed, NEW p \in Processes, Step(p)
  PROVE  OwnTypes(p)'
<1> USE DEF Typed, SetupTypeOK, OwnTypes, Generated, Configured, Goto, Exit, Points,
            process
<1>1. ASSUME NEW host \in Hosts, NEW port \in Ports, NEW listenPort \in Ports,
             NEW embedded \in BOOLEAN,
             RunLocalInit(p, host, port, listenPort, embedded)
      PROVE  OwnTypes(p)'
  <2>1. PICK c : c = [host |-> host, port |-> port, listenPort |-> listenPort,
                      tls |-> embedded]
    OBVIOUS
  <2>2. c \in Config
    BY <2>1, FlagTypes DEF Config
  <2>3. flags' = [flags EXCEPT ![p] = c]
    BY <1>1, <2>1 DEF RunLocalInit
  <2>4. /\ gen' = gen /\ sawCert' \in [Processes -> BOOLEAN]
        /\ \E point \in {"stat", "save"} : pc' = [pc EXCEPT ![p] = point]
    BY <1>1 DEF RunLocalInit
  <2>5. QED
    BY <2>2, <2>3, <2>4, BegunTypes
<1>2. ASSUME NEW listenPort \in Ports, RunConfigure(p, listenPort)
      PROVE  OwnTypes(p)'
  <2>1. PICK c : c = [host |-> "", port |-> 0, listenPort |-> listenPort,
                      tls |-> FALSE]
    OBVIOUS
  <2>2. c \in Config
    BY <2>1, FlagTypes DEF Config
  <2>3. flags' = [flags EXCEPT ![p] = c]
    BY <1>2, <2>1 DEF RunConfigure
  <2>4. /\ gen' = gen /\ sawCert' \in [Processes -> BOOLEAN]
        /\ pc' = [pc EXCEPT ![p] = "save"]
    BY <1>2 DEF RunConfigure
  <2>5. QED
    BY <2>2, <2>3, <2>4, BegunTypes
<1>3. CASE StatKey(p)
  <2>0. pc' \in [Processes -> Points]
    BY <1>3 DEF StatKey
  <2>1. /\ flags' = flags \/ flags' = [flags EXCEPT ![p] = Absent]
        /\ sawCert' = sawCert \/ sawCert' = [sawCert EXCEPT ![p] = FALSE]
        /\ gen' = gen \/ \E g \in Generations \cup {Absent} :
                           gen' = [gen EXCEPT ![p] = g]
    BY <1>3 DEF StatKey
  <2>2. pc'[p] = "openKey" => gen'[p] \in Generations
    BY <1>3 DEF StatKey
  <2>3. pc'[p] \in {"idle", "validate", "openKey"}
    BY <1>3 DEF StatKey
  <2>4. pc'[p] # "idle" => flags'[p] \in Config
    BY <1>3 DEF StatKey
  <2>5. QED
    BY ZenonT(40), <2>0, <2>1, <2>2, <2>3, <2>4
<1>4. CASE OpenKey(p) \/ WriteKey(p)
  BY <1>4 DEF OpenKey, WriteKey
<1>5. CASE OpenCert(p) \/ WriteCert(p) \/ CloseCert(p) \/ RemoveKey(p)
  BY <1>5 DEF OpenCert, WriteCert, CloseCert, RemoveKey
<1>6. CASE Validate(p) \/ TruncateConfig(p) \/ WriteConfig(p) \/ PrintInfo(p)
  BY ZenonT(40), <1>6 DEF Validate, TruncateConfig, WriteConfig, PrintInfo
<1>7. CASE RunServe(p) \/ Stop(p) \/ Crash(p)
  BY ZenonT(40), <1>7 DEF RunServe, Stop, Crash
<1>8. QED
  BY <1>1, <1>2, <1>3, <1>4, <1>5, <1>6, <1>7 DEF Step

\* The types of the files and of what the commands have done so far.
FileTypes ==
  /\ key \in PairFile \cup {Absent}
  /\ cert \in PairFile \cup {Absent}
  /\ config \in Config \cup {Absent, Partial}
  /\ used \subseteq Generations
  /\ reported \subseteq Generations
  /\ mishaps \subseteq Mishaps

LEMMA FileTypesStep ==
  ASSUME Typed, NEW p \in Processes, Step(p)
  PROVE  FileTypes'
<1> USE DEF FileTypes, pair, history, Mishaps
<1>   FileTypes /\ Generated(p) /\ Configured(p)
  BY DEF Typed, SetupTypeOK
<1>1. ASSUME NEW host \in Hosts, NEW port \in Ports, NEW listenPort \in Ports,
             NEW embedded \in BOOLEAN,
             RunLocalInit(p, host, port, listenPort, embedded)
      PROVE  FileTypes'
  BY <1>1 DEF RunLocalInit
<1>2. ASSUME NEW listenPort \in Ports, RunConfigure(p, listenPort)
      PROVE  FileTypes'
  BY <1>2 DEF RunConfigure
<1>3. CASE StatKey(p)
  BY <1>3 DEF StatKey
<1>4. CASE OpenKey(p) \/ WriteKey(p)
  <2>1. gen[p] \in Generations
    BY <1>4 DEF OpenKey, WriteKey, Generated
  <2>2. key' \in PairFile \cup {Absent}
    BY <1>4, <2>1, PairFileOf DEF OpenKey, WriteKey
  <2>3. QED
    BY <1>4, <2>2 DEF OpenKey, WriteKey
<1>5. CASE OpenCert(p) \/ WriteCert(p) \/ CloseCert(p)
  <2>1. gen[p] \in Generations
    BY <1>5 DEF OpenCert, WriteCert, CloseCert, Generated
  <2>2. cert' \in PairFile \cup {Absent}
    BY <1>5, <2>1, PairFileOf DEF OpenCert, WriteCert, CloseCert, RemoveCert
  <2>3. QED
    BY <1>5, <2>2 DEF OpenCert, WriteCert, CloseCert, RemoveCert
<1>6. CASE RemoveKey(p) \/ Validate(p)
  BY <1>6 DEF RemoveKey, Validate
<1>7. CASE TruncateConfig(p) \/ WriteConfig(p)
  <2>1. config' \in Config \cup {Absent, Partial}
    BY <1>7 DEF TruncateConfig, WriteConfig, Configured
  <2>2. QED
    BY <1>7, <2>1 DEF TruncateConfig, WriteConfig
<1>8. CASE PrintInfo(p)
  <2>1. ValidPair => cert.gen \in Generations
    BY DEF ValidPair, PairFile
  <2>2. QED
    BY <1>8, <2>1 DEF PrintInfo
<1>9. CASE RunServe(p) \/ Stop(p)
  BY <1>9 DEF RunServe, Stop
<1>10. CASE Crash(p)
  BY <1>10 DEF Crash
<1>11. QED
  BY <1>1, <1>2, <1>3, <1>4, <1>5, <1>6, <1>7, <1>8, <1>9, <1>10 DEF Step

LEMMA TypedInit == SetupInit => Typed
  BY TypesInit DEF SetupInit, Typed, Generated, Configured

LEMMA TypedStep == Typed /\ [SetupNext]_setupVars => Typed'
<1> SUFFICES ASSUME Typed, [SetupNext]_setupVars
             PROVE  Typed'
  OBVIOUS
<1>1. ASSUME NEW p \in Processes, Step(p)
      PROVE  Typed'
  <2>1. OwnTypes(p)' /\ FileTypes'
    BY <1>1, OwnTypesStep, FileTypesStep
  <2>2. SetupTypeOK'
    BY <2>1 DEF OwnTypes, FileTypes, SetupTypeOK
  <2>3. ASSUME NEW q \in Processes
        PROVE  Generated(q)' /\ Configured(q)'
    <3>1. CASE q = p
      BY <2>1, <3>1 DEF OwnTypes
    <3>2. CASE q # p
      <4>1. pc'[q] = pc[q] /\ flags'[q] = flags[q] /\ gen'[q] = gen[q]
        BY <1>1, <3>2, OthersKept DEF Typed
      <4>2. QED
        BY <4>1 DEF Typed, Generated, Configured
    <3>3. QED
      BY <3>1, <3>2
  <2>4. QED
    BY <2>2, <2>3 DEF Typed
<1>2. CASE UNCHANGED setupVars
  BY <1>2 DEF setupVars, Typed, SetupTypeOK, Generated, Configured
<1>3. QED
  BY <1>1, <1>2, NextIsStep

\* Every variable keeps its type: no command saves a configuration that it
\* has not built, or writes a pair that it has not generated.
THEOREM SetupTypeCorrect == SetupSpec => []SetupTypeOK
<1>1. Typed => SetupTypeOK
  BY DEF Typed
<1>2. QED
  BY <1>1, TypedInit, TypedStep, PTL DEF SetupSpec

-----------------------------------------------------------------------------
(* Setup: the pair *)

\* p has created the key file and not finished with it yet.
Owner(p) ==
  pc[p] \in {"writeKey", "openCert", "writeCert", "closeCert", "removeKey"}

\* There is no certificate, or a Remove has failed to remove it; and it is not
\* whole, unless Close has failed on it.
NoCert ==
  /\ "remove" \notin mishaps => cert = Absent
  /\ "close" \notin mishaps => cert = Absent \/ ~cert.whole

\* What holds of the two files while p writes them.
OwnerOK(p) ==
  /\ Owner(p) => key # Absent /\ key.gen = gen[p]
  /\ pc[p] \in {"openCert", "writeCert", "closeCert", "removeKey"} => key.whole
  /\ pc[p] \in {"writeKey", "openCert", "removeKey"} => NoCert
  /\ pc[p] = "writeCert" => cert # Absent /\ cert.gen = gen[p] /\ ~cert.whole
  /\ pc[p] = "closeCert" => cert # Absent /\ cert.gen = gen[p] /\ cert.whole

\* A certificate is only there with the whole key that it was made for, unless
\* a Remove has failed; and a whole certificate, unless Close has failed.
CertOK ==
  cert # Absent /\ ("remove" \notin mishaps \/ ("close" \notin mishaps /\ cert.whole))
    => key # Absent /\ key.whole /\ key.gen = cert.gen

\* One process at most is writing the files.
PairInv ==
  /\ \A p \in Processes : OwnerOK(p)
  /\ \A p, q \in Processes : Owner(p) /\ Owner(q) => p = q
  /\ CertOK

LEMMA PairInit == SetupInit => PairInv
  BY DEF SetupInit, PairInv, OwnerOK, Owner, CertOK

\* Nothing is forgotten of what went wrong.
LEMMA MishapsStay ==
  ASSUME NEW p \in Processes, Step(p)
  PROVE  mishaps \subseteq mishaps'
  BY DEF Step, RunLocalInit, RunConfigure, StatKey, OpenKey, WriteKey, OpenCert,
       WriteCert, CloseCert, RemoveCert, RemoveKey, Validate, TruncateConfig,
       WriteConfig, PrintInfo, RunServe, Stop, Crash, history

\* The calls that do not touch the pair are not made by who owns it, or end
\* the command.
LEMMA QuietStep ==
  ASSUME SetupTypeOK, NEW p \in Processes, Step(p),
         ~OpenKey(p), ~WriteKey(p), ~OpenCert(p), ~WriteCert(p), ~CloseCert(p),
         ~RemoveKey(p)
  PROVE  key' = key /\ cert' = cert /\ ~Owner(p)'
<1>1. key' = key /\ cert' = cert
  BY DEF Step, RunLocalInit, RunConfigure, StatKey, Validate, TruncateConfig,
       WriteConfig, PrintInfo, RunServe, Stop, Crash, pair
<1>2. pc'[p] \in {"idle", "stat", "openKey", "validate", "save", "write", "info",
                  "serving"}
  BY DEF SetupTypeOK, Goto, Exit, Step, RunLocalInit, RunConfigure, StatKey, Validate,
       TruncateConfig, WriteConfig, PrintInfo, RunServe, Stop, Crash
<1>3. QED
  BY <1>1, <1>2 DEF Owner

\* What the command that takes the step may do to the pair: only its owner
\* changes the files, and it leaves them as the next call expects them.
PairMoves(p) ==
  /\ OwnerOK(p)'
  /\ CertOK'
  /\ \/ key' = key /\ cert' = cert /\ (Owner(p)' => Owner(p))
     \/ \A q \in Processes \ {p} : ~Owner(q)

LEMMA OwnerMoves ==
  ASSUME Typed, PairInv, NEW p \in Processes, Step(p)
  PROVE  PairMoves(p)
<1> USE DEF SetupTypeOK, Goto, Exit, process
<1>   SetupTypeOK /\ OwnerOK(p) /\ Generated(p) /\ CertOK
  BY DEF Typed, PairInv
<1>a. ASSUME NEW g \in Generations, NEW w \in BOOLEAN, NEW f,
             f = [gen |-> g, whole |-> w]
      PROVE  f # Absent /\ f.gen = g /\ f.whole = w
  BY <1>a, PairFileOf, SetupConstants
<1>b. mishaps \subseteq mishaps'
  BY MishapsStay
<1>c. ASSUME NoCert, cert' = cert
      PROVE  NoCert' /\ CertOK'
  BY <1>b, <1>c DEF NoCert, CertOK
<1>d. ASSUME cert' = Absent
      PROVE  NoCert' /\ CertOK'
  BY <1>d DEF NoCert, CertOK
<1>   Owner(p) => \A q \in Processes \ {p} : ~Owner(q)
  BY DEF PairInv
<1>1. CASE OpenKey(p)
  <2>1. gen[p] \in Generations /\ cert' = cert
    BY <1>1 DEF OpenKey, Generated
  <2>2. CASE pc'[p] = "idle"
    <3>1. key' = key
      BY <1>1, <2>2 DEF OpenKey
    <3>2. CertOK'
      BY <1>b, <2>1, <3>1 DEF CertOK
    <3>3. QED
      BY <2>1, <2>2, <3>1, <3>2 DEF PairMoves, OwnerOK, Owner
  <2>3. CASE pc'[p] # "idle"
    <3>1. /\ key = Absent /\ key' = [gen |-> gen[p], whole |-> FALSE]
          /\ gen' = gen /\ pc'[p] = "writeKey"
      BY <1>1, <2>3 DEF OpenKey
    <3>2. key' # Absent /\ key'.gen = gen[p]
      BY <1>a, <2>1, <3>1
    <3>3. NoCert' /\ CertOK'
      BY <1>c, <2>1, <3>1 DEF CertOK, NoCert
    <3>4. \A q \in Processes : ~Owner(q)
      BY <3>1 DEF PairInv, OwnerOK
    <3>5. QED
      BY <3>1, <3>2, <3>3, <3>4 DEF PairMoves, OwnerOK
  <2>4. QED
    BY <2>2, <2>3
<1>2. CASE WriteKey(p)
  <2>1. gen[p] \in Generations /\ Owner(p) /\ NoCert /\ cert' = cert
    BY <1>2 DEF WriteKey, Generated, Owner, OwnerOK
  <2>2. NoCert' /\ CertOK'
    BY <1>c, <2>1
  <2>3. CASE pc'[p] = "idle"
    BY <2>1, <2>2, <2>3 DEF PairMoves, OwnerOK, Owner
  <2>4. CASE pc'[p] # "idle"
    <3>1. /\ key' = [gen |-> gen[p], whole |-> TRUE]
          /\ gen' = gen /\ pc'[p] = "openCert"
      BY <1>2, <2>4 DEF WriteKey
    <3>2. key' # Absent /\ key'.gen = gen[p] /\ key'.whole = TRUE
      BY <1>a, <2>1, <3>1
    <3>3. QED
      BY <2>1, <2>2, <3>1, <3>2 DEF PairMoves, OwnerOK
  <2>5. QED
    BY <2>3, <2>4
<1>3. CASE OpenCert(p)
  <2>1. /\ gen[p] \in Generations /\ Owner(p) /\ NoCert
        /\ key' = key /\ gen' = gen /\ key # Absent /\ key.gen = gen[p] /\ key.whole
    BY <1>3 DEF OpenCert, Generated, Owner, OwnerOK
  <2>2. CASE pc'[p] = "removeKey"
    <3>1. cert' = cert
      BY <1>3, <2>2 DEF OpenCert
    <3>2. QED
      BY <1>c, <2>1, <2>2, <3>1 DEF PairMoves, OwnerOK
  <2>3. CASE pc'[p] # "removeKey"
    <3>1. cert' = [gen |-> gen[p], whole |-> FALSE] /\ pc'[p] = "writeCert"
      BY <1>3, <2>3 DEF OpenCert
    <3>2. cert' # Absent /\ cert'.gen = gen[p] /\ cert'.whole = FALSE
      BY <1>a, <2>1, <3>1
    <3>3. QED
      BY <2>1, <3>1, <3>2 DEF PairMoves, OwnerOK, CertOK
  <2>4. QED
    BY <2>2, <2>3
<1>4. CASE WriteCert(p)
  <2>1. /\ gen[p] \in Generations /\ Owner(p) /\ ~cert.whole
        /\ key' = key /\ gen' = gen /\ key # Absent /\ key.gen = gen[p] /\ key.whole
    BY <1>4 DEF WriteCert, Generated, Owner, OwnerOK
  <2>2. CASE pc'[p] = "removeKey"
    <3>1. cert' = Absent \/ (cert' = cert /\ "remove" \in mishaps')
      BY <1>4, <2>2 DEF WriteCert, RemoveCert
    <3>2. NoCert' /\ CertOK'
      BY <1>d, <2>1, <3>1 DEF NoCert, CertOK
    <3>3. QED
      BY <2>1, <2>2, <3>2 DEF PairMoves, OwnerOK
  <2>3. CASE pc'[p] # "removeKey"
    <3>1. cert' = [gen |-> gen[p], whole |-> TRUE] /\ pc'[p] = "closeCert"
      BY <1>4, <2>3 DEF WriteCert
    <3>2. cert' # Absent /\ cert'.gen = gen[p] /\ cert'.whole = TRUE
      BY <1>a, <2>1, <3>1
    <3>3. QED
      BY <2>1, <3>1, <3>2 DEF PairMoves, OwnerOK, CertOK
  <2>4. QED
    BY <2>2, <2>3
<1>5. CASE CloseCert(p)
  <2>1. /\ Owner(p) /\ cert.gen = gen[p]
        /\ key' = key /\ gen' = gen /\ key # Absent /\ key.gen = gen[p] /\ key.whole
    BY <1>5 DEF CloseCert, Owner, OwnerOK
  <2>2. CASE pc'[p] = "removeKey"
    <3>1. "close" \in mishaps' /\ (cert' = Absent \/ (cert' = cert /\ "remove" \in mishaps'))
      BY <1>5, <2>2 DEF CloseCert, RemoveCert
    <3>2. NoCert' /\ CertOK'
      BY <1>d, <3>1 DEF NoCert, CertOK
    <3>3. QED
      BY <2>1, <2>2, <3>2 DEF PairMoves, OwnerOK
  <2>3. CASE pc'[p] # "removeKey"
    <3>1. cert' = cert /\ pc'[p] = "validate"
      BY <1>5, <2>3 DEF CloseCert
    <3>2. QED
      BY <2>1, <3>1 DEF PairMoves, OwnerOK, Owner, CertOK
  <2>4. QED
    BY <2>2, <2>3
<1>6. CASE RemoveKey(p)
  <2>1. Owner(p) /\ NoCert /\ cert' = cert /\ pc'[p] = "idle"
    BY <1>6 DEF RemoveKey, Owner, OwnerOK
  <2>2. QED
    BY <1>c, <2>1 DEF PairMoves, OwnerOK, Owner
<1>7. CASE ~OpenKey(p) /\ ~WriteKey(p) /\ ~OpenCert(p) /\ ~WriteCert(p)
           /\ ~CloseCert(p) /\ ~RemoveKey(p)
  <2>1. key' = key /\ cert' = cert /\ ~Owner(p)'
    BY <1>7, QuietStep
  <2>2. CertOK'
    BY <1>b, <2>1 DEF CertOK
  <2>3. QED
    BY <2>1, <2>2 DEF PairMoves, OwnerOK, Owner
<1>8. QED
  BY <1>1, <1>2, <1>3, <1>4, <1>5, <1>6, <1>7

LEMMA PairStep == Typed /\ PairInv /\ [SetupNext]_setupVars => PairInv'
<1> SUFFICES ASSUME Typed, PairInv, [SetupNext]_setupVars
             PROVE  PairInv'
  OBVIOUS
<1>1. ASSUME NEW p \in Processes, Step(p)
      PROVE  PairInv'
  <2>1. PairMoves(p)
    BY <1>1, OwnerMoves
  <2>2. \A q \in Processes \ {p} : pc'[q] = pc[q] /\ gen'[q] = gen[q]
    BY <1>1, OthersKept DEF Typed
  <2>3. \A q \in Processes \ {p} : Owner(q)' = Owner(q)
    BY <2>2 DEF Owner
  <2>4. \A q \in Processes \ {p} : OwnerOK(q)'
    <3>1. CASE key' = key /\ cert' = cert
      <4>1. NoCert => NoCert'
        BY <1>1, <3>1, MishapsStay DEF NoCert
      <4>2. QED
        BY <2>2, <3>1, <4>1 DEF PairInv, OwnerOK, Owner
    <3>2. CASE \A q \in Processes \ {p} : ~Owner(q)
      BY <2>2, <3>2 DEF OwnerOK, Owner
    <3>3. QED
      BY <2>1, <3>1, <3>2 DEF PairMoves
  <2>5. ASSUME NEW q \in Processes, NEW r \in Processes, Owner(q)', Owner(r)'
        PROVE  q = r
    <3>1. CASE Owner(p)' => Owner(p)
      <4>1. Owner(q) /\ Owner(r)
        BY <2>3, <2>5, <3>1
      <4>2. QED
        BY <4>1 DEF PairInv
    <3>2. CASE \A s \in Processes \ {p} : ~Owner(s)
      BY <2>3, <2>5, <3>2
    <3>3. QED
      BY <2>1, <3>1, <3>2 DEF PairMoves
  <2>6. QED
    BY <2>1, <2>4, <2>5 DEF PairMoves, PairInv
<1>2. CASE UNCHANGED setupVars
  BY <1>2 DEF setupVars, PairInv, OwnerOK, Owner, NoCert, CertOK
<1>3. QED
  BY <1>1, <1>2, NextIsStep

\* The owner of a valid pair has only to close the certificate, so the pair
\* stays unless that fails.
LEMMA ValidPairStays ==
  ASSUME Typed, PairInv, [SetupNext]_setupVars, ValidPair, "close" \notin mishaps'
  PROVE  key' = key /\ cert' = cert
<1>1. ASSUME NEW p \in Processes, Step(p)
      PROVE  key' = key /\ cert' = cert
  <2>1. OwnerOK(p) /\ key # Absent /\ cert # Absent /\ cert.whole
    BY DEF ValidPair, PairInv
  <2>2. "close" \notin mishaps
    BY <1>1, MishapsStay
  <2>3. pc[p] \notin {"writeKey", "openCert", "writeCert", "removeKey"}
    BY <2>1, <2>2 DEF OwnerOK, NoCert
  <2>4. ~WriteKey(p) /\ ~OpenCert(p) /\ ~WriteCert(p) /\ ~RemoveKey(p)
    BY <2>3 DEF WriteKey, OpenCert, WriteCert, RemoveKey
  <2>5. CASE OpenKey(p)
    BY <2>1, <2>5 DEF OpenKey
  <2>6. CASE CloseCert(p)
    BY <2>6 DEF CloseCert, RemoveCert
  <2>7. CASE ~OpenKey(p) /\ ~CloseCert(p)
    BY <1>1, <2>4, <2>7, QuietStep DEF Typed
  <2>8. QED
    BY <2>5, <2>6, <2>7
<1>2. CASE UNCHANGED setupVars
  BY <1>2 DEF setupVars
<1>3. QED
  BY <1>1, <1>2, NextIsStep

-----------------------------------------------------------------------------
(* Setup: the fingerprint *)

LEMMA OnlyPrintReports ==
  ASSUME NEW p \in Processes, Step(p)
  PROVE  \/ reported' = reported
         \/ ValidPair /\ reported' = reported \cup {cert.gen}
<1>1. CASE PrintInfo(p)
  BY <1>1 DEF PrintInfo
<1>2. CASE ~PrintInfo(p)
  BY <1>2 DEF Step, RunLocalInit, RunConfigure, StatKey, OpenKey, WriteKey,
       OpenCert, WriteCert, CloseCert, RemoveKey, Validate, TruncateConfig, WriteConfig,
       RunServe, Stop, Crash, history
<1>3. QED
  BY <1>1, <1>2

LEMMA ReportedStep ==
  Typed /\ PairInv /\ ReportedIsPresented /\ [SetupNext]_setupVars
    => ReportedIsPresented'
<1> SUFFICES ASSUME Typed, PairInv, ReportedIsPresented, [SetupNext]_setupVars,
                    "close" \notin mishaps', NEW g \in reported'
             PROVE  ValidPair' /\ cert'.gen = g
  BY DEF ReportedIsPresented
<1>1. \/ reported' = reported
      \/ ValidPair /\ reported' = reported \cup {cert.gen}
  BY OnlyPrintReports, NextIsStep DEF setupVars
<1>2. "close" \notin mishaps
  BY MishapsStay, NextIsStep DEF setupVars
<1>3. ValidPair /\ cert.gen = g
  BY <1>1, <1>2 DEF ReportedIsPresented
<1>4. key' = key /\ cert' = cert
  BY <1>3, ValidPairStays
<1>5. QED
  BY <1>3, <1>4 DEF ValidPair

\* Whatever commands run at once, are killed, or fail in any call but the Close
\* of a certificate, a fingerprint that "local init" has printed is that of the
\* pair on the disk from then on (EnsureEmbeddedCertificate writes with O_EXCL
\* and removes only its own).
THEOREM EveryReportIsPresented == SetupSpec => []ReportedIsPresented
<1>1. SetupInit => ReportedIsPresented
  BY DEF SetupInit, ReportedIsPresented
<1>2. QED
  BY <1>1, TypedInit, TypedStep, PairInit, PairStep, ReportedStep, PTL DEF SetupSpec

-----------------------------------------------------------------------------
(* Setup: what the commands leave behind *)

\* Every command so far has ended of itself and removed what it meant to.
Tidy == "kill" \notin mishaps /\ "remove" \notin mishaps

\* A key without a whole certificate has an owner.
LeftInv == key # Absent /\ ~ValidPair /\ Tidy => \E p \in Processes : Owner(p)

\* An owner that is not killed goes on to the next call, or removes what it
\* has written, or has made a valid pair.
LEMMA OwnerLeaves ==
  ASSUME Typed, PairInv, NEW p \in Processes, Step(p), Owner(p), Tidy'
  PROVE  Owner(p)' \/ key' = Absent \/ ValidPair'
<1> USE DEF Goto, Exit, Tidy
<1>   SetupTypeOK /\ OwnerOK(p)
  BY DEF Typed, PairInv
<1>1. CASE WriteKey(p)
  BY <1>1 DEF WriteKey, Owner, SetupTypeOK
<1>2. CASE OpenCert(p) \/ WriteCert(p)
  BY <1>2 DEF OpenCert, WriteCert, Owner, SetupTypeOK
<1>3. CASE CloseCert(p)
  <2>1. CASE pc'[p] = "removeKey"
    BY <2>1 DEF Owner
  <2>2. CASE pc'[p] # "removeKey"
    <3>1. key' = key /\ cert' = cert /\ ValidPair
      BY <1>3, <2>2 DEF CloseCert, Owner, OwnerOK, SetupTypeOK, ValidPair
    <3>2. QED
      BY <3>1 DEF ValidPair
  <2>3. QED
    BY <2>1, <2>2
<1>4. CASE RemoveKey(p)
  BY <1>4 DEF RemoveKey
<1>5. QED
  BY <1>1, <1>2, <1>3, <1>4
     DEF Owner, Step, RunLocalInit, RunConfigure, StatKey, OpenKey, Validate,
         TruncateConfig, WriteConfig, PrintInfo, RunServe, Stop, Crash

\* A command that does not own the pair creates its key or leaves the pair.
LEMMA OthersLeave ==
  ASSUME Typed, PairInv, NEW p \in Processes, Step(p), ~Owner(p)
  PROVE  Owner(p)' \/ (key' = key /\ cert' = cert)
<1>1. ~WriteKey(p) /\ ~OpenCert(p) /\ ~WriteCert(p) /\ ~CloseCert(p) /\ ~RemoveKey(p)
  BY DEF Owner, WriteKey, OpenCert, WriteCert, CloseCert, RemoveKey
<1>2. CASE OpenKey(p)
  BY <1>2 DEF OpenKey, Goto, Owner, Typed, SetupTypeOK
<1>3. CASE ~OpenKey(p)
  BY <1>1, <1>3, QuietStep DEF Typed
<1>4. QED
  BY <1>2, <1>3

LEMMA LeftStep == Typed /\ PairInv /\ LeftInv /\ [SetupNext]_setupVars => LeftInv'
<1> SUFFICES ASSUME Typed, PairInv, LeftInv, [SetupNext]_setupVars,
                    key' # Absent, ~ValidPair', Tidy'
             PROVE  \E q \in Processes : Owner(q)'
  BY DEF LeftInv
<1>0. Tidy
  BY MishapsStay, NextIsStep DEF setupVars, Tidy
<1>1. ASSUME NEW p \in Processes, Step(p)
      PROVE  \E q \in Processes : Owner(q)'
  <2>1. CASE Owner(p)
    BY <1>1, <2>1, OwnerLeaves
  <2>2. CASE ~Owner(p) /\ ~Owner(p)'
    <3>1. key' = key /\ cert' = cert
      BY <1>1, <2>2, OthersLeave
    <3>2. PICK q \in Processes : Owner(q)
      BY <1>0, <3>1 DEF LeftInv, ValidPair
    <3>3. pc'[q] = pc[q]
      BY <1>1, <2>2, <3>2, OthersKept DEF Typed
    <3>4. QED
      BY <3>2, <3>3 DEF Owner
  <2>3. QED
    BY <2>1, <2>2
<1>2. CASE UNCHANGED setupVars
  BY <1>0, <1>2 DEF setupVars, LeftInv, ValidPair, Owner
<1>3. QED
  BY <1>1, <1>2, NextIsStep

\* However the calls of several "local init" interleave and fail, as long as
\* Remove does not fail a certificate is never without its key, also when
\* commands are killed, and the error paths leave no half of a pair behind.
THEOREM NoHalfPairIsLeft == SetupSpec => []NoHalfPairLeft
<1>1. SetupInit => LeftInv
  BY DEF SetupInit, LeftInv
<1>2. PairInv /\ LeftInv => NoHalfPairLeft
  BY DEF PairInv, CertOK, LeftInv, Tidy, Owner, NoHalfPairLeft
<1>3. QED
  BY <1>1, <1>2, TypedInit, TypedStep, PairInit, PairStep, LeftStep, PTL DEF SetupSpec

-----------------------------------------------------------------------------
(* Setup: the configuration *)

\* What Serve asks of a configuration, apart from the pair.
Acceptable(c) ==
  /\ ValidateInternalListener(c)
  /\ c.host # "" => c.tls
  /\ c.host # "" /\ c.port # 0 => c.host = Trim(c.host)

\* A process that is about to save a configuration has checked it, and, if
\* the configuration names the pair, has seen that the pair is valid.
FlagsOK(p) ==
  /\ pc[p] \notin {"idle", "serving"} => flags[p] # Absent /\ Acceptable(flags[p])
  /\ pc[p] \in {"save", "write", "info"} /\ flags[p].tls /\ "close" \notin mishaps
       => ValidPair

ConfigInv ==
  /\ \A p \in Processes : FlagsOK(p)
  /\ SavedConfigStarts

LEMMA ServeAcceptsIs ==
  ASSUME NEW c
  PROVE  ServeAccepts(c) <=> Acceptable(c) /\ (c.tls => ValidPair)
  BY DEF ServeAccepts, Acceptable

\* What "local init" accepts, Serve accepts, if there are no spaces around the
\* host: then trimming it changes nothing but a blank one.
LEMMA InitAcceptsIsEnough ==
  ASSUME "padded" \notin Hosts, NEW c \in Config, c.host \in Hosts,
         InitAccepts(c, c.tls)
  PROVE  Acceptable(c)
<1>1. c.host \in {"", "blank", "loopback", "public"}
  BY FlagTypes DEF HostKinds
<1>2. c.host # "" => c.tls
  BY DEF InitAccepts
<1>3. c.host # "" /\ c.port # 0 => c.host = Trim(c.host)
  BY <1>1 DEF InitAccepts, ValidateInternalListener, Trim
<1>4. QED
  BY <1>2, <1>3 DEF InitAccepts, Acceptable

LEMMA FlagsStep ==
  ASSUME "padded" \notin Hosts, Typed, PairInv, ConfigInv, NEW p \in Processes,
         Step(p), [SetupNext]_setupVars
  PROVE  FlagsOK(p)'
<1> USE DEF Goto, Exit, process
<1>   SetupTypeOK /\ FlagsOK(p)
  BY DEF Typed, ConfigInv
<1>a. "close" \notin mishaps' => "close" \notin mishaps /\ (ValidPair => ValidPair')
  BY ValidPairStays, MishapsStay, NextIsStep DEF ValidPair, setupVars
<1>1. ASSUME NEW host \in Hosts, NEW port \in Ports, NEW listenPort \in Ports,
             NEW embedded \in BOOLEAN,
             RunLocalInit(p, host, port, listenPort, embedded)
      PROVE  FlagsOK(p)'
  <2>1. PICK c : c = [host |-> host, port |-> port, listenPort |-> listenPort,
                      tls |-> embedded]
    OBVIOUS
  <2>2. c \in Config /\ c.host = host /\ c.tls = embedded
    BY <2>1, FlagTypes DEF Config
  <2>3. InitAccepts(c, embedded) /\ flags' = [flags EXCEPT ![p] = c]
    BY <1>1, <2>1 DEF RunLocalInit
  <2>4. Acceptable(c) /\ c # Absent
    BY <2>2, <2>3, InitAcceptsIsEnough, SetupConstants
  <2>5. pc'[p] = "stat" \/ (pc'[p] = "save" /\ ~embedded)
    BY <1>1 DEF RunLocalInit, SetupTypeOK
  <2>6. flags'[p] = c
    BY <2>3 DEF SetupTypeOK
  <2>7. QED
    BY <2>2, <2>4, <2>5, <2>6 DEF FlagsOK
<1>2. ASSUME NEW listenPort \in Ports, RunConfigure(p, listenPort)
      PROVE  FlagsOK(p)'
  <2>1. PICK c : c = [host |-> "", port |-> 0, listenPort |-> listenPort,
                      tls |-> FALSE]
    OBVIOUS
  <2>2. c \in Config /\ c.host = "" /\ c.port = 0 /\ c.tls = FALSE
    BY <2>1, FlagTypes DEF Config
  <2>3. Trim("") = ""
    BY DEF Trim
  <2>4. Acceptable(c) /\ c # Absent
    BY <2>2, <2>3, SetupConstants DEF Acceptable, ValidateInternalListener
  <2>5. flags'[p] = c
    BY <1>2, <2>1 DEF RunConfigure, SetupTypeOK
  <2>6. QED
    BY <2>2, <2>4, <2>5 DEF FlagsOK
<1>3. CASE Validate(p)
  BY <1>3, <1>a DEF Validate, FlagsOK, SetupTypeOK
<1>4. CASE TruncateConfig(p) \/ WriteConfig(p)
  BY <1>4, <1>a DEF TruncateConfig, WriteConfig, FlagsOK, SetupTypeOK
<1>5. CASE \/ StatKey(p) \/ OpenKey(p) \/ WriteKey(p) \/ OpenCert(p)
           \/ WriteCert(p) \/ CloseCert(p) \/ RemoveKey(p)
  <2>1. \/ pc'[p] = "idle"
        \/ /\ flags' = flags /\ pc[p] \notin {"idle", "serving"}
           /\ pc'[p] \notin {"save", "write", "info"}
    BY <1>5 DEF StatKey, OpenKey, WriteKey, OpenCert, WriteCert, CloseCert, RemoveKey,
         SetupTypeOK
  <2>2. QED
    BY <2>1 DEF FlagsOK
<1>6. CASE PrintInfo(p) \/ RunServe(p) \/ Stop(p) \/ Crash(p)
  BY <1>6 DEF PrintInfo, RunServe, Stop, Crash, FlagsOK, SetupTypeOK
<1>7. QED
  BY <1>1, <1>2, <1>3, <1>4, <1>5, <1>6 DEF Step

LEMMA ConfigStep ==
  ASSUME "padded" \notin Hosts
  PROVE  Typed /\ PairInv /\ ConfigInv /\ [SetupNext]_setupVars => ConfigInv'
<1> SUFFICES ASSUME Typed, PairInv, ConfigInv, [SetupNext]_setupVars
             PROVE  ConfigInv'
  OBVIOUS
<1>a. "close" \notin mishaps' => "close" \notin mishaps /\ (ValidPair => ValidPair')
  BY ValidPairStays, MishapsStay, NextIsStep DEF ValidPair, setupVars
<1>b. ASSUME NEW c, "close" \notin mishaps', ServeAccepts(c)
      PROVE  ServeAccepts(c)'
  BY <1>a, <1>b, ServeAcceptsIs DEF ServeAccepts
<1>1. ASSUME NEW p \in Processes, Step(p)
      PROVE  ConfigInv'
  <2>1. ASSUME NEW q \in Processes
        PROVE  FlagsOK(q)'
    <3>1. CASE q = p
      BY <1>1, <3>1, FlagsStep
    <3>2. CASE q # p
      <4>1. pc'[q] = pc[q] /\ flags'[q] = flags[q]
        BY <1>1, <3>2, OthersKept DEF Typed
      <4>2. QED
        BY <1>a, <4>1 DEF ConfigInv, FlagsOK
    <3>3. QED
      BY <3>1, <3>2
  <2>2. \/ config' = config
        \/ config' = Partial
        \/ WriteConfig(p) /\ config' = flags[p]
    BY <1>1 DEF Step, RunLocalInit, RunConfigure, StatKey, OpenKey, WriteKey,
         OpenCert, WriteCert, CloseCert, RemoveKey, Validate, TruncateConfig, WriteConfig,
         PrintInfo, RunServe, Stop, Crash
  <2>3. CASE config' = config \/ config' = Partial
    BY <1>a, <1>b, <2>1, <2>3 DEF ConfigInv, SavedConfigStarts
  <2>4. CASE WriteConfig(p) /\ config' = flags[p]
    <3>1. /\ Acceptable(flags[p])
          /\ flags[p].tls /\ "close" \notin mishaps => ValidPair
      BY <2>4 DEF WriteConfig, ConfigInv, FlagsOK
    <3>2. PICK c : c = flags[p]
      OBVIOUS
    <3>3. "close" \notin mishaps => ServeAccepts(c)
      BY <3>1, <3>2, ServeAcceptsIs
    <3>4. "close" \notin mishaps' => ServeAccepts(c)'
      BY <1>a, <1>b, <3>3
    <3>5. QED
      BY <2>1, <2>4, <3>2, <3>4 DEF ConfigInv, SavedConfigStarts, ServeAccepts
  <2>5. QED
    BY <2>2, <2>3, <2>4
<1>2. CASE UNCHANGED setupVars
  BY <1>2 DEF setupVars, ConfigInv, SavedConfigStarts, FlagsOK, ServeAccepts, ValidPair
<1>3. QED
  BY <1>1, <1>2, NextIsStep

\* If no host has spaces around it, every configuration that the commands
\* have written is one with which "serve" starts, at every moment from then
\* on: "local init" writes the pair before the configuration that names it,
\* and no command takes the pair away, unless Close fails on its certificate.
THEOREM EverySavedConfigStarts ==
  "padded" \notin Hosts => (SetupSpec => []SavedConfigStarts)
<1> SUFFICES ASSUME "padded" \notin Hosts
             PROVE  SetupSpec => []SavedConfigStarts
  OBVIOUS
<1>1. SetupInit => ConfigInv
  BY DEF SetupInit, ConfigInv, SavedConfigStarts, FlagsOK
<1>2. ConfigInv => SavedConfigStarts
  BY DEF ConfigInv
<1>3. Typed /\ PairInv /\ ConfigInv /\ [SetupNext]_setupVars => ConfigInv'
  BY ConfigStep
<1>4. QED
  BY <1>1, <1>2, <1>3, TypedInit, TypedStep, PairInit, PairStep, PTL DEF SetupSpec

-----------------------------------------------------------------------------
(* Tenants: what the commands know *)

\* A command that has made a secret knows the tenant that it is for, and one
\* that has not made any has none to print.  "local ensure-tenant" runs only
\* if the TLS pair was valid, and is shaken if it is not any more.
CommandOK(p) ==
  running[p] # Null =>
    /\ running[p].secret # NoSecret =>
         running[p].stage = "print" /\ running[p].tenant \in TenantIds
    /\ running[p].op = "localEnsureTenant" => pairOK \/ p \in shaken

CommandsInv ==
  /\ CommandsTypeOK
  /\ \A p \in Commands : CommandOK(p)
  /\ \A t \in TenantIds : Exists(t) => tenants[t].secret # NoSecret

-----------------------------------------------------------------------------
(* Tenants: types of the directory *)

\* A row of a tenant that was created or changed.
LEMMA TenantRowOf ==
  ASSUME NEW e \in BOOLEAN, NEW s \in Nat, NEW row,
         row = [enabled |-> e, secret |-> s]
  PROVE  row \in TenantRow /\ row.enabled = e /\ row.secret = s
  BY DEF TenantRow

\* What the tenant commands do to the tenants: one row is written, with the
\* next secret if it is a new one.
TenantWrite(t) ==
  /\ secrets' = secrets + 1
  /\ \E row \in TenantRow : tenants' = [tenants EXCEPT ![t] = row]
                            /\ row.secret = secrets'
  /\ UNCHANGED <<hosts, requests, acks>>

LEMMA CreateWrites ==
  ASSUME TypeOK, NEW t \in TenantIds, Create(t)
  PROVE  TenantWrite(t)
<1>1. secrets' \in Nat
  BY SMT DEF TypeOK, Create
<1>2. PICK row : row = [enabled |-> TRUE, secret |-> secrets']
  OBVIOUS
<1>3. row \in TenantRow /\ row.secret = secrets'
  BY <1>1, <1>2, TenantRowOf
<1>4. QED
  BY <1>2, <1>3 DEF Create, TenantWrite

LEMMA RotateWrites ==
  ASSUME TypeOK, NEW t \in TenantIds, RotateSecret(t)
  PROVE  TenantWrite(t)
<1>1. secrets' \in Nat
  BY SMT DEF TypeOK, RotateSecret
<1>2. PICK old : old = tenants[t]
  OBVIOUS
<1>3. old \in TenantRow
  BY <1>2 DEF TypeOK, RotateSecret, Exists
<1>4. PICK row : row = [old EXCEPT !.secret = secrets']
  OBVIOUS
<1>5. row \in TenantRow /\ row.secret = secrets'
  BY <1>1, <1>3, <1>4 DEF TenantRow
<1>6. tenants' = [tenants EXCEPT ![t] = row]
  BY <1>2, <1>4 DEF RotateSecret
<1>7. QED
  BY <1>5, <1>6 DEF RotateSecret, TenantWrite

LEMMA EnableKeepsSecret ==
  ASSUME TypeOK, NEW t \in TenantIds, NEW value \in BOOLEAN,
         SetEnabled(t, value)
  PROVE  \E row \in TenantRow :
           /\ tenants' = [tenants EXCEPT ![t] = row]
           /\ row.secret = tenants[t].secret
<1>1. PICK old : old = tenants[t]
  OBVIOUS
<1>2. old \in TenantRow
  BY <1>1 DEF TypeOK, SetEnabled, Exists
<1>3. PICK row : row = [old EXCEPT !.enabled = value]
  OBVIOUS
<1>4. row \in TenantRow /\ row.secret = old.secret
  BY <1>2, <1>3 DEF TenantRow
<1>5. tenants' = [tenants EXCEPT ![t] = row]
  BY <1>1, <1>3 DEF SetEnabled
<1>6. QED
  BY <1>1, <1>4, <1>5

\* What one step of an enrolment does to the hosts: nothing, or it stores an
\* identity where there was none or the same one, and confirms that.
HostWrite ==
  \/ UNCHANGED <<hosts, acks>>
  \/ \E t \in TenantIds, h \in HostIds, identity \in Identities :
       /\ hosts[<<t, h>>] \in {Null, identity}
       /\ hosts' = [hosts EXCEPT ![<<t, h>>] = identity]
       /\ acks' = acks \cup {<<t, h, identity>>}

LEMMA CommitWrites ==
  ASSUME TypeOK, NEW r \in Requests, EnrollCommit(r)
  PROVE  HostWrite /\ requests' = [requests EXCEPT ![r] = Null]
<1>1. PICK q : q = requests[r]
  OBVIOUS
<1>2. q # Null /\ q \in Enrollment
  BY <1>1 DEF TypeOK, EnrollCommit
<1>3. PICK t, h, identity :
        t = q.tenant /\ h = q.host /\ identity = q.identity
  OBVIOUS
<1>4. t \in TenantIds /\ h \in HostIds /\ identity \in Identities
  BY <1>2, <1>3 DEF Enrollment
<1>5. PICK row : row = hosts[<<t, h>>]
  OBVIOUS
<1>6. PICK stored : stored = IF row = Null THEN identity ELSE row
  OBVIOUS
<1>7. CASE stored = identity
  <2>1. /\ hosts' = [hosts EXCEPT ![<<t, h>>] = stored]
        /\ acks' = acks \cup {<<t, h, identity>>}
    BY <1>1, <1>3, <1>5, <1>6, <1>7 DEF EnrollCommit, Inserted, IdentityAccepted
  <2>2. row \in {Null, identity}
    BY <1>6, <1>7
  <2>3. QED
    BY <1>4, <1>5, <1>7, <2>1, <2>2 DEF HostWrite, EnrollCommit
<1>8. CASE stored # identity
  BY <1>1, <1>3, <1>5, <1>6, <1>8
     DEF EnrollCommit, Inserted, IdentityAccepted, HostWrite
<1>9. QED
  BY <1>7, <1>8

\* The request of an enrolment after one of its steps.
LEMMA RequestTypes ==
  ASSUME TypeOK, NEW r \in Requests,
         \/ \E t \in TenantIds, h \in HostIds, identity \in Identities,
               secret \in 1..MaxSecret :
              EnrollAuthorize(r, t, h, identity, secret)
         \/ EnrollCheck(r)
         \/ EnrollCommit(r)
  PROVE  requests' \in [Requests -> Enrollment \cup {Null}]
<1>   requests \in [Requests -> Enrollment \cup {Null}]
  BY DEF TypeOK
<1>1. ASSUME NEW t \in TenantIds, NEW h \in HostIds, NEW identity \in Identities,
             NEW secret \in 1..MaxSecret,
             EnrollAuthorize(r, t, h, identity, secret)
      PROVE  requests' \in [Requests -> Enrollment \cup {Null}]
  <2>1. PICK q : q = [tenant |-> t, host |-> h, identity |-> identity,
                      stage |-> "authorized"]
    OBVIOUS
  <2>2. q \in Enrollment
    BY <2>1 DEF Enrollment
  <2>3. requests' = [requests EXCEPT ![r] = q]
    BY <1>1, <2>1 DEF EnrollAuthorize
  <2>4. QED
    BY <2>2, <2>3
<1>2. CASE EnrollCheck(r)
  <2>1. PICK q : q = requests[r]
    OBVIOUS
  <2>2. PICK w : w = [q EXCEPT !.stage = "checked"]
    OBVIOUS
  <2>3. q \in Enrollment
    BY <1>2, <2>1 DEF EnrollCheck
  <2>4. w \in Enrollment
    BY <2>2, <2>3 DEF Enrollment
  <2>5. requests' = [requests EXCEPT ![r] = w]
          \/ requests' = [requests EXCEPT ![r] = Null]
    BY <1>2, <2>1, <2>2 DEF EnrollCheck
  <2>6. QED
    BY <2>4, <2>5
<1>3. CASE EnrollCommit(r)
  BY <1>3 DEF EnrollCommit
<1>4. QED
  BY <1>1, <1>2, <1>3

LEMMA RelayWrites ==
  ASSUME TypeOK, RelayStep
  PROVE  HostWrite /\ UNCHANGED <<tenants, ensuring, secrets>>
         /\ requests' \in [Requests -> Enrollment \cup {Null}]
<1>1. CASE Restart
  BY <1>1 DEF Restart, HostWrite
<1>2. ASSUME NEW r \in Requests,
             \/ \E t \in TenantIds, h \in HostIds, identity \in Identities,
                   secret \in 1..MaxSecret :
                  EnrollAuthorize(r, t, h, identity, secret)
             \/ EnrollCheck(r)
             \/ EnrollCommit(r)
      PROVE  HostWrite /\ UNCHANGED <<tenants, ensuring, secrets>>
             /\ requests' \in [Requests -> Enrollment \cup {Null}]
  <2>1. HostWrite
    BY <1>2, CommitWrites DEF EnrollAuthorize, EnrollCheck, HostWrite
  <2>2. UNCHANGED <<tenants, ensuring, secrets>>
    BY <1>2 DEF EnrollAuthorize, EnrollCheck, EnrollCommit
  <2>3. QED
    BY <1>2, <2>1, <2>2, RequestTypes
<1>3. QED
  BY <1>1, <1>2 DEF RelayStep

LEMMA HostWriteTypes ==
  ASSUME TypeOK, HostWrite
  PROVE  /\ hosts' \in [TenantIds \X HostIds -> Identities \cup {Null}]
         /\ acks' \subseteq TenantIds \X HostIds \X Identities
<1>1. CASE UNCHANGED <<hosts, acks>>
  BY <1>1 DEF TypeOK
<1>2. ASSUME NEW t \in TenantIds, NEW h \in HostIds, NEW identity \in Identities,
             hosts' = [hosts EXCEPT ![<<t, h>>] = identity],
             acks' = acks \cup {<<t, h, identity>>}
      PROVE  /\ hosts' \in [TenantIds \X HostIds -> Identities \cup {Null}]
             /\ acks' \subseteq TenantIds \X HostIds \X Identities
  BY SMT, <1>2 DEF TypeOK
<1>3. QED
  BY <1>1, <1>2 DEF HostWrite

-----------------------------------------------------------------------------
(* Tenants: types of the commands *)

\* The tenants and secrets keep their types, and every secret is a real one.
SecretsOK ==
  /\ tenants \in [TenantIds -> TenantRow \cup {Null}]
  /\ secrets \in Nat
  /\ ensuring \subseteq Commands
  /\ \A t \in TenantIds : Exists(t) => tenants[t].secret # NoSecret

LEMMA TenantWriteOK ==
  ASSUME TypeOK, SecretsOK, NEW t \in TenantIds, TenantWrite(t),
         ensuring' \subseteq Commands
  PROVE  SecretsOK' /\ secrets' # NoSecret /\ tenants'[t].secret = secrets'
         /\ Exists(t)' /\ \A u \in TenantIds \ {t} : tenants'[u] = tenants[u]
<1>1. secrets' = secrets + 1 /\ secrets' \in Nat /\ secrets' # 0
  BY SMT DEF TypeOK, TenantWrite
<1>2. PICK row \in TenantRow : tenants' = [tenants EXCEPT ![t] = row]
                               /\ row.secret = secrets'
  BY DEF TenantWrite
<1>3. row # Null
  BY <1>2, DirectoryConstants
<1>4. tenants'[t] = row /\ \A u \in TenantIds \ {t} : tenants'[u] = tenants[u]
  BY <1>2 DEF TypeOK
<1>5. tenants' \in [TenantIds -> TenantRow \cup {Null}]
  BY <1>2 DEF TypeOK
<1>6. \A u \in TenantIds : Exists(u)' => tenants'[u].secret # NoSecret
  BY <1>1, <1>2, <1>4 DEF SecretsOK, Exists, NoSecret
<1>7. QED
  BY <1>1, <1>2, <1>3, <1>4, <1>5, <1>6 DEF SecretsOK, Exists, NoSecret

LEMMA EnableOK ==
  ASSUME TypeOK, SecretsOK, NEW t \in TenantIds, NEW value \in BOOLEAN,
         SetEnabled(t, value)
  PROVE  SecretsOK' /\ \A u \in TenantIds :
           Exists(u)' = Exists(u) /\ (Exists(u) => tenants'[u].secret = tenants[u].secret)
<1>1. PICK row \in TenantRow : tenants' = [tenants EXCEPT ![t] = row]
                               /\ row.secret = tenants[t].secret
  BY EnableKeepsSecret
<1>2. row # Null /\ tenants[t] # Null
  BY DirectoryConstants DEF SetEnabled, Exists
<1>3. tenants'[t] = row /\ \A u \in TenantIds \ {t} : tenants'[u] = tenants[u]
  BY <1>1 DEF TypeOK
<1>4. tenants' \in [TenantIds -> TenantRow \cup {Null}]
  BY <1>1 DEF TypeOK
<1>5. \A u \in TenantIds :
        Exists(u)' = Exists(u) /\ (Exists(u) => tenants'[u].secret = tenants[u].secret)
  BY <1>1, <1>2, <1>3 DEF Exists
<1>6. secrets' = secrets /\ ensuring' = ensuring
  BY DEF SetEnabled
<1>7. QED
  BY <1>4, <1>5, <1>6 DEF SecretsOK

\* What one step of p does to the commands: p is idle or at a stage that
\* holds a secret only if it is to be printed, with its tenant.
Moves(p) ==
  \E c \in Invocation \cup {Null} :
    /\ running' = [running EXCEPT ![p] = c]
    /\ shaken' = shaken \/ (c = Null /\ shaken' = shaken \ {p})
    /\ c # Null =>
         /\ c.secret # NoSecret => c.stage = "print" /\ c.tenant \in TenantIds
         /\ c.op = "localEnsureTenant" => pairOK \/ p \in shaken

\* What p has made is printed or withheld.
Outputs(p) ==
  /\ {printed', withheld'} \subseteq SUBSET (TenantIds \X Nat)
  /\ printed \subseteq printed' /\ withheld \subseteq withheld'
  /\ running[p] # Null /\ running[p].secret # NoSecret =>
       <<running[p].tenant, running[p].secret>> \in printed' \cup withheld'

\* p has no secret to print yet.
Empty(p) == running[p] # Null => running[p].secret = NoSecret

\* p makes the next secret of t, and is about to print it.
Makes(p, t) ==
  /\ Empty(p)
  /\ TenantWrite(t)
  /\ \E c \in Invocation : running' = [running EXCEPT ![p] = c]
                           /\ c.tenant = t /\ c.secret = secrets'
  /\ UNCHANGED output

\* The four kinds of steps that a command takes.
CommandStep(p) ==
  /\ Moves(p)
  /\ ensuring' \subseteq Commands
  /\ \/ \E t \in TenantIds : Makes(p, t)
     \/ /\ \E t \in TenantIds, value \in BOOLEAN : SetEnabled(t, value)
        /\ UNCHANGED <<running, output>>
     \/ /\ Empty(p)
        /\ UNCHANGED <<tenants, hosts, requests, secrets, acks, output>>
     \/ /\ Outputs(p)
        /\ UNCHANGED <<vars, pairOK>>

LEMMA CreateMakes ==
  ASSUME CommandsInv, NEW p \in Commands, NEW t \in TenantIds, Empty(p),
         TenantWrite(t), ensuring' \subseteq Commands, UNCHANGED output,
         NEW op \in CommandKinds, Becomes(p, op, "print", t, secrets'),
         op = "localEnsureTenant" => pairOK \/ p \in shaken
  PROVE  CommandStep(p)
<1>0. secrets \in Nat
  BY DEF CommandsInv, CommandsTypeOK, TypeOK
<1>1. secrets' \in Nat
  BY SMT, <1>0 DEF TenantWrite
<1>2. PICK c : c = [op |-> op, stage |-> "print", tenant |-> t, secret |-> secrets']
  OBVIOUS
<1>3. /\ c \in Invocation /\ c.op = op /\ c.stage = "print" /\ c.tenant = t
      /\ c.secret = secrets'
  BY <1>1, <1>2 DEF Invocation
<1>4. running' = [running EXCEPT ![p] = c]
  BY <1>2 DEF Becomes
<1>5. Moves(p)
  BY <1>3, <1>4 DEF Moves, output
<1>6. Makes(p, t)
  BY <1>3, <1>4 DEF Makes
<1>7. QED
  BY <1>5, <1>6 DEF CommandStep

LEMMA StartsEmpty ==
  ASSUME CommandsInv, NEW p \in Commands, Empty(p),
         NEW op \in CommandKinds, NEW stage \in {"list", "create", "print"},
         Becomes(p, op, stage, Null, NoSecret), ensuring' \subseteq Commands,
         op = "localEnsureTenant" => pairOK \/ p \in shaken,
         UNCHANGED <<tenants, hosts, requests, secrets, acks, output>>
  PROVE  CommandStep(p)
<1>1. PICK c : c = [op |-> op, stage |-> stage, tenant |-> Null, secret |-> 0]
  OBVIOUS
<1>2. c \in Invocation /\ c.op = op /\ c.secret = NoSecret
  BY <1>1 DEF Invocation, NoSecret
<1>3. running' = [running EXCEPT ![p] = c]
  BY <1>1 DEF Becomes, NoSecret
<1>4. Moves(p)
  BY <1>2, <1>3 DEF Moves, output
<1>5. QED
  BY <1>4 DEF CommandStep

\* A command that returns has printed what it has made, or it was withheld.
LEMMA OutputStep ==
  ASSUME CommandsInv, NEW p \in Commands,
         PrintSecret(p) \/ FinishLocalEnsureTenant(p) \/ FinishInfo(p)
  PROVE  CommandStep(p)
<1>1. PICK c : c = running[p]
  OBVIOUS
<1>2. PICK made : made = Made(p)
  OBVIOUS
<1>3. /\ c # Null /\ c \in Invocation
      /\ c.secret # NoSecret => c.tenant \in TenantIds
      /\ c.op = "localEnsureTenant" => pairOK \/ p \in shaken
  BY <1>1 DEF PrintSecret, FinishLocalEnsureTenant, FinishInfo, Returns, CommandsInv,
       CommandsTypeOK, CommandOK
<1>4. c.secret \in Nat
  BY <1>3 DEF Invocation
<1>5. made \subseteq TenantIds \X Nat
  BY SMT, <1>1, <1>2, <1>3, <1>4 DEF Made
<1>6. c.secret # NoSecret => <<c.tenant, c.secret>> \in made
  BY <1>1, <1>2 DEF Made
<1>7. \/ printed' = printed \cup made /\ withheld' = withheld
      \/ withheld' = withheld \cup made /\ printed' = printed
  BY <1>1, <1>2, <1>3 DEF PrintSecret, FinishLocalEnsureTenant, FinishInfo, Returns
<1>8. printed \subseteq TenantIds \X Nat /\ withheld \subseteq TenantIds \X Nat
  BY DEF CommandsInv, CommandsTypeOK
<1>9. Outputs(p)
  BY <1>1, <1>5, <1>6, <1>7, <1>8 DEF Outputs
<1>10. /\ running' = [running EXCEPT ![p] = Null] /\ shaken' = shaken \ {p}
       /\ UNCHANGED <<vars, pairOK>>
  BY DEF PrintSecret, FinishLocalEnsureTenant, FinishInfo, Returns
<1>11. Moves(p)
  BY <1>10 DEF Moves
<1>12. ensuring' \subseteq Commands
  BY <1>10 DEF vars, CommandsInv, CommandsTypeOK, TypeOK
<1>13. QED
  BY <1>9, <1>10, <1>11, <1>12 DEF CommandStep

LEMMA EnableMoves ==
  ASSUME CommandsInv, NEW p \in Commands, NEW t \in TenantIds,
         NEW value \in BOOLEAN, runTenantSetEnabled(p, t, value)
  PROVE  CommandStep(p)
<1>1. running' = [running EXCEPT ![p] = Null]
  BY DEF runTenantSetEnabled, Idle, CommandsInv, CommandsTypeOK
<1>2. Moves(p)
  BY <1>1 DEF Moves, runTenantSetEnabled, output
<1>3. ensuring' = ensuring /\ ensuring \subseteq Commands
  BY DEF runTenantSetEnabled, SetEnabled, CommandsInv, CommandsTypeOK, TypeOK
<1>4. QED
  BY <1>2, <1>3 DEF CommandStep, runTenantSetEnabled

LEMMA ListMoves ==
  ASSUME CommandsInv, NEW p \in Commands, ListTenants(p)
  PROVE  CommandStep(p)
<1>1. PICK op : op = running[p].op
  OBVIOUS
<1>2. op \in CommandKinds /\ Empty(p) /\ (op = "localEnsureTenant" => pairOK \/ p \in shaken)
  BY <1>1 DEF ListTenants, CommandsInv, CommandsTypeOK, CommandOK, Empty, Invocation
<1>3. ensuring' \subseteq Commands
  BY DEF ListTenants, EnsureTenantList, vars, CommandsInv, CommandsTypeOK, TypeOK
<1>4. UNCHANGED <<tenants, hosts, requests, secrets, acks, output>>
  BY DEF ListTenants, EnsureTenantList, vars
<1>5. CASE Becomes(p, op, "create", Null, NoSecret)
  BY <1>2, <1>3, <1>4, <1>5, StartsEmpty
<1>6. CASE Becomes(p, op, "print", Null, NoSecret)
  BY <1>2, <1>3, <1>4, <1>6, StartsEmpty
<1>7. QED
  BY <1>1, <1>5, <1>6 DEF ListTenants

LEMMA CreateLocalMoves ==
  ASSUME CommandsInv, NEW p \in Commands, NEW t \in TenantIds, CreateLocal(p, t)
  PROVE  CommandStep(p)
<1>1. PICK op : op = running[p].op
  OBVIOUS
<1>2. op \in CommandKinds /\ Empty(p) /\ (op = "localEnsureTenant" => pairOK \/ p \in shaken)
  BY <1>1 DEF CreateLocal, CommandsInv, CommandsTypeOK, CommandOK, Empty, Invocation
<1>3. Create(t) /\ ensuring' \subseteq Commands
  BY DEF CreateLocal, EnsureTenantCreate, CommandsInv, CommandsTypeOK, TypeOK
<1>4. TenantWrite(t)
  BY <1>3, CreateWrites DEF CommandsInv, CommandsTypeOK
<1>5. Becomes(p, op, "print", t, secrets') /\ UNCHANGED output
  BY <1>1 DEF CreateLocal
<1>6. QED
  BY <1>2, <1>3, <1>4, <1>5, CreateMakes

\* Every step is one of a command or of the relay, or a change of the pair.
LEMMA CommandsNextIs ==
  ASSUME CommandsInv, CommandsNext
  PROVE  \/ \E p \in Commands : CommandStep(p)
         \/ PairChanges
         \/ RelayStep /\ UNCHANGED <<running, output>>
<1> USE DEF CommandsInv, CommandsTypeOK
<1>1. ASSUME NEW p \in Commands, NEW t \in TenantIds, runTenantCreate(p, t)
      PROVE  CommandStep(p)
  <2>1. /\ Empty(p) /\ Create(t) /\ UNCHANGED output /\ ensuring' \subseteq Commands
        /\ Becomes(p, "tenantCreate", "print", t, secrets')
    BY <1>1 DEF runTenantCreate, CreateTenant, Idle, Empty, TypeOK
  <2>2. TenantWrite(t)
    BY <2>1, CreateWrites
  <2>3. "tenantCreate" \in CommandKinds
    BY DEF CommandKinds
  <2>4. QED
    BY <2>1, <2>2, <2>3, CreateMakes
<1>2. ASSUME NEW p \in Commands, NEW t \in TenantIds, runTenantRotateSecret(p, t)
      PROVE  CommandStep(p)
  <2>1. /\ Empty(p) /\ RotateSecret(t) /\ UNCHANGED output
        /\ ensuring' \subseteq Commands
        /\ Becomes(p, "tenantRotateSecret", "print", t, secrets')
    BY <1>2 DEF runTenantRotateSecret, RotateSecret, Idle, Empty, TypeOK
  <2>2. TenantWrite(t)
    BY <2>1, RotateWrites
  <2>3. "tenantRotateSecret" \in CommandKinds
    BY DEF CommandKinds
  <2>4. QED
    BY <2>1, <2>2, <2>3, CreateMakes
<1>3. ASSUME NEW p \in Commands, runLocalEnsureTenant(p)
      PROVE  CommandStep(p)
  <2>1. /\ Empty(p) /\ pairOK /\ ensuring' \subseteq Commands
        /\ UNCHANGED <<tenants, hosts, requests, secrets, acks, output>>
        /\ Becomes(p, "localEnsureTenant", "list", Null, NoSecret)
    BY <1>3 DEF runLocalEnsureTenant, Idle, Empty, TypeOK, vars
  <2>2. "localEnsureTenant" \in CommandKinds
    BY DEF CommandKinds
  <2>3. QED
    BY <2>1, <2>2, StartsEmpty
<1>4. ASSUME NEW p \in Commands, NEW op \in {"info", "infoJson"}, runInfo(p, op)
      PROVE  CommandStep(p)
  <2>1. /\ Empty(p) /\ ensuring' \subseteq Commands
        /\ UNCHANGED <<tenants, hosts, requests, secrets, acks, output>>
        /\ Becomes(p, op, "list", Null, NoSecret)
    BY <1>4 DEF runInfo, Idle, Empty, TypeOK, vars
  <2>2. op \in CommandKinds /\ op # "localEnsureTenant"
    BY DEF CommandKinds
  <2>3. QED
    BY <2>1, <2>2, StartsEmpty
<1>5. QED
  BY <1>1, <1>2, <1>3, <1>4, EnableMoves, CreateLocalMoves, ListMoves, OutputStep
     DEF CommandsNext

LEMMA CommandsInvInit == CommandsInit => CommandsInv
<1> SUFFICES ASSUME CommandsInit
             PROVE  CommandsInv
  OBVIOUS
<1>1. TypeOK
  BY DEF CommandsInit, Init, TypeOK
<1>2. \A t \in TenantIds : ~Exists(t)
  BY DEF CommandsInit, Init, Exists
<1>3. QED
  BY <1>1, <1>2 DEF CommandsInit, CommandsInv, CommandsTypeOK, CommandOK

\* The commands that p runs beside keep what they have made.
LEMMA MovesOK ==
  ASSUME CommandsInv, NEW p \in Commands, Moves(p), pairOK' = pairOK
  PROVE  /\ running' \in [Commands -> Invocation \cup {Null}]
         /\ \A q \in Commands : CommandOK(q)'
         /\ \A q \in Commands \ {p} : running'[q] = running[q]
         /\ shaken' \subseteq Commands
<1>1. running \in [Commands -> Invocation \cup {Null}]
  BY DEF CommandsInv, CommandsTypeOK
<1>2. PICK c \in Invocation \cup {Null} :
        /\ running' = [running EXCEPT ![p] = c]
        /\ shaken' = shaken \/ (c = Null /\ shaken' = shaken \ {p})
        /\ c # Null =>
             /\ c.secret # NoSecret => c.stage = "print" /\ c.tenant \in TenantIds
             /\ c.op = "localEnsureTenant" => pairOK \/ p \in shaken
  BY DEF Moves
<1>3. running'[p] = c /\ \A q \in Commands \ {p} : running'[q] = running[q]
  BY <1>1, <1>2
<1>4. \A q \in Commands \ {p} : CommandOK(q)'
  BY <1>2, <1>3 DEF CommandsInv, CommandOK
<1>5. CommandOK(p)'
  BY <1>2, <1>3 DEF CommandOK
<1>6. shaken' \subseteq Commands
  BY <1>2 DEF CommandsInv, CommandsTypeOK
<1>7. QED
  BY <1>1, <1>2, <1>3, <1>4, <1>5, <1>6

LEMMA OutputTypes ==
  ASSUME CommandsInv, NEW p \in Commands, CommandStep(p)
  PROVE  pairOK' = pairOK /\ {printed', withheld'} \subseteq SUBSET (TenantIds \X Nat)
  BY DEF CommandStep, Makes, Outputs, output, CommandsInv, CommandsTypeOK

LEMMA DirectoryStep ==
  ASSUME CommandsInv, NEW p \in Commands, CommandStep(p)
  PROVE  TypeOK' /\ SecretsOK'
<1>   TypeOK /\ SecretsOK
  BY DEF CommandsInv, CommandsTypeOK, SecretsOK, TypeOK
<1>1. SecretsOK'
  <2>1. CASE \E t \in TenantIds : Makes(p, t)
    BY <2>1, TenantWriteOK DEF Makes, CommandStep
  <2>2. CASE \E t \in TenantIds, value \in BOOLEAN : SetEnabled(t, value)
    BY <2>2, EnableOK
  <2>3. CASE UNCHANGED <<tenants, secrets>>
    BY <2>3 DEF SecretsOK, Exists, CommandStep
  <2>4. QED
    BY <2>1, <2>2, <2>3 DEF CommandStep, vars
<1>2. UNCHANGED <<hosts, requests, acks>>
  BY DEF CommandStep, Makes, TenantWrite, SetEnabled, vars
<1>3. QED
  BY <1>1, <1>2 DEF TypeOK, SecretsOK

LEMMA CommandsInvStep == CommandsInv /\ [CommandsNext]_commandVars => CommandsInv'
<1> SUFFICES ASSUME CommandsInv, [CommandsNext]_commandVars
             PROVE  CommandsInv'
  OBVIOUS
<1>1. ASSUME NEW p \in Commands, CommandStep(p)
      PROVE  CommandsInv'
  <2>1. TypeOK' /\ SecretsOK'
    BY <1>1, DirectoryStep
  <2>2. pairOK' = pairOK /\ {printed', withheld'} \subseteq SUBSET (TenantIds \X Nat)
    BY <1>1, OutputTypes
  <2>3. /\ running' \in [Commands -> Invocation \cup {Null}]
        /\ \A q \in Commands : CommandOK(q)'
        /\ shaken' \subseteq Commands
    BY <1>1, <2>2, MovesOK DEF CommandStep
  <2>4. pairOK' \in BOOLEAN
    BY <2>2 DEF CommandsInv, CommandsTypeOK
  <2>5. QED
    BY <2>1, <2>2, <2>3, <2>4 DEF CommandsInv, CommandsTypeOK, SecretsOK
<1>2. CASE RelayStep /\ UNCHANGED <<running, output>>
  <2>1. TypeOK
    BY DEF CommandsInv, CommandsTypeOK
  <2>2. /\ HostWrite /\ UNCHANGED <<tenants, ensuring, secrets>>
        /\ requests' \in [Requests -> Enrollment \cup {Null}]
    BY <1>2, <2>1, RelayWrites
  <2>3. TypeOK'
    BY <2>1, <2>2, HostWriteTypes DEF TypeOK
  <2>4. QED
    BY <1>2, <2>2, <2>3
       DEF CommandsInv, CommandsTypeOK, CommandOK, Exists, output
<1>3. CASE PairChanges
  <2>1. UNCHANGED <<vars, running, printed, withheld>> /\ pairOK' \in BOOLEAN
    BY <1>3 DEF PairChanges
  <2>2. shaken' \subseteq Commands
    BY <1>3 DEF PairChanges, CommandsInv, CommandsTypeOK
  <2>3. \A q \in Commands : CommandOK(q)'
    BY <1>3 DEF PairChanges, EnsuresTenant, Idle, CommandsInv, CommandOK
  <2>4. QED
    BY <2>1, <2>2, <2>3 DEF vars, CommandsInv, CommandsTypeOK, TypeOK, Exists
<1>4. CASE UNCHANGED commandVars
  BY <1>4 DEF commandVars, vars, CommandsInv, CommandsTypeOK, TypeOK, CommandOK,
       Exists
<1>5. QED
  BY <1>1, <1>2, <1>3, <1>4, CommandsNextIs

\* Every variable keeps its type, whatever commands run beside the relay.
THEOREM TenantsTypeCorrect == CommandsSpec => []CommandsTypeOK
<1>1. CommandsInv => CommandsTypeOK
  BY DEF CommandsInv
<1>2. QED
  BY <1>1, CommandsInvInit, CommandsInvStep, PTL DEF CommandsSpec

-----------------------------------------------------------------------------
(* Tenants: confirmed enrolments *)

LEMMA ConfirmedByWrite ==
  ASSUME TypeOK, ConfirmedIsStored, HostWrite
  PROVE  ConfirmedIsStored'
<1>1. CASE UNCHANGED <<hosts, acks>>
  BY <1>1 DEF ConfirmedIsStored
<1>2. ASSUME NEW t \in TenantIds, NEW h \in HostIds, NEW identity \in Identities,
             hosts[<<t, h>>] \in {Null, identity},
             hosts' = [hosts EXCEPT ![<<t, h>>] = identity],
             acks' = acks \cup {<<t, h, identity>>}
      PROVE  ConfirmedIsStored'
  <2> SUFFICES ASSUME NEW ack \in acks'
               PROVE  hosts'[<<ack[1], ack[2]>>] = ack[3]
    BY DEF ConfirmedIsStored
  <2>1. hosts'[<<t, h>>] = identity
    BY <1>2 DEF TypeOK
  <2>2. CASE ack = <<t, h, identity>>
    BY <2>1, <2>2
  <2>3. CASE ack \in acks
    <3>1. PICK u \in TenantIds, g \in HostIds, i \in Identities : ack = <<u, g, i>>
      BY SMT, <2>3 DEF TypeOK
    <3>2. hosts[<<u, g>>] = i /\ i # Null
      BY <2>3, <3>1, DirectoryConstants DEF ConfirmedIsStored
    <3>3. CASE u = t /\ g = h
      BY <1>2, <2>1, <3>1, <3>2, <3>3
    <3>4. CASE ~(u = t /\ g = h)
      <4>1. <<u, g>> # <<t, h>>
        BY <3>4
      <4>2. hosts'[<<u, g>>] = hosts[<<u, g>>]
        BY <1>2, <4>1 DEF TypeOK
      <4>3. QED
        BY <3>1, <3>2, <4>2
    <3>5. QED
      BY <3>3, <3>4
  <2>4. QED
    BY <1>2, <2>2, <2>3
<1>3. QED
  BY <1>1, <1>2 DEF HostWrite

LEMMA ConfirmedStep ==
  CommandsInv /\ ConfirmedIsStored /\ [CommandsNext]_commandVars
    => ConfirmedIsStored'
<1> SUFFICES ASSUME CommandsInv, ConfirmedIsStored, [CommandsNext]_commandVars
             PROVE  ConfirmedIsStored'
  OBVIOUS
<1>0. TypeOK
  BY DEF CommandsInv, CommandsTypeOK
<1>1. HostWrite
  <2>1. ASSUME NEW p \in Commands, CommandStep(p)
        PROVE  HostWrite
    BY <2>1 DEF CommandStep, Makes, TenantWrite, SetEnabled, vars, HostWrite
  <2>2. CASE UNCHANGED commandVars
    BY <2>2 DEF commandVars, vars, HostWrite
  <2>3. CASE PairChanges
    BY <2>3 DEF PairChanges, vars, HostWrite
  <2>4. QED
    BY <1>0, <2>1, <2>2, <2>3, CommandsNextIs, RelayWrites
<1>2. QED
  BY <1>0, <1>1, ConfirmedByWrite

\* However enrolments race for a host id, with the relay restarting and the
\* tenants changing between their steps, what was confirmed is what is stored
\* (the transaction of EnrollHost).
THEOREM EveryConfirmedIsStored == CommandsSpec => []ConfirmedIsStored
<1>1. CommandsInit => ConfirmedIsStored
  BY DEF CommandsInit, Init, ConfirmedIsStored
<1>2. QED
  BY <1>1, CommandsInvInit, CommandsInvStep, ConfirmedStep, PTL DEF CommandsSpec

-----------------------------------------------------------------------------
(* Tenants: secrets *)

\* The secret s of tenant t was printed or withheld, or is about to be.
Known(t, s) ==
  \/ <<t, s>> \in printed \cup withheld
  \/ \E p \in Commands : running[p] # Null /\
       running[p].tenant = t /\ running[p].secret = s

LEMMA KnownIs ==
  StoredSecretIsKnown <=>
    \A t \in TenantIds : Exists(t) => Known(t, tenants[t].secret)
  BY DEF StoredSecretIsKnown, Known

\* A secret that is known stays known: a command that has one to print goes
\* on to nothing else before it has printed it.
LEMMA KnownStays ==
  ASSUME CommandsInv, NEW p \in Commands, CommandStep(p),
         NEW t, NEW s, s # NoSecret, Known(t, s)
  PROVE  Known(t, s)'
<1>1. printed \subseteq printed' /\ withheld \subseteq withheld'
  BY DEF CommandStep, Makes, Outputs, output
<1>2. pairOK' = pairOK
  BY OutputTypes
<1>3. \A q \in Commands \ {p} : running'[q] = running[q]
  BY <1>2, MovesOK DEF CommandStep
<1>4. CASE <<t, s>> \in printed \cup withheld
  BY <1>1, <1>4 DEF Known
<1>5. ASSUME NEW q \in Commands, running[q] # Null, running[q].tenant = t,
             running[q].secret = s
      PROVE  Known(t, s)'
  <2>1. CASE q # p
    BY <1>3, <1>5, <2>1 DEF Known
  <2>2. CASE q = p
    <3>1. ~Empty(p)
      BY <1>5, <2>2 DEF Empty
    <3>2. CASE Outputs(p)
      BY <1>5, <2>2, <3>2 DEF Outputs, Known
    <3>3. CASE UNCHANGED running
      BY <1>5, <3>3 DEF Known
    <3>4. QED
      BY <3>1, <3>2, <3>3 DEF CommandStep, Makes
  <2>3. QED
    BY <2>1, <2>2
<1>6. QED
  BY <1>4, <1>5 DEF Known

LEMMA SecretsStep ==
  CommandsInv /\ StoredSecretIsKnown /\ [CommandsNext]_commandVars
    => StoredSecretIsKnown'
<1> SUFFICES ASSUME CommandsInv, StoredSecretIsKnown, [CommandsNext]_commandVars,
                    NEW t \in TenantIds, Exists(t)'
             PROVE  Known(t, tenants[t].secret)'
  BY DEF StoredSecretIsKnown, Known
<1>   TypeOK /\ SecretsOK
  BY DEF CommandsInv, CommandsTypeOK, SecretsOK, TypeOK
<1>1. ASSUME NEW p \in Commands, CommandStep(p)
      PROVE  Known(t, tenants[t].secret)'
  <2>1. ASSUME Exists(t), tenants'[t].secret = tenants[t].secret
        PROVE  Known(t, tenants[t].secret)'
    <3>1. PICK s : s = tenants[t].secret
      OBVIOUS
    <3>2. s # NoSecret /\ Known(t, s)
      BY <2>1, <3>1, KnownIs DEF SecretsOK
    <3>3. Known(t, s)'
      BY <1>1, <3>2, KnownStays
    <3>4. QED
      BY <2>1, <3>1, <3>3 DEF Known
  <2>2. ASSUME NEW u \in TenantIds, Makes(p, u)
        PROVE  Known(t, tenants[t].secret)'
    <3>1. /\ tenants'[u].secret = secrets'
          /\ \A v \in TenantIds \ {u} : tenants'[v] = tenants[v]
      BY <1>1, <2>2, TenantWriteOK DEF Makes, CommandStep
    <3>2. CASE t = u
      <4>1. PICK c \in Invocation : running' = [running EXCEPT ![p] = c]
                                    /\ c.tenant = u /\ c.secret = secrets'
        BY <2>2 DEF Makes
      <4>2. running'[p] = c /\ c # Null
        BY <4>1, CommandsConstants DEF CommandsInv, CommandsTypeOK
      <4>3. QED
        BY <3>1, <3>2, <4>1, <4>2 DEF Known
    <3>3. CASE t # u
      BY <2>1, <3>1, <3>3 DEF Exists
    <3>4. QED
      BY <3>2, <3>3
  <2>3. ASSUME NEW u \in TenantIds, NEW value \in BOOLEAN, SetEnabled(u, value)
        PROVE  Known(t, tenants[t].secret)'
    BY <2>1, <2>3, EnableOK
  <2>4. CASE tenants' = tenants
    BY <2>1, <2>4 DEF Exists
  <2>5. QED
    BY <1>1, <2>2, <2>3, <2>4 DEF CommandStep, vars
<1>2. CASE tenants' = tenants /\ UNCHANGED <<running, printed, withheld>>
  BY <1>2 DEF StoredSecretIsKnown, Known, Exists
<1>3. CASE RelayStep /\ UNCHANGED <<running, output>>
  BY <1>2, <1>3, RelayWrites DEF output
<1>4. CASE PairChanges
  BY <1>2, <1>4 DEF PairChanges, vars
<1>5. QED
  BY <1>1, <1>2, <1>3, <1>4, CommandsNextIs DEF commandVars, vars

\* Whatever commands create, rotate and ensure at once, the secret that a
\* tenant has now was printed or is about to be; only "info --ensure-tenant
\* --json" may fail to print the one it has made, and "local ensure-tenant" if
\* the TLS pair stopped loading while it ran.
THEOREM EveryStoredSecretIsKnown == CommandsSpec => []StoredSecretIsKnown
<1>1. CommandsInit => StoredSecretIsKnown
  BY DEF CommandsInit, Init, StoredSecretIsKnown, Exists
<1>2. QED
  BY <1>1, CommandsInvInit, CommandsInvStep, SecretsStep, PTL DEF CommandsSpec

-----------------------------------------------------------------------------
(* Tenants: enrolments of a disabled tenant *)

\* A step that no request takes leaves what EnrolmentsRunDry is about.
RunsDry(t) ==
  Exists(t) /\ ~tenants[t].enabled =>
    /\ Checked(t)' \subseteq Checked(t)
    /\ \A h \in HostIds : hosts'[t, h] # hosts[t, h] => Checked(t)' # Checked(t)

\* What is left of the requests for t after a step of request r.
LEMMA CheckedAfter ==
  ASSUME TypeOK, NEW t \in TenantIds, NEW r \in Requests,
         NEW q \in Enrollment \cup {Null}, requests' = [requests EXCEPT ![r] = q],
         q # Null /\ q.tenant = t => q.stage # "checked"
  PROVE  Checked(t)' = Checked(t) \ {r}
<1>1. requests'[r] = q /\ \A s \in Requests \ {r} : requests'[s] = requests[s]
  BY DEF TypeOK
<1>2. QED
  BY <1>1 DEF Checked

LEMMA RequestRunsDry ==
  ASSUME TypeOK, NEW t \in TenantIds, Exists(t), ~tenants[t].enabled,
         NEW r \in Requests,
         \/ \E u \in TenantIds, h \in HostIds, identity \in Identities,
               secret \in 1..MaxSecret :
              EnrollAuthorize(r, u, h, identity, secret)
         \/ EnrollCheck(r)
         \/ EnrollCommit(r)
  PROVE  RunsDry(t)
<1>   requests \in [Requests -> Enrollment \cup {Null}]
  BY DEF TypeOK
<1>1. ASSUME NEW u \in TenantIds, NEW h \in HostIds, NEW identity \in Identities,
             NEW secret \in 1..MaxSecret,
             EnrollAuthorize(r, u, h, identity, secret)
      PROVE  RunsDry(t)
  <2>1. PICK q : q = [tenant |-> u, host |-> h, identity |-> identity,
                      stage |-> "authorized"]
    OBVIOUS
  <2>2. q \in Enrollment /\ q.stage # "checked"
    BY <2>1 DEF Enrollment
  <2>3. requests' = [requests EXCEPT ![r] = q] /\ hosts' = hosts
    BY <1>1, <2>1 DEF EnrollAuthorize
  <2>4. Checked(t)' = Checked(t) \ {r}
    BY <2>2, <2>3, CheckedAfter
  <2>5. QED
    BY <2>3, <2>4 DEF RunsDry
<1>2. CASE EnrollCheck(r)
  <2>1. PICK q : q = requests[r]
    OBVIOUS
  <2>2. q \in Enrollment /\ hosts' = hosts
    BY <1>2, <2>1 DEF EnrollCheck
  <2>3. PICK w : w = IF tenants[q.tenant].enabled
                     THEN [q EXCEPT !.stage = "checked"] ELSE Null
    OBVIOUS
  <2>4. w \in Enrollment \cup {Null}
    BY <2>2, <2>3 DEF Enrollment
  <2>5. w # Null => w.tenant # t
    BY <2>2, <2>3 DEF Enrollment
  <2>6. requests' = [requests EXCEPT ![r] = w]
    BY <1>2, <2>1, <2>3 DEF EnrollCheck
  <2>7. Checked(t)' = Checked(t) \ {r}
    BY <2>4, <2>5, <2>6, CheckedAfter
  <2>8. QED
    BY <2>2, <2>7 DEF RunsDry
<1>3. CASE EnrollCommit(r)
  <2>1. requests' = [requests EXCEPT ![r] = Null]
    BY <1>3 DEF EnrollCommit
  <2>2. Checked(t)' = Checked(t) \ {r}
    BY <2>1, CheckedAfter
  <2>3. PICK u, g : u = requests[r].tenant /\ g = requests[r].host
    OBVIOUS
  <2>4. u \in TenantIds /\ g \in HostIds /\ requests[r].stage = "checked"
        /\ requests[r] # Null
    BY <1>3, <2>3 DEF EnrollCommit, Enrollment
  <2>5. hosts' = hosts \/ \E row : hosts' = [hosts EXCEPT ![<<u, g>>] = row]
    BY <1>3, <2>3 DEF EnrollCommit
  <2>6. ASSUME NEW h \in HostIds, hosts'[<<t, h>>] # hosts[<<t, h>>]
        PROVE  u = t
    <3>1. <<t, h>> \in TenantIds \X HostIds
      BY SMT
    <3>2. <<t, h>> = <<u, g>>
      BY <2>5, <2>6, <3>1 DEF TypeOK
    <3>3. QED
      BY <3>2
  <2>7. u = t => r \in Checked(t)
    BY <2>3, <2>4 DEF Checked
  <2>8. QED
    BY <2>2, <2>6, <2>7 DEF RunsDry
<1>4. QED
  BY <1>1, <1>2, <1>3

LEMMA StepRunsDry ==
  CommandsInv /\ [CommandsNext]_commandVars => \A t \in TenantIds : RunsDry(t)
<1> SUFFICES ASSUME CommandsInv, [CommandsNext]_commandVars, NEW t \in TenantIds,
                    Exists(t), ~tenants[t].enabled
             PROVE  RunsDry(t)
  BY DEF RunsDry
<1>0. TypeOK
  BY DEF CommandsInv, CommandsTypeOK
<1>1. CASE UNCHANGED <<hosts, requests>>
  BY <1>1 DEF RunsDry, Checked
<1>2. ASSUME NEW p \in Commands, CommandStep(p)
      PROVE  UNCHANGED <<hosts, requests>>
  BY <1>2 DEF CommandStep, Makes, TenantWrite, SetEnabled, vars
<1>3. CASE Restart
  BY <1>3 DEF Restart, RunsDry, Checked
<1>4. CASE RelayStep
  BY <1>0, <1>3, <1>4, RequestRunsDry DEF RelayStep
<1>5. CASE PairChanges
  BY <1>1, <1>5 DEF PairChanges, vars
<1>6. QED
  BY <1>1, <1>2, <1>4, <1>5, CommandsNextIs DEF commandVars, vars

\* For every number of requests: once a tenant is disabled, the only hosts
\* that are still enrolled under it are those of the requests that had read
\* tenants.enabled before, one each (EnrollHost).
THEOREM EveryEnrolmentRunsDry == CommandsSpec => EnrolmentsRunDry
<1>1. CommandsInv /\ [CommandsNext]_commandVars
        => [\A t \in TenantIds : Exists(t) /\ ~tenants[t].enabled =>
              /\ Checked(t)' \subseteq Checked(t)
              /\ \A h \in HostIds :
                   hosts'[t, h] # hosts[t, h] => Checked(t)' # Checked(t)]_commandVars
  BY StepRunsDry DEF RunsDry
<1>2. QED
  BY <1>1, CommandsInvInit, CommandsInvStep, PTL DEF CommandsSpec, EnrolmentsRunDry

=============================================================================
