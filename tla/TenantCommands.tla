---------------------------- MODULE TenantCommands ---------------------------
(***************************************************************************)
(* The commands that create and rotate tenant secrets, as processes: each  *)
(* writes to the database first and prints afterwards, and what it does    *)
(* not print is lost, because only a hash is stored.  The commands with    *)
(* JSON output read the TLS pair before they print and may fail there; the *)
(* pair may be replaced, or fail to load, while they run.                  *)
(*                                                                         *)
(* The steps on the database are those of Directory.  The output is known  *)
(* by the tenant and the secret that it shows.  A process that is killed   *)
(* between the two steps is not modelled.                                  *)
(***************************************************************************)
EXTENDS Directory

CommandKinds ==
  {"tenantCreate", "tenantRotateSecret", "tenantSetEnabled",
   "localEnsureTenant", "info", "infoJson"}

VARIABLES
  running,   \* command -> what it is doing, or Null
  pairOK,    \* whether localInfoFromConfig succeeds (TLS off or a valid pair)
  printed,   \* the <<tenant, secret>> that were printed
  shaken,    \* history: the "local ensure-tenant" that are running and in whose
             \* run the pair stopped loading
  withheld   \* history: the <<tenant, secret>> that "info --json", or a shaken
             \* "local ensure-tenant", made and failed to print

commandVars == <<vars, running, pairOK, printed, shaken, withheld>>

output == <<pairOK, printed, shaken, withheld>>

NoSecret == 0

Invocation ==
  [op : CommandKinds, stage : {"list", "create", "print"},
   tenant : TenantIds \cup {Null}, secret : Nat]

ASSUME CommandsConstants == Null \notin Invocation

CommandsTypeOK ==
  /\ TypeOK
  /\ running \in [Commands -> Invocation \cup {Null}]
  /\ pairOK \in BOOLEAN
  /\ shaken \subseteq Commands
  /\ {printed, withheld} \subseteq SUBSET (TenantIds \X Nat)

CommandsInit ==
  /\ Init
  /\ running = [p \in Commands |-> Null]
  /\ pairOK \in BOOLEAN
  /\ printed = {} /\ shaken = {} /\ withheld = {}

\* p starts op, or goes on to the next stage.
Becomes(p, op, stage, t, secret) ==
  running' = [running EXCEPT ![p] =
    [op |-> op, stage |-> stage, tenant |-> t, secret |-> secret]]

Idle(p) == running[p] = Null

-----------------------------------------------------------------------------
runTenantCreate(p, t) ==
  /\ Idle(p)
  /\ CreateTenant(t)
  /\ Becomes(p, "tenantCreate", "print", t, secrets')
  /\ UNCHANGED output

runTenantRotateSecret(p, t) ==
  /\ Idle(p)
  /\ RotateSecret(t)
  /\ Becomes(p, "tenantRotateSecret", "print", t, secrets')
  /\ UNCHANGED output

runTenantSetEnabled(p, t, value) ==
  /\ Idle(p)
  /\ SetEnabled(t, value)
  /\ UNCHANGED <<running, output>>

MutNoPrecheck(p) ==
  /\ Idle(p)
  /\ Becomes(p, "localEnsureTenant", "list", Null, NoSecret)
  /\ UNCHANGED <<vars, output>>

\* localInfoFromConfig is called once before anything is written.
runLocalEnsureTenant(p) ==
  /\ Idle(p)
  /\ pairOK
  /\ Becomes(p, "localEnsureTenant", "list", Null, NoSecret)
  /\ UNCHANGED <<vars, output>>

\* runInfo with -ensure-tenant, with and without -json.
runInfo(p, op) ==
  /\ Idle(p)
  /\ Becomes(p, op, "list", Null, NoSecret)
  /\ UNCHANGED <<vars, output>>

\* List: a tenant is only created if there is none.
ListTenants(p) ==
  /\ running[p] # Null
  /\ running[p].stage = "list"
  /\ \/ /\ EnsureTenantList(p)
        /\ Becomes(p, running[p].op, "create", Null, NoSecret)
     \/ /\ \E t \in TenantIds : Exists(t)
        /\ Becomes(p, running[p].op, "print", Null, NoSecret)
        /\ UNCHANGED vars
  /\ UNCHANGED output

CreateLocal(p, t) ==
  /\ running[p] # Null
  /\ running[p].stage = "create"
  /\ EnsureTenantCreate(p, t)
  /\ Becomes(p, running[p].op, "print", t, secrets')
  /\ UNCHANGED output

MutAlwaysMade(p) == {<<running[p].tenant, running[p].secret>>}

\* The secret that p has made and is to print, if it has made one.
Made(p) ==
  {<<running[p].tenant, running[p].secret>>} \ {<<running[p].tenant, NoSecret>>}

\* p is at its output, and returns.
Returns(p, ops) ==
  /\ running[p] # Null
  /\ running[p].op \in ops
  /\ running[p].stage = "print"
  /\ running' = [running EXCEPT ![p] = Null]
  /\ shaken' = shaken \ {p}
  /\ UNCHANGED <<vars, pairOK>>

\* "tenant create" and "tenant rotate-secret" print what they have made.
PrintSecret(p) ==
  /\ Returns(p, {"tenantCreate", "tenantRotateSecret"})
  /\ printed' = printed \cup Made(p)
  /\ UNCHANGED withheld

\* "local ensure-tenant" calls localInfoFromConfig again, and returns without
\* any output if the pair does not load any more.
FinishLocalEnsureTenant(p) ==
  /\ Returns(p, {"localEnsureTenant"})
  /\ \/ /\ pairOK
        /\ printed' = printed \cup Made(p)
        /\ UNCHANGED withheld
     \/ /\ ~pairOK
        /\ withheld' = IF p \in shaken THEN withheld \cup Made(p) ELSE withheld
        /\ UNCHANGED printed

\* runInfo: with -json it calls localInfoFromConfig for the first time.
FinishInfo(p) ==
  /\ Returns(p, {"info", "infoJson"})
  /\ \/ /\ running[p].op = "infoJson" => pairOK
        /\ printed' = printed \cup Made(p)
        /\ UNCHANGED withheld
     \/ /\ running[p].op = "infoJson" /\ ~pairOK
        /\ withheld' = withheld \cup Made(p)
        /\ UNCHANGED printed

EnsuresTenant(p) == ~Idle(p) /\ running[p].op = "localEnsureTenant"

\* The files of the pair are replaced or cannot be read, or load again.
PairChanges ==
  /\ pairOK' = ~pairOK
  /\ shaken' = IF pairOK THEN {p \in Commands : EnsuresTenant(p)} ELSE shaken
  /\ UNCHANGED <<vars, running, printed, withheld>>

CommandsNext ==
  \/ \E p \in Commands :
       \/ \E t \in TenantIds :
            \/ runTenantCreate(p, t)
            \/ runTenantRotateSecret(p, t)
            \/ \E value \in BOOLEAN : runTenantSetEnabled(p, t, value)
            \/ CreateLocal(p, t)
       \/ runLocalEnsureTenant(p)
       \/ \E op \in {"info", "infoJson"} : runInfo(p, op)
       \/ ListTenants(p)
       \/ PrintSecret(p)
       \/ FinishLocalEnsureTenant(p)
       \/ FinishInfo(p)
  \/ PairChanges
  \/ RelayStep /\ UNCHANGED <<running, output>>

CommandsSpec == CommandsInit /\ [][CommandsNext]_commandVars

-----------------------------------------------------------------------------
(* Properties *)

\* Nobody is locked out of a tenant: the secret that a tenant has now was
\* printed, or the command that made it is still about to print it, whatever
\* other commands create, rotate and ensure at the same time.  There are two
\* exceptions.  "info --ensure-tenant --json" creates before it looks at the
\* TLS pair.  "local ensure-tenant" looks first, so it fails to print only if
\* the pair stopped loading between its two looks.
StoredSecretIsKnown ==
  \A t \in TenantIds : Exists(t) =>
    \/ <<t, tenants[t].secret>> \in printed \cup withheld
    \/ \E p \in Commands : running[p] # Null /\
         running[p].tenant = t /\ running[p].secret = tenants[t].secret

\* Disabling a tenant stops its enrolments but for those whose request had
\* read tenants.enabled before (EnrollHost reads it outside the transaction):
\* while the tenant is disabled no further request gets that far, and each of
\* those that had enrols at most once.
EnrolmentsRunDry ==
  [][\A t \in TenantIds : Exists(t) /\ ~tenants[t].enabled =>
       /\ Checked(t)' \subseteq Checked(t)
       /\ \A h \in HostIds :
            hosts'[t, h] # hosts[t, h] => Checked(t)' # Checked(t)]_commandVars

=============================================================================
