------------------------------ MODULE Directory ------------------------------
(***************************************************************************)
(* Tenants and hosts: the tenant commands of the command line, which run   *)
(* in processes of their own beside the relay, and the enrolment of hosts. *)
(*                                                                         *)
(* handleEnrollHost reads the tenant (authorizeTenant), EnrollHost reads   *)
(* it again, and only then runs the transaction that inserts or compares   *)
(* the host row.  "ensure-tenant" lists the tenants and creates one if     *)
(* there was none.  The command line may run between any two of these.     *)
(***************************************************************************)
EXTENDS Naturals, FiniteSets

CONSTANTS
  TenantIds, HostIds,
  Identities,     \* well-formed signing key, agreement key and key version
  Requests,       \* concurrent requests of handleEnrollHost
  Commands,       \* concurrent invocations of ensure-tenant
  MaxSecret,      \* bound on the number of secrets generated
  Null

TenantRow == [enabled : BOOLEAN, secret : Nat]

Enrollment ==
  [tenant : TenantIds, host : HostIds, identity : Identities,
   stage : {"authorized", "checked"}]

ASSUME DirectoryConstants ==
  /\ Null \notin TenantRow \cup Identities \cup Enrollment
  /\ MaxSecret \in Nat

VARIABLES
  tenants,    \* tenant id -> row or Null
  hosts,      \* tenant id, host id -> identity or Null
  requests,   \* enrolments under way
  ensuring,   \* the ensure-tenant commands that found no tenant
  secrets,    \* how many secrets were generated; the last one is the newest
  acks        \* history: <<tenant, host, identity>> of enrolments confirmed

vars == <<tenants, hosts, requests, ensuring, secrets, acks>>

TypeOK ==
  /\ tenants \in [TenantIds -> TenantRow \cup {Null}]
  /\ hosts \in [TenantIds \X HostIds -> Identities \cup {Null}]
  /\ requests \in [Requests -> Enrollment \cup {Null}]
  /\ ensuring \subseteq Commands
  /\ secrets \in Nat
  /\ acks \subseteq TenantIds \X HostIds \X Identities

Init ==
  /\ tenants = [t \in TenantIds |-> Null]
  /\ hosts = [p \in TenantIds \X HostIds |-> Null]
  /\ requests = [r \in Requests |-> Null]
  /\ ensuring = {}
  /\ secrets = 0
  /\ acks = {}

Exists(t) == tenants[t] # Null

-----------------------------------------------------------------------------
(* Tenants *)

\* Service.Create: a fresh random id, and a secret that is not stored.
Create(t) ==
  /\ ~Exists(t)
  /\ secrets < MaxSecret
  /\ secrets' = secrets + 1
  /\ tenants' = [tenants EXCEPT ![t] = [enabled |-> TRUE, secret |-> secrets']]
  /\ UNCHANGED <<hosts, requests, acks>>

CreateTenant(t) == Create(t) /\ UNCHANGED ensuring

SetEnabled(t, value) ==
  /\ Exists(t)
  /\ tenants' = [tenants EXCEPT ![t].enabled = value]
  /\ UNCHANGED <<hosts, requests, ensuring, secrets, acks>>

RotateSecret(t) ==
  /\ Exists(t)
  /\ secrets < MaxSecret
  /\ secrets' = secrets + 1
  /\ tenants' = [tenants EXCEPT ![t].secret = secrets']
  /\ UNCHANGED <<hosts, requests, ensuring, acks>>

\* runLocalEnsureTenant (and runInfo with -ensure-tenant) up to List.
EnsureTenantList(p) ==
  /\ p \notin ensuring
  /\ \A t \in TenantIds : ~Exists(t)
  /\ ensuring' = ensuring \cup {p}
  /\ UNCHANGED <<tenants, hosts, requests, secrets, acks>>

EnsureTenantCreate(p, t) ==
  /\ p \in ensuring
  /\ Create(t)
  /\ ensuring' = ensuring \ {p}

-----------------------------------------------------------------------------
(* Hosts *)

\* authorizeTenant, for a request that carries a secret.
EnrollAuthorize(r, t, h, identity, secret) ==
  /\ requests[r] = Null
  /\ Exists(t)
  /\ tenants[t].enabled
  /\ tenants[t].secret = secret
  /\ requests' = [requests EXCEPT ![r] =
       [tenant |-> t, host |-> h, identity |-> identity,
        stage |-> "authorized"]]
  /\ UNCHANGED <<tenants, hosts, ensuring, secrets, acks>>

MutNoEnabledTest(r) ==
  /\ requests[r] # Null
  /\ requests[r].stage = "authorized"
  /\ requests' = [requests EXCEPT ![r] = [requests[r] EXCEPT !.stage = "checked"]]
  /\ UNCHANGED <<tenants, hosts, ensuring, secrets, acks>>

\* EnrollHost up to the read of tenants.enabled.
EnrollCheck(r) ==
  /\ requests[r] # Null
  /\ requests[r].stage = "authorized"
  /\ requests' = [requests EXCEPT ![r] =
       IF tenants[requests[r].tenant].enabled
       THEN [requests[r] EXCEPT !.stage = "checked"]
       ELSE Null]
  /\ UNCHANGED <<tenants, hosts, ensuring, secrets, acks>>

\* The requests for tenant t that have yet to run the transaction.
Checked(t) ==
  {r \in Requests : requests[r] # Null /\ requests[r].tenant = t
                      /\ requests[r].stage = "checked"}

\* insert ... on conflict do nothing
Inserted(row, identity) == IF row = Null THEN identity ELSE row

MutAcceptAny(row, identity) == TRUE

\* The row that is stored after the insert must hold the very identity of the
\* request; otherwise host_identity_conflict_reset_required.
IdentityAccepted(row, identity) == row = identity

\* The transaction of EnrollHost: the insert, the comparison with what is then
\* stored (trivial if the insert took effect), and commit or rollback.
EnrollCommit(r) ==
  LET request == requests[r]
      key == <<request.tenant, request.host>>
      stored == Inserted(hosts[key], request.identity) IN
  /\ request # Null
  /\ request.stage = "checked"
  /\ IF IdentityAccepted(stored, request.identity)
     THEN /\ hosts' = [hosts EXCEPT ![key] = stored]
          /\ acks' = acks \cup
               {<<request.tenant, request.host, request.identity>>}
     ELSE UNCHANGED <<hosts, acks>>
  /\ requests' = [requests EXCEPT ![r] = Null]
  /\ UNCHANGED <<tenants, ensuring, secrets>>

\* The relay crashes: the requests are gone, the tables survive.
Restart ==
  /\ requests' = [r \in Requests |-> Null]
  /\ UNCHANGED <<tenants, hosts, ensuring, secrets, acks>>

\* What the relay does, beside the commands.
RelayStep ==
  \/ \E r \in Requests :
       \/ \E t \in TenantIds, h \in HostIds, identity \in Identities,
             secret \in 1..MaxSecret :
            EnrollAuthorize(r, t, h, identity, secret)
       \/ EnrollCheck(r)
       \/ EnrollCommit(r)
  \/ Restart

-----------------------------------------------------------------------------
(* Properties *)

\* An enrolment that was confirmed is the one the hosts table holds, so of
\* two enrolments that race for a host id with different keys at most one is
\* ever confirmed (EnrollHost).
ConfirmedIsStored ==
  \A ack \in acks : hosts[ack[1], ack[2]] = ack[3]

=============================================================================
