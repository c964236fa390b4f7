-------------------------------- MODULE Relay --------------------------------
(***************************************************************************)
(* The handlers of the pairing endpoints: Pairing composed with Tickets.   *)
(*                                                                         *)
(* A host's request passes through several statements that nothing holds   *)
(* together.  An approval or a rejection reads the device id of the claim  *)
(* (ClaimDeviceID); authorizeTicket consumes the ticket, for a scope with  *)
(* that device id; then comes the operation of the service.  Other         *)
(* requests, tenant commands and restarts run in between.  A ticket stays  *)
(* consumed when the operation fails.  The requests of devices carry the   *)
(* token of their claim and no ticket.                                     *)
(***************************************************************************)
EXTENDS Pairing

CONSTANTS
  Asked,       \* the purposes that hosts ask tickets for
  Requests,    \* the host requests that run at a time
  TicketIds,
  NoDevice     \* the device id of a scope that names no device

ClaimPurposes == {"pairing_claim_approve", "pairing_claim_reject"}

InvitePurposes == {"pairing_invite_create", "pairing_invite_cancel"}

ListPurposes == {"pairing_claim_list", "device_list"}

Purposes ==
  ClaimPurposes \cup InvitePurposes \cup ListPurposes \cup {"device_revoke"}

\* The scope of a ticket; its subject is the host.
HostScope ==
  {scope \in [host : Scopes, purpose : Asked,
              device : DeviceIds \cup {NoDevice}] :
     scope.device = NoDevice <=>
       scope.purpose \in InvitePurposes \cup ListPurposes}

\* A host's request that runs.  The target is the claim or the device of its
\* path.  The rest of what it carries (an invite id, an expiry, an approval)
\* plays no role before the operation, and is chosen there.  CreateInvite has
\* the row of its second statement as its target between the two.
Running ==
  [purpose : Purposes, host : Scopes, device : DeviceIds \cup {NoDevice},
   target : ClaimIds \cup DeviceIds \cup {NoDevice} \cup InviteRequest,
   stage : {"received", "authorised", "inserting"}]

ASSUME RelayConstants ==
  /\ Null \notin Running \cup HostScope
  /\ NoDevice \notin DeviceIds
  /\ Asked \subseteq Purposes

VARIABLES
  running,   \* request -> what it does, or Null
  issued, uses

T == INSTANCE Tickets WITH
  Ids <- TicketIds, TicketScopes <- HostScope, NotIssued <- Null,
  active <- {scope \in HostScope : Active(scope.host)}

relayVars == <<vars, running, issued, uses>>

RelayTypeOK ==
  /\ TypeOK
  /\ running \in [Requests -> Running \cup {Null}]
  /\ issued \in [TicketIds -> HostScope \cup {Null}]
  /\ uses \in [TicketIds -> {0, 1}]

RelayInit ==
  /\ Init
  /\ running = [r \in Requests |-> Null]
  /\ T!TicketsInit

-----------------------------------------------------------------------------
(* Host requests *)

Ends(r) == running' = [running EXCEPT ![r] = Null]

At(r, stage) == running[r] # Null /\ running[r].stage = stage

\* The device id that the handler puts into the scope: that of the claim
\* (ClaimDeviceID), that of the path, or none.
ScopeDevice(purpose, target) ==
  IF purpose \in ClaimPurposes THEN claims[target].device
  ELSE IF purpose = "device_revoke" THEN target
  ELSE NoDevice

Targets(purpose, s) ==
  IF purpose \in ClaimPurposes
  THEN {c \in ClaimIds : claims[c] # Null /\ claims[c].scope = s}
  ELSE IF purpose = "device_revoke" THEN DeviceIds
  ELSE {NoDevice}

\* A handler up to authorizeTicket; "target" is one of Targets(purpose, s).
Receive(r, purpose, s, target) ==
  /\ running[r] = Null
  /\ running' = [running EXCEPT ![r] =
       [purpose |-> purpose, host |-> s, target |-> target,
        device |-> ScopeDevice(purpose, target), stage |-> "received"]]
  /\ UNCHANGED <<vars, issued, uses>>

\* The scope that the handler asks authorizeTicket for.
NeededScope(q) == [host |-> q.host, purpose |-> q.purpose, device |-> q.device]

MutAnyDevice(r, t) ==
  /\ At(r, "received")
  /\ UNCHANGED vars
  /\ \E d \in DeviceIds \cup {NoDevice} :
       T!Spend(t, [NeededScope(running[r]) EXCEPT !.device = d])
  /\ running' = [running EXCEPT ![r].stage = "authorised"]

MutSkipTenant(r, t) ==
  /\ At(r, "received")
  /\ issued[t] = NeededScope(running[r])
  /\ uses[t] = 0
  /\ uses' = [uses EXCEPT ![t] = 1]
  /\ running' = [running EXCEPT ![r].stage = "authorised"]
  /\ UNCHANGED <<vars, issued>>

\* The ticket of the request is consumed.
authorizeTicket(r, t) ==
  /\ At(r, "received")
  /\ UNCHANGED vars
  /\ T!Spend(t, NeededScope(running[r]))
  /\ running' = [running EXCEPT ![r].stage = "authorised"]

\* The handler calls the service, and the operation succeeds.
handleCancelInvite(q, now) ==
  /\ q.purpose = "pairing_invite_cancel"
  /\ \E raw \in RawInviteIds : CancelInvite(q.host, raw, now)

handleListPairingClaims(q, now) ==
  /\ q.purpose = "pairing_claim_list"
  /\ ListPendingClaims(now)

handleApprovePairingClaim(q, now) ==
  /\ q.purpose = "pairing_claim_approve"
  /\ \E req \in ApprovalRequests :
       \/ ApproveClaim(q.host, q.target, req, now)
       \/ ReapproveClaim(q.host, q.target, req, now)

MutRejectSettled(q, now) ==
  /\ q.purpose = "pairing_claim_reject"
  /\ invites' = ExpiredInvites(now)
  /\ claims' = [ExpiredClaims(now) EXCEPT ![q.target].status = "rejected"]
  /\ UNCHANGED <<devices, enabled, creating, clock>>

handleRejectPairingClaim(q, now) ==
  /\ q.purpose = "pairing_claim_reject"
  /\ RejectClaim(q.host, q.target, now)

handleListDevices(q) ==
  /\ q.purpose = "device_list"
  /\ UNCHANGED vars

handleRevokeDevice(q) ==
  /\ q.purpose = "device_revoke"
  /\ RevokeDevice(q.host, q.target)

Act(r, now) ==
  /\ At(r, "authorised")
  /\ \/ handleCancelInvite(running[r], now)
     \/ handleListPairingClaims(running[r], now)
     \/ handleApprovePairingClaim(running[r], now)
     \/ handleRejectPairingClaim(running[r], now)
     \/ handleListDevices(running[r])
     \/ handleRevokeDevice(running[r])
  /\ Ends(r)
  /\ UNCHANGED <<issued, uses>>

\* CreateInvite, its two statements.
handleCreateInviteCheck(r, raw, now, expiresAt) ==
  /\ At(r, "authorised")
  /\ running[r].purpose = "pairing_invite_create"
  /\ LET s == running[r].host IN
       /\ CreateInviteCheck(s, raw, now, expiresAt)
       /\ running' = [running EXCEPT ![r].stage = "inserting", ![r].target =
            [scope |-> s, id |-> raw.id, expiresAt |-> expiresAt]]
  /\ UNCHANGED <<issued, uses>>

handleCreateInviteInsert(r) ==
  /\ At(r, "inserting")
  /\ CreateInviteInsert(running[r].target)
  /\ Ends(r)
  /\ UNCHANGED <<issued, uses>>

\* The request is refused, or its operation fails: nothing but the request,
\* and the ticket that it may have consumed, is gone.  Of two equal rows the
\* second one fails.
Fail(r) ==
  /\ running[r] # Null
  /\ At(r, "inserting") => running[r].target \notin creating
  /\ Ends(r)
  /\ UNCHANGED <<vars, issued, uses>>

-----------------------------------------------------------------------------
(* The rest of the relay *)

\* Prove inserts a ticket: the subject was active when the challenge was
\* consumed, but the tenant may have been disabled since.
IssueTicket(t, scope) ==
  /\ UNCHANGED <<vars, running>>
  /\ T!Issue(t, scope)

Unauthenticated ==
  /\ \/ \E c \in ClaimIds, now \in Nows : DeviceRequest(c, now)
     \/ \E t \in Tenants, value \in BOOLEAN : SetEnabled(t, value)
     \/ Tick
  /\ UNCHANGED <<running, issued, uses>>

RelayRestart ==
  /\ Restart
  /\ running' = [r \in Requests |-> Null]
  /\ UNCHANGED <<issued, uses>>

RelayNext ==
  \/ \E r \in Requests :
       \/ \E purpose \in Asked, s \in Scopes :
            \E target \in Targets(purpose, s) : Receive(r, purpose, s, target)
       \/ \E t \in TicketIds : authorizeTicket(r, t)
       \/ \E now \in Nows :
            \/ Act(r, now)
            \/ \E raw \in RawInviteIds, e \in 0 .. MaxTime + MaxLifetime :
                 handleCreateInviteCheck(r, raw, now, e)
       \/ handleCreateInviteInsert(r)
       \/ Fail(r)
  \/ \E t \in TicketIds, scope \in HostScope : IssueTicket(t, scope)
  \/ Unauthenticated
  \/ RelayRestart

RelaySpec == RelayInit /\ [][RelayNext]_relayVars

-----------------------------------------------------------------------------
(* Properties *)

\* The tickets of a scope that were consumed, and the requests that they
\* have authorised and that have not acted yet.
Spent(scope) == {t \in TicketIds : issued[t] = scope /\ uses[t] > 0}

Waiting(scope) ==
  {r \in Requests : running[r] # Null /\ running[r].stage # "received"
                      /\ NeededScope(running[r]) = scope}

InvitesIn(s, statuses) ==
  {i \in InviteIds : invites[s][i] # Null /\ invites[s][i].status \in statuses}

ClaimsIn(s, d, status) ==
  {c \in ClaimIds : claims[c] # Null /\ claims[c].scope = s
                      /\ claims[c].device = d /\ claims[c].status = status}

\* The rows that only an operation with the scope can have brought about.
Effects(scope) ==
  CASE scope.purpose = "pairing_invite_create" -> InvitesIn(scope.host, Status)
    [] scope.purpose = "pairing_invite_cancel" ->
         InvitesIn(scope.host, {"cancelled"})
    [] scope.purpose = "pairing_claim_approve" ->
         ClaimsIn(scope.host, scope.device, "approved")
    [] scope.purpose = "pairing_claim_reject" ->
         ClaimsIn(scope.host, scope.device, "rejected")
    [] scope.purpose = "device_revoke" ->
         {d \in {scope.device} : devices[scope.host][d] # Null
                                   /\ devices[scope.host][d].revoked}
    [] OTHER -> {}

\* Each effect and each waiting request can be given a ticket of its own.
Covered(effects, waiting, spent) ==
  \E paid \in [effects -> spent], held \in [waiting -> spent] :
    /\ \A x, y \in effects : paid[x] = paid[y] => x = y
    /\ \A r, q \in waiting : held[r] = held[q] => r = q
    /\ \A x \in effects, r \in waiting : paid[x] # held[r]

\* Every invite, every settled claim and every revocation was paid for with a
\* ticket of its own, made for that endpoint, that host and, although the
\* handler read the device id before and in another statement, for the device
\* that the operation changed.  A request that waits to act has one more.
EffectsAreAuthorised ==
  \A scope \in HostScope :
    Covered(Effects(scope), Waiting(scope), Spent(scope))

\* The host requests of a tenant that have passed authorizeTicket.
Authorised(t) ==
  {r \in Requests : running[r] # Null /\ running[r].stage # "received"
                      /\ running[r].host[1] = t}

\* The rows of a tenant that hosts change.
HostRows(t) ==
  [s \in {s \in Scopes : s[1] = t} |->
     <<devices[s],
       {i \in InviteIds : invites[s][i] # Null},
       InvitesIn(s, {"consumed", "cancelled"}),
       {c \in ClaimIds : claims[c] # Null /\ claims[c].scope = s
                           /\ claims[c].status \in {"approved", "rejected"}}>>]

\* While a tenant is disabled no request of its hosts passes authorizeTicket,
\* and every change to what its hosts control uses up one that had passed
\* before: the operations, which do not look at the tenant again, can finish
\* what was under way and nothing else.
DisabledRunsDry ==
  [][\A t \in Tenants : ~enabled[t] =>
       /\ Authorised(t)' \subseteq Authorised(t)
       /\ HostRows(t)' # HostRows(t) => Authorised(t)' # Authorised(t)]_relayVars

\* The handlers only take steps of Pairing on its tables, so that everything
\* shown of Pairing holds for the relay with its tickets and stages.
ImplementsPairing == Init /\ [][Next]_vars

=============================================================================
