------------------------------- MODULE Pairing -------------------------------
(***************************************************************************)
(* The pairing service: invites a host issues, claims that devices submit  *)
(* against them, and the device bindings that an approved claim creates.   *)
(*                                                                         *)
(* Every operation of the service is one SQL transaction (or one           *)
(* statement), and the store has a single connection, so each is one       *)
(* action.  CreateInvite is the exception: it reads and writes in two      *)
(* statements.  The time "now" of an operation is read before the          *)
(* operation obtains the connection, so it may lie up to MaxLag behind the *)
(* clock when the transaction runs.  An operation that returns an error    *)
(* rolls back everything, the leading expirePending included, and is a     *)
(* stuttering step.                                                        *)
(***************************************************************************)
EXTENDS Naturals, FiniteSets

CONSTANTS
  Tenants, Hosts,   \* tenant ids and host ids; every pair is an enrolled host
  InviteIds, ClaimIds, DeviceIds,
  Keys,             \* public keys, used for signing or for agreement
  Payloads,         \* opaque approval header, nonce and ciphertext, together
  Null,             \* a row that does not exist, or a NULL column group
  Paddings,         \* whether a caller may pad an invite id with white space
  MaxKeyVersion, MaxBinding,
  MaxLifetime,      \* maxInviteLifetime
  MaxLag,           \* how long an operation may wait for the connection
  MaxTime,          \* bound on the clock
  MaxCreating,      \* bound on concurrent CreateInvite requests
  MaxInvites        \* bound on the invites stored when a request starts

Scopes == Tenants \X Hosts

Status == {"pending", "approved", "rejected", "expired", "cancelled", "consumed"}

InviteRow == [status : Status, expiresAt : Nat]

ApprovalColumns ==
  [signing : Keys, agreement : Keys, keyVersion : Nat, binding : Nat,
   payload : Payloads]

ClaimRow ==
  [status : Status, scope : Scopes, invite : InviteIds, device : DeviceIds,
   agreement : Keys, keyVersion : Nat, expiresAt : Nat,
   approval : ApprovalColumns \cup {Null}]

DeviceRow ==
  [signing : Keys, agreement : Keys, keyVersion : Nat, binding : Nat,
   revoked : BOOLEAN]

InviteRequest == [scope : Scopes, id : InviteIds, expiresAt : Nat]

\* An invite id as it arrives in a request, before strings.TrimSpace.
RawInviteIds == [id : InviteIds, padded : Paddings]

ASSUME PairingConstants ==
  /\ Null \notin InviteRow \cup ClaimRow \cup DeviceRow
  /\ Null \notin ApprovalColumns
  /\ Paddings \subseteq BOOLEAN
  /\ {MaxKeyVersion, MaxBinding, MaxLifetime, MaxLag, MaxTime} \subseteq Nat

VARIABLES
  invites,   \* pairing_invites: scope -> invite id -> row or Null
  claims,    \* pairing_claims: claim id -> row or Null
  devices,   \* devices: scope -> device id -> row or Null
  enabled,   \* tenants.enabled
  creating,  \* CreateInvite requests between their two statements
  clock

vars == <<invites, claims, devices, enabled, creating, clock>>

TypeOK ==
  /\ invites \in [Scopes -> [InviteIds -> InviteRow \cup {Null}]]
  /\ claims \in [ClaimIds -> ClaimRow \cup {Null}]
  /\ devices \in [Scopes -> [DeviceIds -> DeviceRow \cup {Null}]]
  /\ enabled \in [Tenants -> BOOLEAN]
  /\ creating \subseteq InviteRequest
  /\ clock \in Nat

Init ==
  /\ invites = [s \in Scopes |-> [i \in InviteIds |-> Null]]
  /\ claims = [c \in ClaimIds |-> Null]
  /\ devices = [s \in Scopes |-> [d \in DeviceIds |-> Null]]
  /\ enabled = [t \in Tenants |-> TRUE]
  /\ creating = {}
  /\ clock = 0

-----------------------------------------------------------------------------
(* Time and expiry *)

\* The values time.Now() may have returned to an operation that runs now.
Nows == {n \in 0..clock : clock <= n + MaxLag}

IsPending(row) == row # Null /\ row.status = "pending"

MutExpireNever(row, now) == row

Expire(row, now) ==
  IF IsPending(row) /\ row.expiresAt <= now
  THEN [row EXCEPT !.status = "expired"]
  ELSE row

ExpiredClaims(now) == [c \in ClaimIds |-> Expire(claims[c], now)]

ExpiredInvites(now) ==
  [s \in Scopes |-> [i \in InviteIds |-> Expire(invites[s][i], now)]]

\* expirePending, as the leading statements of a transaction that commits.
CommitExpiry(now) ==
  /\ invites' = ExpiredInvites(now)
  /\ claims' = ExpiredClaims(now)

-----------------------------------------------------------------------------
(* Invites *)

\* The host and its tenant are enabled (hosts are never disabled or revoked).
Active(s) == enabled[s[1]]

StoredInvites == {k \in Scopes \X InviteIds : invites[k[1]][k[2]] # Null}

\* CreateInvite up to its first statement, which counts active hosts.
CreateInviteCheck(s, raw, now, expiresAt) ==
  /\ Cardinality(creating) < MaxCreating
  /\ Cardinality(StoredInvites \cup {<<s, raw.id>>}) <= MaxInvites
  /\ now < expiresAt
  /\ expiresAt <= now + MaxLifetime
  /\ Active(s)
  /\ creating' = creating \cup
       {[scope |-> s, id |-> raw.id, expiresAt |-> expiresAt]}
  /\ UNCHANGED <<invites, claims, devices, enabled, clock>>

\* The insert of CreateInvite.  The primary key refuses an existing id, in
\* whatever status the invite is (invite_exists).
CreateInviteInsert(r) ==
  /\ r \in creating
  /\ creating' = creating \ {r}
  /\ invites' =
       IF invites[r.scope][r.id] = Null
       THEN [invites EXCEPT ![r.scope][r.id] =
               [status |-> "pending", expiresAt |-> r.expiresAt]]
       ELSE invites
  /\ UNCHANGED <<claims, devices, enabled, clock>>

\* The claims whose invite_id equals the raw id a caller of CancelInvite gave:
\* stored ids are trimmed, the second update of CancelInvite does not trim.
MatchesRaw(row, s, raw) ==
  row.scope = s /\ row.invite = raw.id /\ ~raw.padded

CancelledWith(row, s, raw) == IsPending(row) /\ MatchesRaw(row, s, raw)

CancelInvite(s, raw, now) ==
  /\ IsPending(ExpiredInvites(now)[s][raw.id])
  /\ invites' = [ExpiredInvites(now) EXCEPT ![s][raw.id].status = "cancelled"]
  /\ claims' = [c \in ClaimIds |->
       IF CancelledWith(ExpiredClaims(now)[c], s, raw)
       THEN [ExpiredClaims(now)[c] EXCEPT !.status = "cancelled"]
       ELSE ExpiredClaims(now)[c]]
  /\ UNCHANGED <<devices, enabled, creating, clock>>

-----------------------------------------------------------------------------
(* Claims *)

\* validateClaimSubmission on the fields that are not opaque.
ValidSubmission(header) == header.keyVersion > 0

SubmitClaim(c, header, now) ==
  /\ ValidSubmission(header)
  /\ Active(header.scope)
  /\ IsPending(ExpiredInvites(now)[header.scope][header.invite])
  /\ claims[c] = Null
  /\ invites' = ExpiredInvites(now)
  /\ claims' = [ExpiredClaims(now) EXCEPT ![c] =
       [status |-> "pending", scope |-> header.scope, invite |-> header.invite,
        device |-> header.device, agreement |-> header.agreement,
        keyVersion |-> header.keyVersion,
        expiresAt |-> invites[header.scope][header.invite].expiresAt,
        approval |-> Null]]
  /\ UNCHANGED <<devices, enabled, creating, clock>>

\* GetClaimWithToken by the holder of the claim's token; it commits the expiry.
GetClaimWithToken(c, now) ==
  /\ claims[c] # Null
  /\ CommitExpiry(now)
  /\ UNCHANGED <<devices, enabled, creating, clock>>

ListPendingClaims(now) ==
  /\ CommitExpiry(now)
  /\ UNCHANGED <<devices, enabled, creating, clock>>

RejectClaim(s, c, now) ==
  /\ IsPending(ExpiredClaims(now)[c])
  /\ claims[c].scope = s
  /\ invites' = ExpiredInvites(now)
  /\ claims' = [ExpiredClaims(now) EXCEPT ![c].status = "rejected"]
  /\ UNCHANGED <<devices, enabled, creating, clock>>

MutCancelAny(c, now) ==
  /\ claims[c] # Null
  /\ invites' = ExpiredInvites(now)
  /\ claims' = [ExpiredClaims(now) EXCEPT ![c].status = "cancelled"]
  /\ UNCHANGED <<devices, enabled, creating, clock>>

\* CancelClaim by the holder of the claim's token.
CancelClaim(c, now) ==
  /\ IsPending(ExpiredClaims(now)[c])
  /\ invites' = ExpiredInvites(now)
  /\ claims' = [ExpiredClaims(now) EXCEPT ![c].status = "cancelled"]
  /\ UNCHANGED <<devices, enabled, creating, clock>>

-----------------------------------------------------------------------------
(* Approval *)

\* validateApproval on the fields that are not opaque.
ValidApproval(req) ==
  /\ req.keyVersion > 0
  /\ req.binding > 0
  /\ req.signing # req.agreement

MutAnyIdentity(row, req) == row # Null => row.binding < req.binding

\* The upsert of ApproveClaim changes exactly one row.
BindingAccepted(row, req) ==
  row # Null =>
    /\ row.signing = req.signing
    /\ row.agreement = req.agreement
    /\ row.keyVersion = req.keyVersion
    /\ row.binding < req.binding

\* The device row after the upsert: on conflict only the binding version and
\* the revoked flag (and approved_at) are assigned.
BoundDevice(row, req) ==
  IF row = Null
  THEN [signing |-> req.signing, agreement |-> req.agreement,
        keyVersion |-> req.keyVersion, binding |-> req.binding,
        revoked |-> FALSE]
  ELSE [row EXCEPT !.binding = req.binding, !.revoked = FALSE]

MutSiblingAnyScope(cl, c, x) ==
  x # c /\ IsPending(cl[x]) /\ cl[x].invite = cl[c].invite

MutNoSiblings(cl, c, x) == FALSE

\* A pending claim of the same invite as the approved claim c.
IsSibling(cl, c, x) ==
  /\ x # c
  /\ IsPending(cl[x])
  /\ cl[x].scope = cl[c].scope
  /\ cl[x].invite = cl[c].invite

MutLeaveOpen(inv, s, i) == inv

ConsumeInvite(inv, s, i) == [inv EXCEPT ![s][i].status = "consumed"]

\* The claims after the approval of c: c keeps the approval, its pending
\* siblings are consumed.
ClaimsAfterApproval(cl, c, req) ==
  [x \in ClaimIds |->
     IF x = c THEN [cl[c] EXCEPT !.status = "approved", !.approval = req]
     ELSE IF IsSibling(cl, c, x) THEN [cl[x] EXCEPT !.status = "consumed"]
     ELSE cl[x]]

\* The first approval of a pending claim.  The transaction neither reads the
\* tenant nor the host: those were checked when the ticket was consumed.
ApproveClaim(s, c, req, now) ==
  LET row == ExpiredClaims(now)[c] IN
  /\ ValidApproval(req)
  /\ IsPending(row)
  /\ row.scope = s
  /\ row.agreement = req.agreement
  /\ row.keyVersion = req.keyVersion
  /\ IsPending(ExpiredInvites(now)[s][row.invite])
  /\ BindingAccepted(devices[s][row.device], req)
  /\ devices' = [devices EXCEPT ![s][row.device] = BoundDevice(@, req)]
  /\ claims' = ClaimsAfterApproval(ExpiredClaims(now), c, req)
  /\ invites' = ConsumeInvite(ExpiredInvites(now), s, row.invite)
  /\ UNCHANGED <<enabled, creating, clock>>

MutReapproveRebinds(s, c, req, now) ==
  /\ claims[c] # Null
  /\ claims[c].status = "approved"
  /\ claims[c].scope = s
  /\ claims[c].approval = req
  /\ CommitExpiry(now)
  /\ devices' = [devices EXCEPT ![s][claims[c].device].revoked = FALSE]
  /\ UNCHANGED <<enabled, creating, clock>>

\* A repeated approval with the stored values succeeds and commits the expiry
\* only (approvalMatches); any other repetition is approval_conflict.
ReapproveClaim(s, c, req, now) ==
  /\ claims[c] # Null
  /\ claims[c].status = "approved"
  /\ claims[c].scope = s
  /\ claims[c].approval = req
  /\ CommitExpiry(now)
  /\ UNCHANGED <<devices, enabled, creating, clock>>

RevokeDevice(s, d) ==
  /\ devices[s][d] # Null
  /\ ~devices[s][d].revoked
  /\ devices' = [devices EXCEPT ![s][d].revoked = TRUE]
  /\ UNCHANGED <<invites, claims, enabled, creating, clock>>

-----------------------------------------------------------------------------
(* Environment *)

\* tenant.SetEnabled, run by the command line in another process.
SetEnabled(t, value) ==
  /\ enabled' = [enabled EXCEPT ![t] = value]
  /\ UNCHANGED <<invites, claims, devices, creating, clock>>

\* The relay stops and starts again: the tables survive, requests do not.
Restart ==
  /\ creating' = {}
  /\ UNCHANGED <<invites, claims, devices, enabled, clock>>

Tick ==
  /\ clock < MaxTime
  /\ clock' = clock + 1
  /\ UNCHANGED <<invites, claims, devices, enabled, creating>>

Headers ==
  [scope : Scopes, invite : InviteIds, device : DeviceIds, agreement : Keys,
   keyVersion : 0..MaxKeyVersion]

ApprovalRequests ==
  [signing : Keys, agreement : Keys, keyVersion : 0..MaxKeyVersion,
   binding : 0..MaxBinding, payload : Payloads]

HostRequest(s, now) ==
  \/ \E raw \in RawInviteIds :
       \/ \E e \in 0..MaxTime + MaxLifetime : CreateInviteCheck(s, raw, now, e)
       \/ CancelInvite(s, raw, now)
  \/ \E c \in ClaimIds :
       \/ RejectClaim(s, c, now)
       \/ \E req \in ApprovalRequests :
            ApproveClaim(s, c, req, now) \/ ReapproveClaim(s, c, req, now)
  \/ ListPendingClaims(now)

DeviceRequest(c, now) ==
  \/ \E header \in Headers : SubmitClaim(c, header, now)
  \/ GetClaimWithToken(c, now)
  \/ CancelClaim(c, now)

Next ==
  \/ \E s \in Scopes, now \in Nows : HostRequest(s, now)
  \/ \E c \in ClaimIds, now \in Nows : DeviceRequest(c, now)
  \/ \E r \in creating : CreateInviteInsert(r)
  \/ \E s \in Scopes, d \in DeviceIds : RevokeDevice(s, d)
  \/ \E t \in Tenants, value \in BOOLEAN : SetEnabled(t, value)
  \/ Restart
  \/ Tick

Spec == Init /\ [][Next]_vars

-----------------------------------------------------------------------------
(* Properties *)

Approved(c) == claims[c] # Null /\ claims[c].status = "approved"

\* The approved claims of an invite, and of a device.
Winners(s, i) ==
  {c \in ClaimIds : Approved(c) /\ claims[c].scope = s /\ claims[c].invite = i}

Bindings(s, d) ==
  {c \in ClaimIds : Approved(c) /\ claims[c].scope = s /\ claims[c].device = d}

\* An invite admits one device: however submissions, approvals, expiries and
\* cancellations interleave, at most one claim of an invite is ever approved,
\* and an invite is consumed exactly when one is (ApproveClaim).
OneWinner ==
  \A s \in Scopes, i \in InviteIds :
    /\ \A a, b \in Winners(s, i) : a = b
    /\ Winners(s, i) # {} <=>
         invites[s][i] # Null /\ invites[s][i].status = "consumed"

\* A claim can be pending only while its invite is, and both expire at the same
\* time: closing an invite (approval, cancellation, expiry) settles all of its
\* claims in the same transaction.
PendingClaimHasOpenInvite ==
  \A c \in ClaimIds : IsPending(claims[c]) =>
    LET invite == invites[claims[c].scope][claims[c].invite] IN
    IsPending(invite) /\ invite.expiresAt = claims[c].expiresAt

\* Cancelling an invite cancels its pending claims with it: none is left
\* pending under a cancelled invite (CancelInvite).
CancelledInviteSettles ==
  \A c \in ClaimIds : IsPending(claims[c]) =>
    invites[claims[c].scope][claims[c].invite].status # "cancelled"

DeviceMatches(s, d) ==
  LET row == devices[s][d] IN
  IF row = Null THEN Bindings(s, d) = {}
  ELSE /\ \E c \in Bindings(s, d) : claims[c].approval.binding = row.binding
       /\ \A c \in Bindings(s, d) :
            /\ claims[c].approval # Null
            /\ claims[c].approval.signing = row.signing
            /\ claims[c].approval.agreement = row.agreement
            /\ claims[c].approval.keyVersion = row.keyVersion
            /\ claims[c].approval.binding <= row.binding
       /\ \A a, b \in Bindings(s, d) :
            claims[a].approval.binding = claims[b].approval.binding => a = b

\* The devices table is what the approved claims add up to: a device exists
\* exactly when a claim for it was approved, all of its approvals carry its
\* identity, no two carry the same binding version, and its binding version is
\* the largest of them (the upsert of ApproveClaim and its WHERE clause).
DevicesMatchApprovals ==
  \A s \in Scopes, d \in DeviceIds : DeviceMatches(s, d)

\* A device row only changes to revoked, or by a step that spends a pending
\* invite on a pending claim for that very device under a larger binding
\* version; its keys never change.  In particular a repeated approval
\* (ReapproveClaim) never brings a revoked device back.
DeviceChangesAreAuthorised ==
  [][\A s \in Scopes, d \in DeviceIds :
       LET old == devices[s][d]
           new == devices'[s][d] IN
       new # old =>
         /\ new # Null
         /\ \/ old # Null /\ new = [old EXCEPT !.revoked = TRUE]
            \/ /\ old # Null =>
                    /\ new = [old EXCEPT !.revoked = FALSE, !.binding = new.binding]
                    /\ old.binding < new.binding
               /\ \E c \in ClaimIds :
                    /\ IsPending(claims[c]) /\ Approved(c)'
                    /\ claims[c].scope = s /\ claims[c].device = d
                    /\ claims'[c].approval.binding = new.binding
                    /\ IsPending(invites[s][claims[c].invite])]_vars

\* What a client has been told stays true: a claim that is not pending never
\* changes again, a pending one keeps its identity and expiry, and the same
\* holds for invites.
SettledStaysSettled ==
  [][/\ \A c \in ClaimIds : claims[c] # Null =>
          /\ claims'[c] # Null
          /\ IsPending(claims[c]) \/ claims'[c] = claims[c]
          /\ claims'[c] = [claims[c] EXCEPT !.status = claims'[c].status,
                                           !.approval = claims'[c].approval]
     /\ \A s \in Scopes, i \in InviteIds : invites[s][i] # Null =>
          /\ invites'[s][i] # Null
          /\ IsPending(invites[s][i]) \/ invites'[s][i] = invites[s][i]
          /\ invites'[s][i] = [invites[s][i] EXCEPT !.status = invites'[s][i].status]]_vars

\* Waiting for the connection can stretch an expiry by MaxLag and no more: a
\* claim is approved at most MaxLag after it expired, whatever time the
\* approving request had read.
ApprovedInTime ==
  [][\A c \in ClaimIds :
       Approved(c)' /\ ~Approved(c) => clock < claims[c].expiresAt + MaxLag]_vars

\* The rows of scope s that a step changes otherwise than by expiring them.
TouchedScopes ==
  {s \in Scopes :
     \/ devices'[s] # devices[s]
     \/ \E i \in InviteIds :
          /\ invites'[s][i] # invites[s][i]
          /\ invites'[s][i].status # "expired"
     \/ \E c \in ClaimIds :
          /\ claims'[c] # claims[c]
          /\ claims'[c].scope = s
          /\ claims'[c].status # "expired"}

\* Tenants and hosts are isolated although they share the tables and may use
\* the same invite and device ids: apart from the expiry sweep, a step changes
\* rows of a single tenant and host.
OneScopePerStep ==
  [][\A s1, s2 \in TouchedScopes : s1 = s2]_vars

-----------------------------------------------------------------------------
(* The abstract specification *)

InviteKeys == Scopes \X InviteIds

InviteState(row) ==
  IF row = Null THEN "none"
  ELSE CASE row.status = "pending" -> "open"
         [] row.status = "consumed" -> "won"
         [] OTHER -> "closed"

Abstract == INSTANCE Invitation WITH
  Invites <- InviteKeys,
  Claims <- ClaimIds,
  state <- [k \in InviteKeys |-> InviteState(invites[k[1]][k[2]])],
  winners <- [k \in InviteKeys |-> Winners(k[1], k[2])]

\* The pairing service implements Invitation: every invite is opened once, is
\* closed or won by a single claim, and never reopened or won by a second one.
ImplementsInvitation == Abstract!InvitationSpec
=============================================================================
