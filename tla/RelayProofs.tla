----------------------------- MODULE RelayProofs -----------------------------
(***************************************************************************)
(* Theorems about the handlers, for every number of hosts, devices,        *)
(* requests and tickets: they implement Pairing and so inherit its         *)
(* theorems, a disabled tenant changes nothing that was not authorised     *)
(* before, and every effect of a host is paid for with a ticket.           *)
(***************************************************************************)
EXTENDS Relay, PairingProofs

\* The leaves go to Zenon; the ones that need more name their prover.
USE Zenon

-----------------------------------------------------------------------------
(* What a claim is about never changes *)

\* A row of pairing_claims stays, for the same host and the same device.
SameClaim(old, new) ==
  old # Null => new # Null /\ new.scope = old.scope /\ new.device = old.device

\* No step of Pairing lets a claim id be of another host or device.
LEMMA ClaimsStaySame ==
  ASSUME TypeOK, [Next]_vars, NEW x \in ClaimIds
  PROVE  SameClaim(claims[x], claims'[x])
<1>1. ClaimStays(claims[x], claims'[x])
  BY RowsStay
<1>2. ASSUME NEW old \in ClaimRow, NEW new, ClaimStays(old, new)
      PROVE  SameClaim(old, new)
  <2>1. PICK status, approval :
          old # Null =>
            /\ new # Null
            /\ new = [old EXCEPT !.status = status, !.approval = approval]
    BY <1>2 DEF ClaimStays
  <2>2. QED
    BY <2>1 DEF SameClaim, ClaimRow
<1>3. claims[x] \in ClaimRow \cup {Null}
  BY DEF TypeOK
<1>4. QED
  BY <1>1, <1>2, <1>3 DEF SameClaim

-----------------------------------------------------------------------------
(* Types, and the stale device id *)

\* What a request carries through its stages is still true of the tables: the
\* claim that ClaimDeviceID found is there, for the same host and device.
RequestOK(q) ==
  /\ q.purpose \in ClaimPurposes =>
       /\ q.target \in ClaimIds
       /\ claims[q.target] # Null
       /\ claims[q.target].scope = q.host
       /\ claims[q.target].device = q.device
  /\ q.purpose = "device_revoke" => q.target \in DeviceIds /\ q.device = q.target
  /\ q.purpose \in InvitePurposes \cup ListPurposes => q.device = NoDevice
  /\ q.stage = "inserting" =>
       q.purpose = "pairing_invite_create" /\ q.target.scope = q.host

RequestsOK == \A r \in Requests : running[r] # Null => RequestOK(running[r])

\* The targets of an endpoint have its type, and Receive makes a request of
\* which RequestOK holds.
LEMMA ReceiveOK ==
  ASSUME RelayTypeOK, NEW purpose \in Asked, NEW s \in Scopes,
         NEW target \in Targets(purpose, s),
         NEW q, q = [purpose |-> purpose, host |-> s, target |-> target,
                     device |-> ScopeDevice(purpose, target),
                     stage |-> "received"]
  PROVE  q \in Running /\ RequestOK(q)
<1>   purpose \in Purposes
  BY RelayConstants
<1>2. CASE purpose \in ClaimPurposes
  <2>1. target \in ClaimIds /\ claims[target] # Null /\ claims[target].scope = s
    BY <1>2 DEF Targets
  <2>2. claims[target] \in ClaimRow
    BY <2>1 DEF RelayTypeOK, TypeOK
  <2>3. ScopeDevice(purpose, target) = claims[target].device
    BY <1>2 DEF ScopeDevice
  <2>4. claims[target].device \in DeviceIds
    BY <2>2 DEF ClaimRow
  <2>5. QED
    BY <1>2, <2>1, <2>3, <2>4
    DEF Running, RequestOK, ClaimPurposes, InvitePurposes, ListPurposes
<1>3. CASE purpose = "device_revoke"
  BY <1>3 DEF Targets, ScopeDevice, Running, RequestOK, ClaimPurposes,
     InvitePurposes, ListPurposes
<1>4. CASE purpose \notin ClaimPurposes /\ purpose # "device_revoke"
  BY <1>4 DEF Targets, ScopeDevice, Running, RequestOK
<1>5. QED
  BY <1>2, <1>3, <1>4

\* RequestOK survives every step of Pairing: in the statements between
\* ClaimDeviceID and the operation, the claim cannot become another one's.
LEMMA RequestStaysOK ==
  ASSUME TypeOK, [Next]_vars, NEW q, RequestOK(q)
  PROVE  RequestOK(q)'
<1>1. q.purpose \in ClaimPurposes =>
        SameClaim(claims[q.target], claims'[q.target])
  BY ClaimsStaySame DEF RequestOK
<1>2. QED
  BY <1>1 DEF RequestOK, SameClaim

-----------------------------------------------------------------------------
(* The handlers implement Pairing *)

\* A handler that acts takes the step of Pairing that its endpoint stands for.
LEMMA ActIsPairingStep ==
  ASSUME RelayTypeOK, RequestsOK, NEW r \in Requests, NEW now \in Nows,
         Act(r, now)
  PROVE  [Next]_vars
<1> DEFINE q == running[r]
<1>   q # Null /\ RequestOK(q)
  BY DEF Act, At, RequestsOK
<1>2. q.host \in Scopes
  BY DEF RelayTypeOK, Running
<1>   HostRequest(q.host, now) => Next
  BY <1>2 DEF Next
<1>4. CASE handleCancelInvite(q, now)
  BY <1>4 DEF handleCancelInvite, HostRequest
<1>5. CASE handleListPairingClaims(q, now)
  BY <1>5 DEF handleListPairingClaims, HostRequest
<1>6. CASE handleApprovePairingClaim(q, now)
  <2>1. q.target \in ClaimIds
    BY <1>6 DEF RequestOK, handleApprovePairingClaim, ClaimPurposes
  <2>2. QED
    BY <1>6, <2>1 DEF handleApprovePairingClaim, HostRequest
<1>7. CASE handleRejectPairingClaim(q, now)
  <2>1. q.target \in ClaimIds
    BY <1>7 DEF RequestOK, handleRejectPairingClaim, ClaimPurposes
  <2>2. QED
    BY <1>7, <2>1 DEF handleRejectPairingClaim, HostRequest
<1>8. CASE handleListDevices(q)
  BY <1>8 DEF handleListDevices
<1>9. CASE handleRevokeDevice(q)
  <2>1. q.target \in DeviceIds
    BY <1>9 DEF RequestOK, handleRevokeDevice
  <2>2. QED
    BY <1>2, <1>9, <2>1 DEF handleRevokeDevice, Next
<1>10. QED
  BY <1>4, <1>5, <1>6, <1>7, <1>8, <1>9 DEF Act

\* Every step of the relay is a step of Pairing, or leaves its tables alone.
LEMMA StepIsPairingStep ==
  ASSUME RelayTypeOK, RequestsOK, [RelayNext]_relayVars
  PROVE  [Next]_vars
<1>1. ASSUME NEW r \in Requests, NEW raw \in RawInviteIds, NEW now \in Nows,
             NEW e \in 0 .. MaxTime + MaxLifetime,
             handleCreateInviteCheck(r, raw, now, e)
      PROVE  [Next]_vars
  <2>1. running[r].host \in Scopes
    BY <1>1 DEF handleCreateInviteCheck, At, RelayTypeOK, Running
  <2>2. CreateInviteCheck(running[r].host, raw, now, e)
    BY <1>1 DEF handleCreateInviteCheck
  <2>3. HostRequest(running[r].host, now)
    BY <2>2 DEF HostRequest
  <2>4. QED
    BY <2>1, <2>3 DEF Next
<1>2. ASSUME NEW r \in Requests, handleCreateInviteInsert(r)
      PROVE  [Next]_vars
  BY <1>2 DEF handleCreateInviteInsert, CreateInviteInsert, Next
<1>3. ASSUME NEW r \in Requests,
             \/ \E purpose \in Asked, s \in Scopes :
                  \E target \in Targets(purpose, s) :
                    Receive(r, purpose, s, target)
             \/ \E t \in TicketIds : authorizeTicket(r, t)
             \/ Fail(r)
      PROVE  [Next]_vars
  BY <1>3 DEF Receive, authorizeTicket, Fail
<1>4. CASE \E t \in TicketIds, scope \in HostScope : IssueTicket(t, scope)
  BY <1>4 DEF IssueTicket
<1>5. CASE Unauthenticated
  BY <1>5 DEF Unauthenticated, Next
<1>6. CASE RelayRestart
  BY <1>6 DEF RelayRestart, Next
<1>7. CASE UNCHANGED relayVars
  BY <1>7 DEF relayVars
<1>8. QED
  BY <1>1, <1>2, <1>3, <1>4, <1>5, <1>6, <1>7, ActIsPairingStep DEF RelayNext

\* The part of RelayTypeOK that is not Pairing's.
RequestTypes ==
  /\ running \in [Requests -> Running \cup {Null}]
  /\ issued \in [TicketIds -> HostScope \cup {Null}]
  /\ uses \in [TicketIds -> {0, 1}]

\* Where the running requests and the tickets change.
LEMMA RequestTypesStep ==
  ASSUME RelayTypeOK, RequestsOK, [RelayNext]_relayVars
  PROVE  RequestTypes'
<1> USE DEF RelayTypeOK, RequestTypes
<1>1. ASSUME NEW r \in Requests, NEW purpose \in Asked, NEW s \in Scopes,
             NEW target \in Targets(purpose, s), Receive(r, purpose, s, target)
      PROVE  RequestTypes'
  <2>1. PICK q : q = [purpose |-> purpose, host |-> s, target |-> target,
                      device |-> ScopeDevice(purpose, target),
                      stage |-> "received"]
    OBVIOUS
  <2>2. q \in Running
    BY <2>1, ReceiveOK
  <2>3. running' = [running EXCEPT ![r] = q]
    BY <1>1, <2>1 DEF Receive
  <2>4. QED
    BY <1>1, <2>2, <2>3 DEF Receive
<1>2. ASSUME NEW r \in Requests, NEW t \in TicketIds, authorizeTicket(r, t)
      PROVE  RequestTypes'
  <2>1. running[r] \in Running
    BY <1>2 DEF authorizeTicket, At
  <2>2. [running[r] EXCEPT !.stage = "authorised"] \in Running
    BY <2>1 DEF Running
  <2>3. running' \in [Requests -> Running \cup {Null}]
    BY <1>2, <2>2 DEF authorizeTicket
  <2>4. QED
    BY <1>2, <2>3 DEF authorizeTicket, T!Spend
<1>3. ASSUME NEW r \in Requests, Ends(r), UNCHANGED <<issued, uses>>
      PROVE  RequestTypes'
  BY <1>3 DEF Ends
<1>4. ASSUME NEW r \in Requests, NEW raw \in RawInviteIds, NEW now \in Nows,
             NEW e \in 0 .. MaxTime + MaxLifetime,
             handleCreateInviteCheck(r, raw, now, e)
      PROVE  RequestTypes'
  <2>1. running[r] \in Running
    BY <1>4 DEF handleCreateInviteCheck, At
  <2>2. PICK row : row = [scope |-> running[r].host, id |-> raw.id,
                          expiresAt |-> e]
    OBVIOUS
  <2>3. e \in Nat
    BY SMT, PairingConstants
  <2>4. row \in InviteRequest
    BY <2>1, <2>2, <2>3 DEF InviteRequest, Running, RawInviteIds
  <2>5. [running[r] EXCEPT !.stage = "inserting", !.target = row] \in Running
    BY <2>1, <2>4 DEF Running
  <2>6. running' = [running EXCEPT ![r] =
                      [running[r] EXCEPT !.stage = "inserting", !.target = row]]
    BY <1>4, <2>2 DEF handleCreateInviteCheck
  <2>7. QED
    BY <1>4, <2>5, <2>6 DEF handleCreateInviteCheck
<1>5. ASSUME NEW t \in TicketIds, NEW scope \in HostScope, IssueTicket(t, scope)
      PROVE  RequestTypes'
  BY <1>5 DEF IssueTicket, T!Issue
<1>6. CASE RelayRestart
  BY <1>6 DEF RelayRestart
<1>7. ASSUME UNCHANGED <<running, issued, uses>>
      PROVE  RequestTypes'
  BY <1>7
<1>8. QED
  BY <1>1, <1>2, <1>3, <1>4, <1>5, <1>6, <1>7
  DEF RelayNext, relayVars, Act, handleCreateInviteInsert, Fail, Unauthenticated

\* No step changes a request to one that RequestOK does not hold of.
LEMMA RequestsOKStep ==
  ASSUME RelayTypeOK, RequestsOK, [RelayNext]_relayVars
  PROVE  RequestsOK'
<1>1. ASSUME NEW q, RequestOK(q)
      PROVE  RequestOK(q)'
  BY <1>1, StepIsPairingStep, RequestStaysOK DEF RelayTypeOK
<1>2. ASSUME NEW r \in Requests, NEW q, running'[r] = q, q # Null
      PROVE  RequestOK(q)'
  <2>1. CASE running[r] = q
    BY <1>1, <1>2, <2>1 DEF RequestsOK
  <2>2. ASSUME NEW purpose \in Asked, NEW s \in Scopes,
               NEW target \in Targets(purpose, s),
               Receive(r, purpose, s, target)
        PROVE  RequestOK(q)'
    <3>1. q = [purpose |-> purpose, host |-> s, target |-> target,
               device |-> ScopeDevice(purpose, target), stage |-> "received"]
      BY <1>2, <2>2 DEF Receive, RelayTypeOK
    <3>2. QED
      BY <1>1, <3>1, ReceiveOK
  <2>3. ASSUME NEW t \in TicketIds, authorizeTicket(r, t)
        PROVE  RequestOK(q)'
    <3>1. PICK old : old = running[r]
      OBVIOUS
    <3>2. old \in Running /\ RequestOK(old)
      BY <2>3, <3>1 DEF authorizeTicket, At, RelayTypeOK, RequestsOK
    <3>3. q = [old EXCEPT !.stage = "authorised"]
      BY <1>2, <2>3, <3>1 DEF authorizeTicket, RelayTypeOK
    <3>4. RequestOK(q)
      BY <3>2, <3>3 DEF RequestOK, Running
    <3>5. QED
      BY <1>1, <3>4
  <2>4. ASSUME NEW raw \in RawInviteIds, NEW now \in Nows,
               NEW e \in 0 .. MaxTime + MaxLifetime,
               handleCreateInviteCheck(r, raw, now, e)
        PROVE  RequestOK(q)'
    <3>1. PICK old : old = running[r]
      OBVIOUS
    <3>2. old \in Running /\ RequestOK(old)
          /\ old.purpose = "pairing_invite_create"
      BY <2>4, <3>1 DEF handleCreateInviteCheck, At, RelayTypeOK, RequestsOK
    <3>3. q = [old EXCEPT !.stage = "inserting", !.target =
                 [scope |-> old.host, id |-> raw.id, expiresAt |-> e]]
      BY <1>2, <2>4, <3>1 DEF handleCreateInviteCheck, RelayTypeOK
    <3>4. RequestOK(q)
      BY <3>2, <3>3 DEF RequestOK, Running, ClaimPurposes, InvitePurposes
    <3>5. QED
      BY <1>1, <3>4
  <2>5. ASSUME NEW x \in Requests, Ends(x)
        PROVE  RequestOK(q)'
    BY <1>2, <2>1, <2>5 DEF Ends, RelayTypeOK
  <2>6. ASSUME NEW x \in Requests \ {r}, NEW purpose \in Asked, NEW s \in Scopes,
               NEW target \in Targets(purpose, s),
               Receive(x, purpose, s, target)
        PROVE  RequestOK(q)'
    BY <1>2, <2>1, <2>6 DEF Receive, RelayTypeOK
  <2>7. ASSUME NEW x \in Requests \ {r}, NEW t \in TicketIds,
               authorizeTicket(x, t)
        PROVE  RequestOK(q)'
    BY <1>2, <2>1, <2>7 DEF authorizeTicket, RelayTypeOK
  <2>8. ASSUME NEW x \in Requests \ {r}, NEW raw \in RawInviteIds,
               NEW now \in Nows, NEW e \in 0 .. MaxTime + MaxLifetime,
               handleCreateInviteCheck(x, raw, now, e)
        PROVE  RequestOK(q)'
    BY <1>2, <2>1, <2>8 DEF handleCreateInviteCheck, RelayTypeOK
  <2>9. CASE RelayRestart
    BY <1>2, <2>9 DEF RelayRestart
  <2>10. CASE UNCHANGED running
    BY <1>2, <2>1, <2>10
  <2>11. ASSUME NEW x \in Requests, NEW now \in Nows, Act(x, now)
         PROVE  RequestOK(q)'
    BY <2>5, <2>11 DEF Act
  <2>12. CASE \/ \E t \in TicketIds, scope \in HostScope : IssueTicket(t, scope)
              \/ Unauthenticated
              \/ UNCHANGED relayVars
    BY <2>10, <2>12 DEF IssueTicket, Unauthenticated, relayVars
  <2>13. ASSUME NEW x \in Requests, handleCreateInviteInsert(x) \/ Fail(x)
         PROVE  RequestOK(q)'
    BY <2>5, <2>13 DEF handleCreateInviteInsert, Fail
  <2>14. ASSUME NEW x \in Requests,
                \E purpose \in Asked, s \in Scopes :
                  \E target \in Targets(purpose, s) :
                    Receive(x, purpose, s, target)
         PROVE  RequestOK(q)'
    BY <2>2, <2>6, <2>14
  <2>15. ASSUME NEW x \in Requests, NEW t \in TicketIds, authorizeTicket(x, t)
         PROVE  RequestOK(q)'
    BY <2>3, <2>7, <2>15
  <2>16. ASSUME NEW x \in Requests, NEW raw \in RawInviteIds, NEW now \in Nows,
                NEW e \in 0 .. MaxTime + MaxLifetime,
                handleCreateInviteCheck(x, raw, now, e)
         PROVE  RequestOK(q)'
    BY <2>4, <2>8, <2>16
  <2>17. QED
    BY <2>9, <2>11, <2>12, <2>13, <2>14, <2>15, <2>16 DEF RelayNext
<1>3. QED
  BY <1>2 DEF RequestsOK

\* Requests and tickets keep their types.
THEOREM RelayTypeCorrect == RelaySpec => [](RelayTypeOK /\ RequestsOK)
<1>1. RelayInit => RelayTypeOK /\ RequestsOK
  BY SMT DEF RelayInit, Init, TypeOK, RelayTypeOK, RequestsOK, T!TicketsInit
<1>2. RelayTypeOK /\ RequestsOK /\ [RelayNext]_relayVars
        => RelayTypeOK' /\ RequestsOK'
  <2> SUFFICES ASSUME RelayTypeOK, RequestsOK, [RelayNext]_relayVars
               PROVE  RelayTypeOK' /\ RequestsOK'
    OBVIOUS
  <2>1. TypeOK'
    BY StepIsPairingStep, NextType DEF RelayTypeOK
  <2>2. QED
    BY <2>1, RequestTypesStep, RequestsOKStep DEF RelayTypeOK, RequestTypes
<1>3. QED
  BY <1>1, <1>2, PTL DEF RelaySpec

\* The handlers, with their stages, tickets and failures in between, take only
\* steps of Pairing on its tables.
THEOREM RelayImplementsPairing == RelaySpec => ImplementsPairing
<1>1. RelayInit => Init
  BY DEF RelayInit
<1>2. RelayTypeOK /\ RequestsOK /\ [RelayNext]_relayVars => [Next]_vars
  BY StepIsPairingStep
<1>3. QED
  BY <1>1, <1>2, RelayTypeCorrect, PTL DEF RelaySpec, ImplementsPairing

\* So a relay with tickets and several requests at a time keeps one winner per
\* invite and devices that match the approved claims.
THEOREM RelayPairsSafely == RelaySpec => [](OneWinner /\ DevicesMatchApprovals)
  BY RelayImplementsPairing, InviteHasOneWinner, DevicesAlwaysMatch, PTL
  DEF ImplementsPairing, Spec

-----------------------------------------------------------------------------
(* What an operation changes for the hosts *)

Has(row, status) == row # Null /\ row.status = status

\* The row is as settled after the step as before.
ClaimKept(old, new) ==
  \A status \in {"approved", "rejected"} : Has(new, status) <=> Has(old, status)

InviteKept(old, new) ==
  /\ new = Null <=> old = Null
  /\ \A status \in {"consumed", "cancelled"} : Has(new, status) <=> Has(old, status)

ClaimsKeptBut(C) == \A c \in ClaimIds \ C : ClaimKept(claims[c], claims'[c])

InvitesKeptBut(s, I) ==
  \A t \in Scopes, i \in InviteIds :
    ~(t = s /\ i \in I) => InviteKept(invites[t][i], invites'[t][i])

\* A swept row is kept.
LEMMA SweptIsKept ==
  ASSUME NEW old, NEW new, SweptRow(old, new)
  PROVE  ClaimKept(old, new) /\ InviteKept(old, new)
  BY DEF SweptRow, IsPending, ClaimKept, InviteKept, Has

\* The sweep keeps every row.
LEMMA ExpiryIsKept ==
  ASSUME TypeOK, NEW now
  PROVE  /\ \A c \in ClaimIds : ClaimKept(claims[c], ExpiredClaims(now)[c])
         /\ \A s \in Scopes, i \in InviteIds :
              InviteKept(invites[s][i], ExpiredInvites(now)[s][i])
  BY ExpiryIsQuiet, SweptIsKept

\* CancelInvite writes one invite, and settles no claim in the host's name.
LEMMA CancelInviteKeeps ==
  ASSUME TypeOK, NEW s \in Scopes, NEW raw \in RawInviteIds, NEW now,
         CancelInvite(s, raw, now)
  PROVE  /\ raw.id \in InviteIds
         /\ ClaimsKeptBut({})
         /\ InvitesKeptBut(s, {raw.id})
         /\ invites[s][raw.id] # Null
         /\ UNCHANGED devices
<1>   raw.id \in InviteIds
  BY DEF RawInviteIds
<1>2. /\ ExpiredInvites(now) \in [Scopes -> [InviteIds -> InviteRow \cup {Null}]]
      /\ ExpiredClaims(now) \in [ClaimIds -> ClaimRow \cup {Null}]
  BY ExpiredTables
<1>3. ASSUME NEW c \in ClaimIds
      PROVE  ClaimKept(claims[c], claims'[c])
  <2>1. CASE CancelledWith(ExpiredClaims(now)[c], s, raw)
    <3>1. claims'[c].status = "cancelled"
      BY <1>2, <2>1 DEF CancelInvite, CancelledWith, IsPending, ClaimRow
    <3>2. IsPending(claims[c])
      BY <2>1, ExpiryIsQuiet DEF CancelledWith, SweptRow
    <3>3. QED
      BY <3>1, <3>2 DEF IsPending, ClaimKept, Has
  <2>2. CASE ~CancelledWith(ExpiredClaims(now)[c], s, raw)
    BY <2>2, ExpiryIsKept DEF CancelInvite
  <2>3. QED
    BY <2>1, <2>2
<1>4. ASSUME NEW t \in Scopes, NEW i \in InviteIds, ~(t = s /\ i = raw.id)
      PROVE  InviteKept(invites[t][i], invites'[t][i])
  <2>1. invites'[t][i] = ExpiredInvites(now)[t][i]
    BY <1>2, <1>4 DEF CancelInvite
  <2>2. QED
    BY <2>1, ExpiryIsKept
<1>5. invites[s][raw.id] # Null
  BY ZenonT(40), ExpiryIsQuiet DEF CancelInvite, IsPending, SweptRow
<1>6. QED
  BY <1>3, <1>4, <1>5 DEF ClaimsKeptBut, InvitesKeptBut, CancelInvite

\* A claim is inserted or settled, otherwise than by approval: the others and
\* the invites are kept.
LEMMA OneClaimKeeps ==
  ASSUME TypeOK, NEW now, NEW c \in ClaimIds,
         \E new : claims' = [ExpiredClaims(now) EXCEPT ![c] = new],
         invites' = ExpiredInvites(now)
  PROVE  ClaimsKeptBut({c}) /\ \A s \in Scopes : InvitesKeptBut(s, {})
<1>1. ExpiredClaims(now) \in [ClaimIds -> ClaimRow \cup {Null}]
  BY ExpiredTables
<1>2. ASSUME NEW x \in ClaimIds \ {c}
      PROVE  ClaimKept(claims[x], claims'[x])
  <2>1. claims'[x] = ExpiredClaims(now)[x]
    BY <1>1, <1>2
  <2>2. QED
    BY <1>2, <2>1, ExpiryIsKept
<1>3. QED
  BY <1>2, ExpiryIsKept DEF ClaimsKeptBut, InvitesKeptBut

\* RejectClaim settles the claim it names.
LEMMA RejectClaimKeeps ==
  ASSUME TypeOK, NEW s \in Scopes, NEW c \in ClaimIds, NEW now,
         RejectClaim(s, c, now)
  PROVE  /\ ClaimsKeptBut({c})
         /\ ~Has(claims'[c], "approved")
         /\ InvitesKeptBut(s, {})
         /\ UNCHANGED devices
<1>1. ExpiredClaims(now) \in [ClaimIds -> ClaimRow \cup {Null}]
  BY ExpiredTables
<1>2. ExpiredClaims(now)[c] \in ClaimRow
  BY <1>1 DEF RejectClaim, IsPending
<1>3. claims'[c].status = "rejected"
  BY <1>1, <1>2 DEF RejectClaim, ClaimRow
<1>4. ClaimsKeptBut({c}) /\ InvitesKeptBut(s, {})
  BY OneClaimKeeps DEF RejectClaim
<1>5. QED
  BY <1>3, <1>4 DEF RejectClaim, Has

\* The requests of devices settle nothing in the name of a host.
LEMMA DeviceRequestKeeps ==
  ASSUME TypeOK, NEW c \in ClaimIds, NEW now \in Nows, DeviceRequest(c, now)
  PROVE  /\ ClaimsKeptBut({})
         /\ \A s \in Scopes : InvitesKeptBut(s, {})
         /\ UNCHANGED devices
<1>   ExpiredClaims(now) \in [ClaimIds -> ClaimRow \cup {Null}]
  BY ExpiredTables
<1>2. ASSUME NEW header \in Headers, SubmitClaim(c, header, now)
      PROVE  ClaimsKeptBut({}) /\ \A s \in Scopes : InvitesKeptBut(s, {})
  <2>1. ClaimsKeptBut({c}) /\ \A s \in Scopes : InvitesKeptBut(s, {})
    BY <1>2, OneClaimKeeps DEF SubmitClaim
  <2>2. claims[c] = Null /\ claims'[c].status = "pending"
    BY <1>2 DEF SubmitClaim
  <2>3. ClaimKept(claims[c], claims'[c])
    BY <2>2 DEF ClaimKept, Has
  <2>4. QED
    BY <2>1, <2>3 DEF ClaimsKeptBut
<1>3. ASSUME CancelClaim(c, now)
      PROVE  ClaimsKeptBut({}) /\ \A s \in Scopes : InvitesKeptBut(s, {})
  <2>1. ClaimsKeptBut({c}) /\ \A s \in Scopes : InvitesKeptBut(s, {})
    BY <1>3, OneClaimKeeps DEF CancelClaim
  <2>2. ExpiredClaims(now)[c] \in ClaimRow /\ IsPending(claims[c])
    BY <1>3, ExpiryIsQuiet DEF CancelClaim, IsPending, SweptRow
  <2>3. claims'[c].status = "cancelled"
    BY <1>3, <2>2 DEF CancelClaim, ClaimRow
  <2>4. ClaimKept(claims[c], claims'[c])
    BY <2>2, <2>3 DEF ClaimKept, Has, IsPending
  <2>5. QED
    BY <2>1, <2>4 DEF ClaimsKeptBut
<1>4. ASSUME GetClaimWithToken(c, now)
      PROVE  ClaimsKeptBut({}) /\ \A s \in Scopes : InvitesKeptBut(s, {})
  BY <1>4, ExpiryIsKept
  DEF GetClaimWithToken, CommitExpiry, ClaimsKeptBut, InvitesKeptBut
<1>5. ClaimsKeptBut({}) /\ \A s \in Scopes : InvitesKeptBut(s, {})
  BY <1>2, <1>3, <1>4 DEF DeviceRequest
<1>6. UNCHANGED devices
  BY DEF DeviceRequest, SubmitClaim, CancelClaim, GetClaimWithToken
<1>7. QED
  BY <1>5, <1>6

\* ApproveClaim approves the claim it names, consumes its invite, and leaves no
\* other trace but the device of the claim, which is not revoked afterwards.
LEMMA ApproveClaimKeeps ==
  ASSUME TypeOK, NEW s \in Scopes, NEW c \in ClaimIds,
         NEW req \in ApprovalRequests, NEW now \in Nows,
         ApproveClaim(s, c, req, now)
  PROVE  /\ ClaimsKeptBut({c})
         /\ ~Has(claims'[c], "rejected")
         /\ \E i \in InviteIds :
              /\ InvitesKeptBut(s, {i})
              /\ invites[s][i] # Null
              /\ ~Has(invites'[s][i], "cancelled")
         /\ \A t \in Scopes, d \in DeviceIds :
              \/ devices'[t][d] = devices[t][d]
              \/ t = s /\ ~devices'[t][d].revoked
<1> DEFINE cl == ExpiredClaims(now)
           inv == ExpiredInvites(now)
           i == claims[c].invite
           d == claims[c].device
<1>   /\ inv \in [Scopes -> [InviteIds -> InviteRow \cup {Null}]]
      /\ cl \in [ClaimIds -> ClaimRow \cup {Null}]
  BY ExpiredTables
<1>2. ApprovalEffect(s, c, req)
  BY ApprovalFacts
<1>3. claims[c] \in ClaimRow /\ IsPending(claims[c]) /\ claims[c].scope = s
      /\ claims'[c] = [claims[c] EXCEPT !.status = "approved", !.approval = req]
  BY <1>2 DEF ApprovalEffect
<1>   i \in InviteIds /\ d \in DeviceIds
  BY <1>3 DEF ClaimRow
<1>   cl[c] = claims[c]
  <2>1. IsPending(cl[c])
    BY DEF ApproveClaim
  <2>2. SweptRow(claims[c], cl[c])
    BY ExpiryIsQuiet
  <2>3. QED
    BY <2>1, <2>2 DEF SweptRow
<1>6. ~Has(claims'[c], "rejected")
  BY <1>3 DEF Has, ClaimRow
<1>7. ASSUME NEW x \in ClaimIds \ {c}
      PROVE  ClaimKept(claims[x], claims'[x])
  <2>1. CASE IsSibling(cl, c, x)
    <3>1. claims'[x] = [cl[x] EXCEPT !.status = "consumed"]
      BY <1>7, <2>1 DEF ApproveClaim, ClaimsAfterApproval
    <3>2. cl[x] \in ClaimRow /\ IsPending(claims[x])
      BY <1>7, <2>1, ExpiryIsQuiet DEF IsSibling, IsPending, SweptRow
    <3>3. claims'[x].status = "consumed"
      BY <3>1, <3>2 DEF ClaimRow
    <3>4. QED
      BY <3>2, <3>3 DEF IsPending, ClaimKept, Has
  <2>2. CASE ~IsSibling(cl, c, x)
    <3>1. claims'[x] = cl[x]
      BY <1>7, <2>2 DEF ApproveClaim, ClaimsAfterApproval
    <3>2. QED
      BY <1>7, <3>1, ExpiryIsKept
  <2>3. QED
    BY <2>1, <2>2
<1>8. invites' = [inv EXCEPT ![s][i].status = "consumed"]
  BY DEF ApproveClaim, ConsumeInvite
<1>9. ASSUME NEW t \in Scopes, NEW j \in InviteIds, ~(t = s /\ j = i)
      PROVE  InviteKept(invites[t][j], invites'[t][j])
  <2>1. invites'[t][j] = inv[t][j]
    BY <1>8, <1>9
  <2>2. QED
    BY <2>1, ExpiryIsKept
<1>10. invites[s][i] # Null /\ ~Has(invites'[s][i], "cancelled")
  <2>1. IsPending(inv[s][i])
    BY DEF ApproveClaim
  <2>2. IsPending(invites[s][i])
    BY <1>2 DEF ApprovalEffect
  <2>3. inv[s][i] \in InviteRow
    BY SMT, <2>1 DEF IsPending
  <2>4. invites'[s][i] = [inv[s][i] EXCEPT !.status = "consumed"]
    BY <1>8
  <2>5. invites'[s][i].status = "consumed"
    BY <2>3, <2>4 DEF InviteRow
  <2>6. QED
    BY <2>2, <2>5 DEF IsPending, Has
<1>11. ASSUME NEW t \in Scopes, NEW e \in DeviceIds
       PROVE  \/ devices'[t][e] = devices[t][e]
              \/ t = s /\ ~devices'[t][e].revoked
  <2>1. devices' = [devices EXCEPT ![s][d] = BoundDevice(devices[s][d], req)]
    BY DEF ApproveClaim, TypeOK
  <2>2. CASE t = s /\ e = d
    <3>1. devices'[t][e] = BoundDevice(devices[s][d], req)
      BY <2>1, <2>2 DEF TypeOK
    <3>2. devices[s][d] \in DeviceRow \cup {Null}
      BY DEF TypeOK
    <3>3. BoundDevice(devices[s][d], req).revoked = FALSE
      BY <3>2 DEF BoundDevice, DeviceRow
    <3>4. QED
      BY <2>2, <3>1, <3>3
  <2>3. CASE ~(t = s /\ e = d)
    BY <2>1, <2>3 DEF TypeOK
  <2>4. QED
    BY <2>2, <2>3
<1>12. QED
  BY <1>6, <1>7, <1>9, <1>10, <1>11 DEF ClaimsKeptBut, InvitesKeptBut

-----------------------------------------------------------------------------
(* A disabled tenant *)

\* A step on the rows of one host.
StepOn(h) ==
  /\ \A c \in ClaimIds :
       claims[c] # Null /\ claims[c].scope # h => ClaimKept(claims[c], claims'[c])
  /\ \A c \in ClaimIds : claims[c] = Null => ClaimKept(claims[c], claims'[c])
  /\ \A s \in Scopes \ {h}, i \in InviteIds :
       InviteKept(invites[s][i], invites'[s][i])
  /\ \A s \in Scopes \ {h} : devices'[s] = devices[s]

\* A step on the rows of a host leaves alone what the hosts of other tenants
\* control.
LEMMA StepOnOneTenant ==
  ASSUME RelayTypeOK, [Next]_vars, NEW h, StepOn(h), NEW t,
         \A s \in Scopes : s[1] = t => s # h
  PROVE  HostRows(t)' = HostRows(t)
<1> DEFINE Hosted(s) ==
      <<devices[s],
        {i \in InviteIds : invites[s][i] # Null},
        InvitesIn(s, {"consumed", "cancelled"}),
        {c \in ClaimIds : claims[c] # Null /\ claims[c].scope = s
                            /\ claims[c].status \in {"approved", "rejected"}}>>
<1>1. ASSUME NEW s \in Scopes, s[1] = t
      PROVE  Hosted(s)' = Hosted(s)
  <2>   s # h
    BY <1>1
  <2>2. ASSUME NEW i \in InviteIds
        PROVE  /\ (invites[s][i] # Null)' <=> invites[s][i] # Null
               /\ (invites'[s][i] # Null
                     /\ invites'[s][i].status \in {"consumed", "cancelled"})
                  <=> (invites[s][i] # Null
                     /\ invites[s][i].status \in {"consumed", "cancelled"})
    <3>1. InviteKept(invites[s][i], invites'[s][i])
      BY DEF StepOn
    <3>2. QED
      BY <3>1 DEF InviteKept, Has
  <2>3. InvitesIn(s, {"consumed", "cancelled"})'
          = InvitesIn(s, {"consumed", "cancelled"})
    BY <2>2 DEF InvitesIn
  <2>4. ASSUME NEW c \in ClaimIds
        PROVE  (claims'[c] # Null /\ claims'[c].scope = s
                  /\ claims'[c].status \in {"approved", "rejected"})
               <=> (claims[c] # Null /\ claims[c].scope = s
                     /\ claims[c].status \in {"approved", "rejected"})
    <3>1. SameClaim(claims[c], claims'[c])
      BY ClaimsStaySame DEF RelayTypeOK
    <3>2. CASE claims[c] # Null /\ claims[c].scope = h
      BY <3>1, <3>2 DEF SameClaim
    <3>3. CASE claims[c] = Null \/ claims[c].scope # h
      <4>1. ClaimKept(claims[c], claims'[c])
        BY <3>3 DEF StepOn
      <4>2. QED
        BY <3>1, <4>1 DEF SameClaim, ClaimKept, Has
    <3>4. QED
      BY <3>2, <3>3
  <2>5. devices'[s] = devices[s]
    BY DEF StepOn
  <2>6. QED
    BY <2>2, <2>3, <2>4, <2>5
<1>2. QED
  BY <1>1 DEF HostRows

\* A step that keeps every row leaves alone what hosts control.
LEMMA KeptRows ==
  ASSUME RelayTypeOK, [Next]_vars, ClaimsKeptBut({}),
         \A s \in Scopes : InvitesKeptBut(s, {}), UNCHANGED devices, NEW t
  PROVE  HostRows(t)' = HostRows(t)
<1>1. PICK h : h \notin Scopes
  BY NoSetContainsEverything
<1>2. StepOn(h)
  BY DEF StepOn, ClaimsKeptBut, InvitesKeptBut
<1>3. QED
  BY <1>1, <1>2, StepOnOneTenant

\* The operation of a handler is a step on the rows of its host.
LEMMA ActIsOnHost ==
  ASSUME RelayTypeOK, RequestsOK, NEW r \in Requests, NEW now \in Nows,
         Act(r, now), NEW h, h = running[r].host
  PROVE  StepOn(h)
<1> DEFINE q == running[r]
<1>   q # Null /\ RequestOK(q) /\ h \in Scopes /\ TypeOK
  BY DEF Act, At, RequestsOK, RelayTypeOK, Running
<1>2. ASSUME NEW raw \in RawInviteIds, CancelInvite(h, raw, now)
      PROVE  StepOn(h)
  BY <1>2, CancelInviteKeeps DEF StepOn, ClaimsKeptBut, InvitesKeptBut
<1>3. ASSUME CommitExpiry(now), UNCHANGED devices
      PROVE  StepOn(h)
  BY <1>3, ExpiryIsKept DEF StepOn, CommitExpiry
<1>4. ASSUME NEW req \in ApprovalRequests, NEW c \in ClaimIds,
             ApproveClaim(h, c, req, now)
      PROVE  StepOn(h)
  <2>1. claims[c] # Null /\ claims[c].scope = h
    <3>1. ApprovalEffect(h, c, req)
      BY <1>4, ApprovalFacts
    <3>2. QED
      BY <3>1 DEF ApprovalEffect, IsPending
  <2>2. ClaimsKeptBut({c})
    BY <1>4, ApproveClaimKeeps
  <2>3. PICK i \in InviteIds : InvitesKeptBut(h, {i})
    BY <1>4, ApproveClaimKeeps
  <2>4. ASSUME NEW s \in Scopes \ {h}
        PROVE  devices'[s] = devices[s]
    BY <1>4, <2>4 DEF ApproveClaim, TypeOK
  <2>5. QED
    BY <2>1, <2>2, <2>3, <2>4 DEF StepOn, ClaimsKeptBut, InvitesKeptBut
<1>5. ASSUME NEW c \in ClaimIds, RejectClaim(h, c, now)
      PROVE  StepOn(h)
  <2>1. claims[c].scope = h
    BY <1>5 DEF RejectClaim
  <2>2. claims[c] # Null
    BY <1>5, ExpiryIsQuiet DEF RejectClaim, SweptRow, IsPending
  <2>3. QED
    BY <1>5, <2>1, <2>2, RejectClaimKeeps
    DEF StepOn, ClaimsKeptBut, InvitesKeptBut
<1>6. ASSUME UNCHANGED <<claims, invites>>,
             \A s \in Scopes \ {h} : devices'[s] = devices[s]
      PROVE  StepOn(h)
  BY <1>6 DEF StepOn, ClaimKept, InviteKept
<1>7. CASE handleApprovePairingClaim(q, now)
  <2>1. q.target \in ClaimIds
    BY <1>7 DEF RequestOK, handleApprovePairingClaim, ClaimPurposes
  <2>2. PICK c \in ClaimIds : c = q.target
    BY <2>1
  <2>3. QED
    BY <1>3, <1>4, <1>7, <2>2 DEF handleApprovePairingClaim, ReapproveClaim
<1>8. CASE handleRejectPairingClaim(q, now)
  <2>1. q.target \in ClaimIds
    BY <1>8 DEF RequestOK, handleRejectPairingClaim, ClaimPurposes
  <2>2. PICK c \in ClaimIds : c = q.target
    BY <2>1
  <2>3. QED
    BY <1>5, <1>8, <2>2 DEF handleRejectPairingClaim
<1>9. CASE handleRevokeDevice(q)
  BY <1>6, <1>9 DEF handleRevokeDevice, RevokeDevice, TypeOK
<1>10. CASE handleCancelInvite(q, now)
  BY <1>2, <1>10 DEF handleCancelInvite
<1>11. CASE handleListPairingClaims(q, now)
  BY <1>3, <1>11 DEF handleListPairingClaims, ListPendingClaims
<1>12. CASE handleListDevices(q)
  BY <1>6, <1>12 DEF handleListDevices, vars
<1>13. QED
  BY <1>7, <1>8, <1>9, <1>10, <1>11, <1>12 DEF Act

\* So is the second statement of CreateInvite.
LEMMA InsertIsOnHost ==
  ASSUME RelayTypeOK, RequestsOK, NEW r \in Requests,
         handleCreateInviteInsert(r), NEW h, h = running[r].host
  PROVE  StepOn(h)
<1> DEFINE q == running[r]
<1>1. q # Null /\ RequestOK(q) /\ q.stage = "inserting"
  BY DEF handleCreateInviteInsert, At, RequestsOK
<1>2. q.target \in InviteRequest /\ q.target.scope = h
  BY <1>1 DEF RequestOK, handleCreateInviteInsert, CreateInviteInsert,
              RelayTypeOK, TypeOK
<1>3. PICK w \in InviteRequest : w = q.target /\ w.scope = h
  BY <1>2
<1>4. CreateInviteInsert(w)
  BY <1>3 DEF handleCreateInviteInsert
<1>5. UNCHANGED <<claims, devices>>
  BY <1>4 DEF CreateInviteInsert
<1>6. \A s \in Scopes \ {h} : invites'[s] = invites[s]
  BY <1>3, <1>4 DEF CreateInviteInsert, RelayTypeOK, TypeOK
<1>7. QED
  BY <1>5, <1>6 DEF StepOn, ClaimKept, InviteKept

\* A request that ends leaves the other requests of every tenant.
LEMMA EndsAuthorised ==
  ASSUME RelayTypeOK, NEW r \in Requests, running[r] # Null, Ends(r), NEW t
  PROVE  Authorised(t)' = Authorised(t) \ {r}
<1>1. /\ running' \in [Requests -> Running \cup {Null}]
      /\ running'[r] = Null
      /\ \A x \in Requests \ {r} : running'[x] = running[x]
  BY DEF Ends, RelayTypeOK
<1>2. QED
  BY SMT, <1>1 DEF Authorised

\* An authorisation adds a request of a tenant that is enabled.
LEMMA AuthorisationIsEnabled ==
  ASSUME RelayTypeOK, NEW r \in Requests, NEW x \in TicketIds,
         authorizeTicket(r, x), NEW t, ~enabled[t]
  PROVE  Authorised(t)' = Authorised(t) /\ HostRows(t)' = HostRows(t)
<1>1. running[r] \in Running /\ running[r].stage = "received"
  BY DEF authorizeTicket, At, RelayTypeOK
<1>2. PICK q \in Running : q = running[r]
  BY <1>1
<1>3. running' = [running EXCEPT ![r] = [q EXCEPT !.stage = "authorised"]]
  BY <1>2 DEF authorizeTicket, RelayTypeOK
<1>4. Active(q.host)
  BY <1>2 DEF authorizeTicket, T!Spend, NeededScope
<1>5. q.host[1] # t
  BY <1>4 DEF Active
<1>6. /\ running'[r] = [q EXCEPT !.stage = "authorised"]
      /\ \A y \in Requests \ {r} : running'[y] = running[y]
  BY <1>3 DEF RelayTypeOK
<1>7. running'[r].host = q.host /\ running'[r].stage = "authorised"
  BY <1>6 DEF Running
<1>8. Authorised(t)' = Authorised(t)
  <2>1. r \notin Authorised(t)' /\ r \notin Authorised(t)
    BY <1>2, <1>5, <1>7 DEF Authorised
  <2>2. \A y \in Requests \ {r} : y \in Authorised(t)' <=> y \in Authorised(t)
    BY <1>6 DEF Authorised
  <2>3. Authorised(t) \subseteq Requests /\ Authorised(t)' \subseteq Requests
    BY DEF Authorised
  <2>4. QED
    BY SMT, <2>1, <2>2, <2>3
<1>9. QED
  BY <1>8 DEF authorizeTicket, vars, HostRows, InvitesIn

\* What DisabledRunsDry says of a tenant.
RunsDry(t) ==
  /\ Authorised(t)' \subseteq Authorised(t)
  /\ HostRows(t)' # HostRows(t) => Authorised(t)' # Authorised(t)

\* A request that ends with a step on the rows of its own host.
LEMMA EndsRunsDry ==
  ASSUME RelayTypeOK, [Next]_vars, NEW r \in Requests, running[r] # Null,
         Ends(r), NEW h, h = running[r].host, StepOn(h), NEW t,
         running[r].stage # "received"
  PROVE  RunsDry(t)
<1>1. Authorised(t)' = Authorised(t) \ {r}
  BY EndsAuthorised
<1>2. CASE h[1] = t
  BY <1>1, <1>2 DEF RunsDry, Authorised
<1>3. CASE h[1] # t
  <2>1. HostRows(t)' = HostRows(t)
    BY SMT, <1>3, StepOnOneTenant
  <2>2. QED
    BY <1>1, <2>1 DEF RunsDry
<1>4. QED
  BY <1>2, <1>3

\* One step of a host's request.
LEMMA RequestRunsDry ==
  ASSUME RelayTypeOK, RequestsOK, [Next]_vars, NEW r \in Requests,
         NEW t, ~enabled[t]
  PROVE  /\ \A x \in TicketIds : authorizeTicket(r, x) => RunsDry(t)
         /\ \A now \in Nows : Act(r, now) => RunsDry(t)
         /\ handleCreateInviteInsert(r) => RunsDry(t)
         /\ Fail(r) => RunsDry(t)
<1>1. ASSUME NEW x \in TicketIds, authorizeTicket(r, x)
      PROVE  RunsDry(t)
  BY <1>1, AuthorisationIsEnabled DEF RunsDry
<1>2. ASSUME NEW now \in Nows, Act(r, now)
      PROVE  RunsDry(t)
  <2>1. PICK h : h = running[r].host
    OBVIOUS
  <2>2. running[r] # Null /\ running[r].stage # "received" /\ Ends(r)
    BY <1>2 DEF Act, At
  <2>3. StepOn(h)
    BY <1>2, <2>1, ActIsOnHost
  <2>4. QED
    BY <2>1, <2>2, <2>3, EndsRunsDry
<1>3. ASSUME handleCreateInviteInsert(r)
      PROVE  RunsDry(t)
  <2>1. PICK h : h = running[r].host
    OBVIOUS
  <2>2. running[r] # Null /\ running[r].stage # "received" /\ Ends(r)
    BY <1>3 DEF handleCreateInviteInsert, At
  <2>3. StepOn(h)
    BY <1>3, <2>1, InsertIsOnHost
  <2>4. QED
    BY <2>1, <2>2, <2>3, EndsRunsDry
<1>4. ASSUME Fail(r)
      PROVE  RunsDry(t)
  <2>1. Authorised(t)' = Authorised(t) \ {r}
    BY <1>4, EndsAuthorised DEF Fail
  <2>2. HostRows(t)' = HostRows(t)
    BY <1>4 DEF Fail, vars, HostRows, InvitesIn
  <2>3. QED
    BY <2>1, <2>2 DEF RunsDry
<1>5. QED
  BY <1>1, <1>2, <1>3, <1>4

\* The steps that leave alone which requests are authorised.
LEMMA OtherRunsDry ==
  ASSUME RelayTypeOK, RequestsOK, [Next]_vars, NEW t
  PROVE  /\ \A r \in Requests, purpose \in Asked, s \in Scopes :
              \A target \in Targets(purpose, s) :
                Receive(r, purpose, s, target) => RunsDry(t)
         /\ \A r \in Requests, raw \in RawInviteIds, now \in Nows,
               e \in 0 .. MaxTime + MaxLifetime :
              handleCreateInviteCheck(r, raw, now, e) => RunsDry(t)
         /\ \A x \in TicketIds, scope \in HostScope :
              IssueTicket(x, scope) => RunsDry(t)
         /\ Unauthenticated => RunsDry(t)
         /\ RelayRestart => RunsDry(t)
         /\ UNCHANGED relayVars => RunsDry(t)
<1>1. ASSUME UNCHANGED <<invites, claims, devices>>
      PROVE  HostRows(t)' = HostRows(t)
  BY <1>1 DEF HostRows, InvitesIn
<1>2. ASSUME NEW r \in Requests, NEW purpose \in Asked, NEW s \in Scopes,
             NEW target \in Targets(purpose, s),
             Receive(r, purpose, s, target)
      PROVE  RunsDry(t)
  <2>1. /\ running[r] = Null /\ running'[r].stage = "received"
        /\ \A x \in Requests \ {r} : running'[x] = running[x]
    BY <1>2 DEF Receive, RelayTypeOK
  <2>2. Authorised(t)' \subseteq Authorised(t)
    BY <2>1 DEF Authorised
  <2>3. QED
    BY <1>1, <1>2, <2>2 DEF RunsDry, Receive, vars
<1>3. ASSUME NEW r \in Requests, NEW raw \in RawInviteIds, NEW now \in Nows,
             NEW e \in 0 .. MaxTime + MaxLifetime,
             handleCreateInviteCheck(r, raw, now, e)
      PROVE  RunsDry(t)
  <2>1. PICK q \in Running : q = running[r] /\ q.stage = "authorised"
    BY <1>3 DEF handleCreateInviteCheck, At, RelayTypeOK
  <2>2. PICK w : w = [scope |-> q.host, id |-> raw.id, expiresAt |-> e]
    OBVIOUS
  <2>3. /\ running'[r] = [q EXCEPT !.stage = "inserting", !.target = w]
        /\ \A x \in Requests \ {r} : running'[x] = running[x]
    BY <1>3, <2>1, <2>2 DEF handleCreateInviteCheck, RelayTypeOK
  <2>4. running'[r].host = q.host
    BY <2>3 DEF Running
  <2>5. running[r] # Null
    BY <1>3 DEF handleCreateInviteCheck, At
  <2>6. Authorised(t)' \subseteq Authorised(t)
    BY <2>1, <2>3, <2>4, <2>5 DEF Authorised
  <2>7. QED
    BY <1>1, <1>3, <2>6 DEF RunsDry, handleCreateInviteCheck, CreateInviteCheck
<1>4. ASSUME Unauthenticated
      PROVE  RunsDry(t)
  <2>1. Authorised(t)' = Authorised(t)
    BY <1>4 DEF Unauthenticated, Authorised
  <2>2. ASSUME NEW c \in ClaimIds, NEW now \in Nows, DeviceRequest(c, now)
        PROVE  HostRows(t)' = HostRows(t)
    BY <2>2, DeviceRequestKeeps, KeptRows DEF RelayTypeOK
  <2>3. HostRows(t)' = HostRows(t)
    BY <1>1, <1>4, <2>2 DEF Unauthenticated, SetEnabled, Tick
  <2>4. QED
    BY <2>1, <2>3 DEF RunsDry
<1>5. ASSUME RelayRestart
      PROVE  RunsDry(t)
  BY <1>1, <1>5 DEF RelayRestart, Restart, RunsDry, Authorised
<1>6. ASSUME UNCHANGED <<vars, running>>
      PROVE  RunsDry(t)
  BY <1>1, <1>6 DEF RunsDry, vars, Authorised
<1>7. QED
  BY <1>2, <1>3, <1>4, <1>5, <1>6 DEF IssueTicket, relayVars

\* While a tenant is disabled, its hosts change only what requests that had
\* passed authorizeTicket before still change.
THEOREM RelayRunsDry == RelaySpec => DisabledRunsDry
<1>1. RelayTypeOK /\ RequestsOK /\ [RelayNext]_relayVars
        => [\A t \in Tenants : ~enabled[t] => RunsDry(t)]_relayVars
  <2> SUFFICES ASSUME RelayTypeOK, RequestsOK, [RelayNext]_relayVars,
                      NEW t \in Tenants, ~enabled[t]
               PROVE  RunsDry(t)
    OBVIOUS
  <2>1. [Next]_vars
    BY StepIsPairingStep
  <2>2. CASE UNCHANGED relayVars
    BY <2>1, <2>2, OtherRunsDry
  <2>3. CASE RelayNext
    BY <2>1, <2>3, RequestRunsDry, OtherRunsDry DEF RelayNext
  <2>4. QED
    BY <2>2, <2>3
<1>2. QED
  BY <1>1, RelayTypeCorrect, PTL DEF RelaySpec, DisabledRunsDry, RunsDry

-----------------------------------------------------------------------------
(* The effects of host requests are paid for with tickets.  The induction  *)
(* is on the books of each scope: a step adds at most one effect, with the *)
(* scope of the request that stops waiting, and a request starts to wait   *)
(* with a fresh ticket.                                                    *)

\* Nothing is added but tickets.
LEMMA QuietIsCovered ==
  ASSUME NEW E, NEW W, NEW S, Covered(E, W, S),
         NEW E2, NEW W2, NEW S2, E2 \subseteq E, W2 \subseteq W, S \subseteq S2
  PROVE  Covered(E2, W2, S2)
<1>1. PICK paid \in [E -> S], held \in [W -> S] :
        /\ \A x, y \in E : paid[x] = paid[y] => x = y
        /\ \A r, q \in W : held[r] = held[q] => r = q
        /\ \A x \in E, r \in W : paid[x] # held[r]
  BY DEF Covered
<1> DEFINE p == [x \in E2 |-> paid[x]]
           h == [r \in W2 |-> held[r]]
<1>2. p \in [E2 -> S2] /\ h \in [W2 -> S2]
  OBVIOUS
<1>3. /\ \A x, y \in E2 : p[x] = p[y] => x = y
      /\ \A r, q \in W2 : h[r] = h[q] => r = q
      /\ \A x \in E2, r \in W2 : p[x] # h[r]
  BY <1>1
<1> HIDE DEF p, h
<1>4. QED
  BY ZenonT(40), <1>2, <1>3 DEF Covered

\* A request that starts to wait pays with a fresh ticket.
LEMMA AuthorisedIsCovered ==
  ASSUME NEW E, NEW W, NEW S, Covered(E, W, S),
         NEW r, NEW t, t \notin S
  PROVE  Covered(E, W \cup {r}, S \cup {t})
<1>1. PICK paid \in [E -> S], held \in [W -> S] :
        /\ \A x, y \in E : paid[x] = paid[y] => x = y
        /\ \A u, q \in W : held[u] = held[q] => u = q
        /\ \A x \in E, q \in W : paid[x] # held[q]
  BY DEF Covered
<1> DEFINE p == [x \in E |-> paid[x]]
           h == [q \in W \cup {r} |-> IF q \in W THEN held[q] ELSE t]
<1>2. p \in [E -> S \cup {t}] /\ h \in [W \cup {r} -> S \cup {t}]
  OBVIOUS
<1>3. /\ \A x, y \in E : p[x] = p[y] => x = y
      /\ \A u, q \in W \cup {r} : h[u] = h[q] => u = q
      /\ \A x \in E, q \in W \cup {r} : p[x] # h[q]
  BY SMT, <1>1
<1> HIDE DEF p, h
<1>4. QED
  BY <1>2, <1>3 DEF Covered

\* A request that acts no longer waits, and has at most one effect, for which
\* it pays with the ticket that it has held.
LEMMA ActedIsCovered ==
  ASSUME NEW E, NEW W, NEW S, Covered(E, W, S),
         NEW r \in W, NEW k, NEW E2, E2 \subseteq E \cup {k}
  PROVE  Covered(E2, W \ {r}, S)
<1>1. PICK paid \in [E -> S], held \in [W -> S] :
        /\ \A x, y \in E : paid[x] = paid[y] => x = y
        /\ \A u, q \in W : held[u] = held[q] => u = q
        /\ \A x \in E, q \in W : paid[x] # held[q]
  BY DEF Covered
<1> DEFINE p == [x \in E2 |-> IF x \in E THEN paid[x] ELSE held[r]]
           h == [q \in W \ {r} |-> held[q]]
<1>2. p \in [E2 -> S] /\ h \in [W \ {r} -> S]
  OBVIOUS
<1>3. /\ \A x, y \in E2 : p[x] = p[y] => x = y
      /\ \A u, q \in W \ {r} : h[u] = h[q] => u = q
      /\ \A x \in E2, q \in W \ {r} : p[x] # h[q]
  BY <1>1
<1> HIDE DEF p, h
<1>4. QED
  BY ZenonT(40), <1>2, <1>3 DEF Covered

\* x is an effect with the scope that the step brings about.
NewClaim(scope, c, status) ==
  /\ c \in ClaimIds
  /\ Has(claims'[c], status) /\ ~Has(claims[c], status)
  /\ claims'[c].scope = scope.host /\ claims'[c].device = scope.device

Revoked(table, s, d) == table[s][d] # Null /\ table[s][d].revoked

New(scope, x) ==
  \/ /\ scope.purpose = "pairing_invite_create"
     /\ x \in InviteIds
     /\ invites[scope.host][x] = Null /\ invites'[scope.host][x] # Null
  \/ /\ scope.purpose = "pairing_invite_cancel"
     /\ x \in InviteIds
     /\ Has(invites'[scope.host][x], "cancelled")
     /\ ~Has(invites[scope.host][x], "cancelled")
  \/ scope.purpose = "pairing_claim_approve" /\ NewClaim(scope, x, "approved")
  \/ scope.purpose = "pairing_claim_reject" /\ NewClaim(scope, x, "rejected")
  \/ /\ scope.purpose = "device_revoke"
     /\ x = scope.device
     /\ Revoked(devices', scope.host, x) /\ ~Revoked(devices, scope.host, x)

\* What the step adds to the claims of a status is new.
LEMMA ClaimGrowthIsNew ==
  ASSUME TypeOK, [Next]_vars, NEW scope \in HostScope, NEW status, NEW x,
         x \in ClaimsIn(scope.host, scope.device, status)',
         x \notin ClaimsIn(scope.host, scope.device, status)
  PROVE  NewClaim(scope, x, status)
<1>   x \in ClaimIds /\ Has(claims'[x], status)
      /\ claims'[x].scope = scope.host /\ claims'[x].device = scope.device
  BY DEF ClaimsIn, Has
<1>2. SameClaim(claims[x], claims'[x])
  BY ClaimsStaySame
<1>3. ~Has(claims[x], status)
  BY <1>2 DEF ClaimsIn, Has, SameClaim
<1>4. QED
  BY <1>3 DEF NewClaim

\* What a step adds to the effects of a scope is new.
LEMMA GrowthIsNew ==
  ASSUME TypeOK, TypeOK', [Next]_vars, NEW scope \in HostScope, NEW x,
         x \in Effects(scope)', x \notin Effects(scope)
  PROVE  New(scope, x)
<1>1. scope.purpose \in Purposes /\ scope.host \in Scopes
  BY RelayConstants DEF HostScope
<1>2. CASE scope.purpose = "pairing_invite_create"
  <2>1. x \in InvitesIn(scope.host, Status)' /\ x \notin InvitesIn(scope.host, Status)
    BY <1>2 DEF Effects
  <2>   x \in InviteIds /\ invites'[scope.host][x] # Null
    BY <2>1 DEF InvitesIn
  <2>3. invites[scope.host][x] \in InviteRow \cup {Null}
    BY ZenonT(40), <1>1 DEF TypeOK
  <2>4. invites[scope.host][x] = Null
    BY <2>1, <2>3 DEF InvitesIn, InviteRow
  <2>5. QED
    BY <1>2, <2>4 DEF New
<1>3. CASE scope.purpose = "pairing_invite_cancel"
  BY <1>3 DEF Effects, InvitesIn, New, Has
<1>4. CASE scope.purpose = "pairing_claim_approve"
  BY <1>4, ClaimGrowthIsNew DEF Effects, New
<1>5. CASE scope.purpose = "pairing_claim_reject"
  BY <1>5, ClaimGrowthIsNew DEF Effects, New
<1>6. CASE scope.purpose = "device_revoke"
  BY <1>6 DEF Effects, New, Revoked
<1>7. CASE scope.purpose \in ListPurposes
  BY <1>7 DEF Effects, ListPurposes
<1>8. QED
  BY <1>1, <1>2, <1>3, <1>4, <1>5, <1>6, <1>7
  DEF Purposes, ClaimPurposes, InvitePurposes

\* A step that keeps every row brings nothing about.
LEMMA KeptIsOld ==
  ASSUME ClaimsKeptBut({}), \A s \in Scopes : InvitesKeptBut(s, {}),
         UNCHANGED devices
  PROVE  \A scope \in HostScope : \A x : ~New(scope, x)
<1> SUFFICES ASSUME NEW scope \in HostScope, NEW x, New(scope, x)
             PROVE  FALSE
  OBVIOUS
<1>1. scope.host \in Scopes
  BY DEF HostScope
<1>2. \A i \in InviteIds : InviteKept(invites[scope.host][i], invites'[scope.host][i])
  BY <1>1 DEF InvitesKeptBut
<1>3. \A c \in ClaimIds : ClaimKept(claims[c], claims'[c])
  BY DEF ClaimsKeptBut
<1>4. \A d : Revoked(devices', scope.host, d) = Revoked(devices, scope.host, d)
  BY DEF Revoked
<1>5. QED
  BY <1>2, <1>3, <1>4 DEF New, NewClaim, InviteKept, ClaimKept

\* A scope with the host, the endpoint and the device of a request is the one
\* that the request needs.
LEMMA ScopeOfRequest ==
  ASSUME NEW scope \in HostScope, NEW q, scope.host = q.host,
         scope.purpose = q.purpose, scope.device = q.device
  PROVE  scope = NeededScope(q)
<1>1. scope \in [host : Scopes, purpose : Asked,
                 device : DeviceIds \cup {NoDevice}]
  BY DEF HostScope
<1>2. scope = [host |-> scope.host, purpose |-> scope.purpose,
               device |-> scope.device]
  BY <1>1
<1>3. QED
  BY <1>2 DEF NeededScope

\* The step brings about at most k, with the scope of the request.
OnlyNew(q, k) ==
  \A scope \in HostScope : \A x :
    New(scope, x) => scope = NeededScope(q) /\ x = k

\* The operations, one by one.
LEMMA CancelInviteIsPaid ==
  ASSUME TypeOK, NEW q \in Running, RequestOK(q), NEW now \in Nows,
         handleCancelInvite(q, now)
  PROVE  \E k : OnlyNew(q, k)
<1>1. PICK raw \in RawInviteIds : CancelInvite(q.host, raw, now)
  BY DEF handleCancelInvite
<1>2. q.host \in Scopes
  BY DEF Running
<1>   /\ raw.id \in InviteIds
      /\ ClaimsKeptBut({})
      /\ InvitesKeptBut(q.host, {raw.id})
      /\ invites[q.host][raw.id] # Null
      /\ UNCHANGED devices
  BY <1>1, <1>2, CancelInviteKeeps
<1>4. q.purpose = "pairing_invite_cancel" /\ q.device = NoDevice
  BY DEF handleCancelInvite, RequestOK, InvitePurposes
<1>5. ASSUME NEW scope \in HostScope, NEW x, New(scope, x)
      PROVE  scope = NeededScope(q) /\ x = raw.id
  <2>1. scope.host \in Scopes
    BY DEF HostScope
  <2>2. \A c \in ClaimIds : ClaimKept(claims[c], claims'[c])
    BY DEF ClaimsKeptBut
  <2>3. \A d : Revoked(devices', scope.host, d) = Revoked(devices, scope.host, d)
    BY DEF Revoked
  <2>   /\ x \in InviteIds
        /\ \/ /\ scope.purpose = "pairing_invite_create"
              /\ invites[scope.host][x] = Null
              /\ invites'[scope.host][x] # Null
           \/ /\ scope.purpose = "pairing_invite_cancel"
              /\ Has(invites'[scope.host][x], "cancelled")
              /\ ~Has(invites[scope.host][x], "cancelled")
    BY <1>5, <2>2, <2>3 DEF New, NewClaim, ClaimKept
  <2>5. ~InviteKept(invites[scope.host][x], invites'[scope.host][x])
    BY DEF InviteKept
  <2>6. scope.host = q.host /\ x = raw.id
    BY <2>1, <2>5 DEF InvitesKeptBut
  <2>7. scope.purpose = "pairing_invite_cancel"
    BY <2>6
  <2>8. scope.device = NoDevice
    BY <2>7 DEF HostScope, InvitePurposes
  <2>9. QED
    BY <1>4, <2>6, <2>7, <2>8, ScopeOfRequest
<1>6. QED
  BY <1>5 DEF OnlyNew

LEMMA RejectClaimIsPaid ==
  ASSUME TypeOK, [Next]_vars, NEW q \in Running, RequestOK(q),
         NEW now \in Nows, handleRejectPairingClaim(q, now)
  PROVE  \E k : OnlyNew(q, k)
<1>   /\ q.host \in Scopes /\ q.purpose = "pairing_claim_reject"
      /\ q.target \in ClaimIds /\ claims[q.target] # Null
      /\ claims[q.target].scope = q.host /\ claims[q.target].device = q.device
      /\ RejectClaim(q.host, q.target, now)
  BY DEF Running, RequestOK, handleRejectPairingClaim, ClaimPurposes
<1>   /\ ClaimsKeptBut({q.target})
      /\ ~Has(claims'[q.target], "approved")
      /\ InvitesKeptBut(q.host, {})
      /\ UNCHANGED devices
  BY RejectClaimKeeps
<1>3. SameClaim(claims[q.target], claims'[q.target])
  BY ClaimsStaySame
<1>4. ASSUME NEW scope \in HostScope, NEW x, New(scope, x)
      PROVE  scope = NeededScope(q) /\ x = q.target
  <2>1. scope.host \in Scopes
    BY DEF HostScope
  <2>2. \A i \in InviteIds :
          InviteKept(invites[scope.host][i], invites'[scope.host][i])
    BY <2>1 DEF InvitesKeptBut
  <2>3. \A d : Revoked(devices', scope.host, d) = Revoked(devices, scope.host, d)
    BY DEF Revoked
  <2>4. \/ /\ scope.purpose = "pairing_claim_approve"
           /\ NewClaim(scope, x, "approved")
        \/ /\ scope.purpose = "pairing_claim_reject"
           /\ NewClaim(scope, x, "rejected")
    BY <1>4, <2>2, <2>3 DEF New, InviteKept
  <2>5. x \in ClaimIds /\ ~ClaimKept(claims[x], claims'[x])
    BY <2>4 DEF NewClaim, ClaimKept
  <2>   x = q.target
    BY <2>5 DEF ClaimsKeptBut
  <2>7. scope.purpose = "pairing_claim_reject" /\ NewClaim(scope, x, "rejected")
    BY <2>4 DEF NewClaim
  <2>8. scope.host = q.host /\ scope.device = q.device
    BY <1>3, <2>7 DEF NewClaim, SameClaim
  <2>9. QED
    BY <2>7, <2>8, ScopeOfRequest
<1>5. QED
  BY <1>4 DEF OnlyNew

LEMMA ApproveClaimIsPaid ==
  ASSUME TypeOK, [Next]_vars, NEW q \in Running, RequestOK(q),
         NEW now \in Nows, handleApprovePairingClaim(q, now)
  PROVE  \E k : OnlyNew(q, k)
<1>   /\ q.host \in Scopes /\ q.purpose = "pairing_claim_approve"
      /\ q.target \in ClaimIds /\ claims[q.target] # Null
      /\ claims[q.target].scope = q.host /\ claims[q.target].device = q.device
  BY DEF Running, RequestOK, handleApprovePairingClaim, ClaimPurposes
<1>2. PICK req \in ApprovalRequests :
        \/ ApproveClaim(q.host, q.target, req, now)
        \/ ReapproveClaim(q.host, q.target, req, now)
  BY DEF handleApprovePairingClaim
<1>3. CASE ReapproveClaim(q.host, q.target, req, now)
  <2>1. /\ ClaimsKeptBut({}) /\ \A s \in Scopes : InvitesKeptBut(s, {})
        /\ UNCHANGED devices
    BY <1>3, ExpiryIsKept
    DEF ReapproveClaim, CommitExpiry, ClaimsKeptBut, InvitesKeptBut
  <2>2. QED
    BY <2>1, KeptIsOld DEF OnlyNew
<1>4. CASE ApproveClaim(q.host, q.target, req, now)
  <2>   /\ ClaimsKeptBut({q.target})
        /\ ~Has(claims'[q.target], "rejected")
        /\ \E i \in InviteIds :
             /\ InvitesKeptBut(q.host, {i})
             /\ invites[q.host][i] # Null
             /\ ~Has(invites'[q.host][i], "cancelled")
        /\ \A t \in Scopes, d \in DeviceIds :
             \/ devices'[t][d] = devices[t][d]
             \/ t = q.host /\ ~devices'[t][d].revoked
    BY <1>4, ApproveClaimKeeps
  <2>2. SameClaim(claims[q.target], claims'[q.target])
    BY ClaimsStaySame
  <2>3. ASSUME NEW scope \in HostScope, NEW x, New(scope, x)
        PROVE  scope = NeededScope(q) /\ x = q.target
    <3>   /\ scope.host \in Scopes
          /\ scope.purpose = "device_revoke" => scope.device \in DeviceIds
      BY DEF HostScope, InvitePurposes, ListPurposes
    <3>2. \A i \in InviteIds :
            /\ invites[scope.host][i] = Null => invites'[scope.host][i] = Null
            /\ Has(invites'[scope.host][i], "cancelled")
                 => Has(invites[scope.host][i], "cancelled")
      BY SMT DEF InvitesKeptBut, InviteKept
    <3>3. \A d \in DeviceIds : Revoked(devices', scope.host, d)
                                 => Revoked(devices, scope.host, d)
      BY DEF Revoked
    <3>4. \/ /\ scope.purpose = "pairing_claim_approve"
             /\ NewClaim(scope, x, "approved")
          \/ /\ scope.purpose = "pairing_claim_reject"
             /\ NewClaim(scope, x, "rejected")
      BY <2>3, <3>2, <3>3 DEF New
    <3>5. x \in ClaimIds /\ ~ClaimKept(claims[x], claims'[x])
      BY <3>4 DEF NewClaim, ClaimKept
    <3>   x = q.target
      BY <3>5 DEF ClaimsKeptBut
    <3>7. /\ scope.purpose = "pairing_claim_approve"
          /\ NewClaim(scope, x, "approved")
      BY <3>4 DEF NewClaim
    <3>8. scope.host = q.host /\ scope.device = q.device
      BY <2>2, <3>7 DEF NewClaim, SameClaim
    <3>9. QED
      BY <3>7, <3>8, ScopeOfRequest
  <2>4. QED
    BY <2>3 DEF OnlyNew
<1>5. QED
  BY <1>2, <1>3, <1>4

LEMMA RevokeDeviceIsPaid ==
  ASSUME TypeOK, NEW q \in Running, RequestOK(q), handleRevokeDevice(q)
  PROVE  \E k : OnlyNew(q, k)
<1>1. /\ q.host \in Scopes /\ q.purpose = "device_revoke"
      /\ q.target \in DeviceIds /\ q.device = q.target
  BY DEF Running, RequestOK, handleRevokeDevice
<1>2. /\ UNCHANGED <<invites, claims>>
      /\ \A s \in Scopes, d \in DeviceIds :
           ~(s = q.host /\ d = q.target) => devices'[s][d] = devices[s][d]
  BY <1>1 DEF handleRevokeDevice, RevokeDevice, TypeOK
<1>3. ASSUME NEW scope \in HostScope, NEW x, New(scope, x)
      PROVE  scope = NeededScope(q) /\ x = q.target
  <2>1. /\ scope.host \in Scopes
        /\ scope.purpose = "device_revoke" => scope.device \in DeviceIds
    BY DEF HostScope, InvitePurposes, ListPurposes
  <2>   /\ scope.purpose = "device_revoke" /\ x = scope.device
        /\ Revoked(devices', scope.host, x) /\ ~Revoked(devices, scope.host, x)
    BY <1>2, <1>3 DEF New, NewClaim
  <2>3. devices'[scope.host][x] # devices[scope.host][x]
    BY DEF Revoked
  <2>4. scope.host = q.host /\ x = q.target
    BY <1>2, <2>1, <2>3
  <2>5. scope.purpose = q.purpose /\ scope.device = q.device
    BY <1>1, <2>4
  <2>6. QED
    BY <2>4, <2>5, ScopeOfRequest
<1>4. QED
  BY <1>3 DEF OnlyNew

\* An insert writes one row.
LEMMA InsertedRow ==
  ASSUME NEW table \in [Scopes -> [InviteIds -> InviteRow \cup {Null}]],
         NEW s \in Scopes, NEW i \in InviteIds, NEW row, NEW new,
         new = [table EXCEPT ![s][i] = row]
  PROVE  /\ new[s][i] = row
         /\ \A t \in Scopes, j \in InviteIds :
              ~(t = s /\ j = i) => new[t][j] = table[t][j]
  OBVIOUS

LEMMA CreateInviteIsPaid ==
  ASSUME TypeOK, NEW q \in Running, RequestOK(q), q.stage = "inserting",
         CreateInviteInsert(q.target)
  PROVE  \E k : OnlyNew(q, k)
<1>   /\ q.host \in Scopes /\ q.purpose = "pairing_invite_create"
      /\ q.target.scope = q.host /\ q.device = NoDevice
  BY DEF Running, RequestOK, InvitePurposes
<1>2. PICK w \in InviteRequest : w = q.target
  BY DEF CreateInviteInsert, TypeOK
<1>   w.scope = q.host /\ w.id \in InviteIds /\ CreateInviteInsert(w)
  BY <1>2 DEF InviteRequest
<1>   /\ UNCHANGED <<claims, devices>>
      /\ \A s \in Scopes, i \in InviteIds :
           ~(s = q.host /\ i = w.id) => invites'[s][i] = invites[s][i]
      /\ ~Has(invites'[q.host][w.id], "cancelled")
           \/ invites'[q.host][w.id] = invites[q.host][w.id]
  <2>1. UNCHANGED <<claims, devices>>
    BY DEF CreateInviteInsert
  <2>2. invites \in [Scopes -> [InviteIds -> InviteRow \cup {Null}]]
    BY DEF TypeOK
  <2>3. CASE invites[q.host][w.id] = Null
    <3>1. PICK row : row = [status |-> "pending", expiresAt |-> w.expiresAt]
      OBVIOUS
    <3>2. invites' = [invites EXCEPT ![q.host][w.id] = row]
      BY <2>3, <3>1 DEF CreateInviteInsert
    <3>3. /\ invites'[q.host][w.id] = row
          /\ \A s \in Scopes, i \in InviteIds :
               ~(s = q.host /\ i = w.id) => invites'[s][i] = invites[s][i]
      BY ZenonT(40), <2>2, <3>2, InsertedRow
    <3>4. ~Has(invites'[q.host][w.id], "cancelled")
      BY SMT, <3>1, <3>3 DEF Has
    <3>5. QED
      BY <2>1, <3>3, <3>4
  <2>4. CASE invites[q.host][w.id] # Null
    <3>1. invites' = invites
      BY <2>4 DEF CreateInviteInsert
    <3>2. QED
      BY <2>1, <3>1
  <2>5. QED
    BY <2>3, <2>4
<1>5. ASSUME NEW scope \in HostScope, NEW x, New(scope, x)
      PROVE  scope = NeededScope(q) /\ x = w.id
  <2>1. scope.host \in Scopes
    BY DEF HostScope
  <2>2. \A d : Revoked(devices', scope.host, d) = Revoked(devices, scope.host, d)
    BY DEF Revoked
  <2>   /\ x \in InviteIds
        /\ \/ /\ scope.purpose = "pairing_invite_create"
              /\ invites[scope.host][x] = Null
              /\ invites'[scope.host][x] # Null
           \/ /\ scope.purpose = "pairing_invite_cancel"
              /\ Has(invites'[scope.host][x], "cancelled")
              /\ ~Has(invites[scope.host][x], "cancelled")
    BY <1>5, <2>2 DEF New, NewClaim
  <2>4. invites'[scope.host][x] # invites[scope.host][x]
    OBVIOUS
  <2>5. scope.host = q.host /\ x = w.id
    BY <2>1, <2>4
  <2>6. scope.purpose = "pairing_invite_create"
    BY <2>4, <2>5
  <2>7. scope.device = NoDevice
    BY <2>6 DEF HostScope, InvitePurposes
  <2>8. QED
    BY <2>5, <2>6, <2>7, ScopeOfRequest
<1>6. QED
  BY <1>5 DEF OnlyNew

\* A request that acts brings about at most one thing, with its own scope: the
\* device id that its handler read is still that of the claim.
LEMMA ActIsPaid ==
  ASSUME RelayTypeOK, RequestsOK, [Next]_vars, NEW r \in Requests, NEW q,
         q = running[r],
         \/ \E now \in Nows : Act(r, now)
         \/ handleCreateInviteInsert(r)
  PROVE  /\ q \in Running /\ q # Null /\ q.stage # "received" /\ Ends(r)
         /\ UNCHANGED <<issued, uses>>
         /\ \E k : OnlyNew(q, k)
<1>   /\ q # Null /\ q.stage # "received" /\ Ends(r)
      /\ UNCHANGED <<issued, uses>>
  BY DEF Act, handleCreateInviteInsert, At
<1>   q \in Running /\ RequestOK(q) /\ TypeOK
  BY DEF RelayTypeOK, RequestsOK
<1>3. CASE handleCreateInviteInsert(r)
  BY <1>3, CreateInviteIsPaid DEF handleCreateInviteInsert, At
<1>4. ASSUME NEW now \in Nows, Act(r, now)
      PROVE  \E k : OnlyNew(q, k)
  <2>1. CASE handleListPairingClaims(q, now)
    <3>1. /\ ClaimsKeptBut({}) /\ \A s \in Scopes : InvitesKeptBut(s, {})
          /\ UNCHANGED devices
      BY <2>1, ExpiryIsKept
      DEF handleListPairingClaims, ListPendingClaims, CommitExpiry,
          ClaimsKeptBut, InvitesKeptBut
    <3>2. QED
      BY <3>1, KeptIsOld DEF OnlyNew
  <2>2. CASE handleListDevices(q)
    <3>1. /\ ClaimsKeptBut({}) /\ \A s \in Scopes : InvitesKeptBut(s, {})
          /\ UNCHANGED devices
      BY <2>2 DEF handleListDevices, vars, ClaimsKeptBut, InvitesKeptBut,
                  ClaimKept, InviteKept
    <3>2. QED
      BY <3>1, KeptIsOld DEF OnlyNew
  <2>3. QED
    BY <1>4, <2>1, <2>2, CancelInviteIsPaid, RejectClaimIsPaid,
       ApproveClaimIsPaid, RevokeDeviceIsPaid DEF Act
<1>5. QED
  BY <1>3, <1>4

\* The books of every scope are balanced.
Books == \A scope \in HostScope :
           Covered(Effects(scope), Waiting(scope), Spent(scope))

\* A request that ends waits no more.
LEMMA EndsWaiting ==
  ASSUME RelayTypeOK, NEW r \in Requests, running[r] # Null, Ends(r), NEW scope
  PROVE  Waiting(scope)' = Waiting(scope) \ {r}
<1>1. /\ running'[r] = Null
      /\ \A x \in Requests \ {r} : running'[x] = running[x]
  BY DEF Ends, RelayTypeOK
<1>2. QED
  BY SMT, <1>1 DEF Waiting

\* Acting keeps the books.
LEMMA ActKeepsBooks ==
  ASSUME RelayTypeOK, TypeOK', RequestsOK, [Next]_vars, Books,
         NEW r \in Requests, NEW scope \in HostScope,
         \/ \E now \in Nows : Act(r, now)
         \/ handleCreateInviteInsert(r)
  PROVE  Covered(Effects(scope), Waiting(scope), Spent(scope))'
<1>1. PICK q : q = running[r]
  OBVIOUS
<1>   /\ q \in Running /\ q # Null /\ q.stage # "received" /\ Ends(r)
      /\ UNCHANGED <<issued, uses>>
      /\ \E k : OnlyNew(q, k)
  BY <1>1, ActIsPaid
<1>3. PICK k : OnlyNew(q, k)
  OBVIOUS
<1>4. Waiting(scope)' = Waiting(scope) \ {r}
  BY <1>1, EndsWaiting
<1>5. Spent(scope)' = Spent(scope)
  BY DEF Spent
<1>6. Covered(Effects(scope), Waiting(scope), Spent(scope))
  BY DEF Books
<1>7. CASE scope = NeededScope(q)
  <2>1. r \in Waiting(scope)
    BY <1>1, <1>7 DEF Waiting
  <2>2. Effects(scope)' \subseteq Effects(scope) \cup {k}
    BY <1>3, GrowthIsNew DEF OnlyNew, RelayTypeOK
  <2>3. Covered(Effects(scope)', Waiting(scope) \ {r}, Spent(scope))
    BY <1>6, <2>1, <2>2, ActedIsCovered
  <2>4. QED
    BY SMT, <1>4, <1>5, <2>3 DEF Covered
<1>8. CASE scope # NeededScope(q)
  <2>1. Effects(scope)' \subseteq Effects(scope)
    BY <1>3, <1>8, GrowthIsNew DEF OnlyNew, RelayTypeOK
  <2>2. Covered(Effects(scope)', Waiting(scope) \ {r}, Spent(scope))
    BY <1>6, <2>1, QuietIsCovered
  <2>3. QED
    BY SMT, <1>4, <1>5, <2>2 DEF Covered
<1>9. QED
  BY <1>7, <1>8

\* So does consuming a ticket, which adds a request that waits.
LEMMA AuthorisationKeepsBooks ==
  ASSUME RelayTypeOK, Books, NEW r \in Requests, NEW t \in TicketIds,
         authorizeTicket(r, t), NEW scope \in HostScope
  PROVE  Covered(Effects(scope), Waiting(scope), Spent(scope))'
<1>1. PICK q \in Running : q = running[r] /\ q # Null /\ q.stage = "received"
  BY DEF authorizeTicket, At, RelayTypeOK
<1>   /\ running'[r] = [q EXCEPT !.stage = "authorised"]
      /\ \A x \in Requests \ {r} : running'[x] = running[x]
  BY <1>1 DEF authorizeTicket, RelayTypeOK
<1>   /\ issued' = issued /\ uses' = [uses EXCEPT ![t] = 1]
      /\ issued[t] = NeededScope(q) /\ uses[t] = 0
  BY <1>1 DEF authorizeTicket, T!Spend
<1>4. NeededScope(running'[r]) = NeededScope(q)
  BY DEF NeededScope, Running
<1>5. Effects(scope)' = Effects(scope)
  BY DEF authorizeTicket, vars, Effects, InvitesIn, ClaimsIn
<1>6. uses'[t] = 1 /\ \A x \in TicketIds \ {t} : uses'[x] = uses[x]
  BY DEF RelayTypeOK
<1>7. Covered(Effects(scope), Waiting(scope), Spent(scope))
  BY DEF Books
<1>8. CASE scope = NeededScope(q)
  <2>1. Waiting(scope)' \subseteq Waiting(scope) \cup {r}
    BY DEF Waiting
  <2>2. t \notin Spent(scope) /\ Spent(scope)' = Spent(scope) \cup {t}
    BY SMT, <1>6, <1>8 DEF Spent
  <2>3. Covered(Effects(scope), Waiting(scope) \cup {r}, Spent(scope) \cup {t})
    BY <1>7, <2>2, AuthorisedIsCovered
  <2>4. Covered(Effects(scope), Waiting(scope)', Spent(scope)')
    BY SMT, <2>1, <2>2, <2>3, QuietIsCovered
  <2>5. QED
    BY SMT, <1>5, <2>4 DEF Covered
<1>9. CASE scope # NeededScope(q)
  <2>1. Waiting(scope)' \subseteq Waiting(scope)
    BY <1>4, <1>9 DEF Waiting
  <2>2. Spent(scope)' = Spent(scope)
    BY <1>6, <1>9 DEF Spent
  <2>3. Covered(Effects(scope), Waiting(scope)', Spent(scope)')
    BY ZenonT(40), <1>7, <2>1, <2>2, QuietIsCovered
  <2>4. QED
    BY SMT, <1>5, <2>3 DEF Covered
<1>10. QED
  BY <1>8, <1>9

\* And every step that brings nothing about and makes nobody wait.
LEMMA QuietKeepsBooks ==
  ASSUME RelayTypeOK, TypeOK', [Next]_vars, Books, NEW scope \in HostScope,
         \A x : ~New(scope, x), Waiting(scope)' \subseteq Waiting(scope),
         UNCHANGED <<issued, uses>>
  PROVE  Covered(Effects(scope), Waiting(scope), Spent(scope))'
<1>1. Effects(scope)' \subseteq Effects(scope)
  BY GrowthIsNew DEF RelayTypeOK
<1>2. Spent(scope)' = Spent(scope)
  BY DEF Spent
<1>3. Covered(Effects(scope)', Waiting(scope)', Spent(scope))
  BY <1>1, QuietIsCovered DEF Books
<1>4. QED
  BY <1>2, <1>3 DEF Covered

\* A new ticket covers no less than before.
LEMMA IssueKeepsBooks ==
  ASSUME RelayTypeOK, Books, NEW t \in TicketIds, NEW made \in HostScope,
         IssueTicket(t, made), NEW scope \in HostScope
  PROVE  Covered(Effects(scope), Waiting(scope), Spent(scope))'
<1>1. /\ issued[t] = Null /\ uses' = uses
      /\ \A x \in TicketIds \ {t} : issued'[x] = issued[x]
  BY DEF IssueTicket, T!Issue, RelayTypeOK
<1>2. Effects(scope)' = Effects(scope) /\ Waiting(scope)' = Waiting(scope)
  BY DEF IssueTicket, vars, Effects, InvitesIn, ClaimsIn, Waiting
<1>3. scope # Null
  BY RelayConstants
<1>4. Spent(scope) \subseteq Spent(scope)'
  BY <1>1, <1>3 DEF Spent
<1>5. Covered(Effects(scope), Waiting(scope), Spent(scope)')
  BY <1>4, QuietIsCovered DEF Books
<1>6. QED
  BY SMT, <1>2, <1>5 DEF Covered

\* The remaining steps.
LEMMA OtherKeepsBooks ==
  ASSUME RelayTypeOK, TypeOK', [Next]_vars, Books, NEW scope \in HostScope
  PROVE  /\ \A r \in Requests, purpose \in Asked, s \in Scopes :
              \A target \in Targets(purpose, s) :
                Receive(r, purpose, s, target)
                  => Covered(Effects(scope), Waiting(scope), Spent(scope))'
         /\ \A r \in Requests, raw \in RawInviteIds, now \in Nows,
               e \in 0 .. MaxTime + MaxLifetime :
              handleCreateInviteCheck(r, raw, now, e)
                => Covered(Effects(scope), Waiting(scope), Spent(scope))'
         /\ \A r \in Requests :
              Fail(r) => Covered(Effects(scope), Waiting(scope), Spent(scope))'
         /\ Unauthenticated
              => Covered(Effects(scope), Waiting(scope), Spent(scope))'
         /\ RelayRestart
              => Covered(Effects(scope), Waiting(scope), Spent(scope))'
         /\ UNCHANGED relayVars
              => Covered(Effects(scope), Waiting(scope), Spent(scope))'
<1>1. ASSUME UNCHANGED <<invites, claims, devices>>
      PROVE  \A x : ~New(scope, x)
  <2>1. /\ ClaimsKeptBut({}) /\ \A s \in Scopes : InvitesKeptBut(s, {})
        /\ UNCHANGED devices
    BY <1>1 DEF ClaimsKeptBut, InvitesKeptBut, ClaimKept, InviteKept
  <2>2. QED
    BY <2>1, KeptIsOld
<1>2. ASSUME NEW r \in Requests, NEW purpose \in Asked, NEW s \in Scopes,
             NEW target \in Targets(purpose, s), Receive(r, purpose, s, target)
      PROVE  Covered(Effects(scope), Waiting(scope), Spent(scope))'
  <2>1. /\ running'[r].stage = "received"
        /\ \A x \in Requests \ {r} : running'[x] = running[x]
    BY <1>2 DEF Receive, RelayTypeOK
  <2>2. Waiting(scope)' \subseteq Waiting(scope)
    BY <2>1 DEF Waiting
  <2>3. UNCHANGED <<invites, claims, devices, issued, uses>>
    BY <1>2 DEF Receive, vars
  <2>4. QED
    BY <1>1, <2>2, <2>3, QuietKeepsBooks
<1>3. ASSUME NEW r \in Requests, NEW raw \in RawInviteIds, NEW now \in Nows,
             NEW e \in 0 .. MaxTime + MaxLifetime,
             handleCreateInviteCheck(r, raw, now, e)
      PROVE  Covered(Effects(scope), Waiting(scope), Spent(scope))'
  <2>1. PICK q \in Running : q = running[r] /\ q # Null /\ q.stage = "authorised"
    BY <1>3 DEF handleCreateInviteCheck, At, RelayTypeOK
  <2>2. PICK w : w = [scope |-> q.host, id |-> raw.id, expiresAt |-> e]
    OBVIOUS
  <2>3. /\ running'[r] = [q EXCEPT !.stage = "inserting", !.target = w]
        /\ \A x \in Requests \ {r} : running'[x] = running[x]
    BY <1>3, <2>1, <2>2 DEF handleCreateInviteCheck, RelayTypeOK
  <2>4. NeededScope(running'[r]) = NeededScope(running[r])
    BY <2>1, <2>3 DEF NeededScope, Running
  <2>5. Waiting(scope)' \subseteq Waiting(scope)
    BY <2>1, <2>3, <2>4 DEF Waiting
  <2>6. UNCHANGED <<invites, claims, devices, issued, uses>>
    BY <1>3 DEF handleCreateInviteCheck, CreateInviteCheck
  <2>7. QED
    BY <1>1, <2>5, <2>6, QuietKeepsBooks
<1>4. ASSUME NEW r \in Requests, Fail(r)
      PROVE  Covered(Effects(scope), Waiting(scope), Spent(scope))'
  <2>1. Waiting(scope)' \subseteq Waiting(scope)
    BY <1>4, EndsWaiting DEF Fail
  <2>2. UNCHANGED <<invites, claims, devices, issued, uses>>
    BY <1>4 DEF Fail, vars
  <2>3. QED
    BY <1>1, <2>1, <2>2, QuietKeepsBooks
<1>5. ASSUME Unauthenticated
      PROVE  Covered(Effects(scope), Waiting(scope), Spent(scope))'
  <2>1. Waiting(scope)' = Waiting(scope) /\ UNCHANGED <<issued, uses>>
    BY <1>5 DEF Unauthenticated, Waiting
  <2>2. ASSUME NEW c \in ClaimIds, NEW now \in Nows, DeviceRequest(c, now)
        PROVE  \A x : ~New(scope, x)
    BY <2>2, DeviceRequestKeeps, KeptIsOld DEF RelayTypeOK
  <2>3. \A x : ~New(scope, x)
    BY <1>1, <1>5, <2>2 DEF Unauthenticated, SetEnabled, Tick
  <2>4. QED
    BY <2>1, <2>3, QuietKeepsBooks
<1>6. ASSUME RelayRestart
      PROVE  Covered(Effects(scope), Waiting(scope), Spent(scope))'
  <2>1. Waiting(scope)' \subseteq Waiting(scope)
    BY <1>6 DEF RelayRestart, Waiting
  <2>2. UNCHANGED <<invites, claims, devices, issued, uses>>
    BY <1>6 DEF RelayRestart, Restart
  <2>3. QED
    BY <1>1, <2>1, <2>2, QuietKeepsBooks
<1>7. ASSUME UNCHANGED relayVars
      PROVE  Covered(Effects(scope), Waiting(scope), Spent(scope))'
  <2>1. Waiting(scope)' = Waiting(scope)
    BY <1>7 DEF relayVars, Waiting
  <2>2. UNCHANGED <<invites, claims, devices, issued, uses>>
    BY <1>7 DEF relayVars, vars
  <2>3. QED
    BY <1>1, <2>1, <2>2, QuietKeepsBooks
<1>8. QED
  BY <1>2, <1>3, <1>4, <1>5, <1>6, <1>7

\* Every step keeps the books.
LEMMA BooksStep ==
  ASSUME RelayTypeOK, TypeOK', RequestsOK, Books, [RelayNext]_relayVars
  PROVE  Books'
<1> SUFFICES ASSUME NEW scope \in HostScope
             PROVE  Covered(Effects(scope), Waiting(scope), Spent(scope))'
  BY DEF Books
<1>   [Next]_vars
  BY StepIsPairingStep
<1>2. ASSUME NEW r \in Requests,
             \/ \E purpose \in Asked, s \in Scopes :
                  \E target \in Targets(purpose, s) :
                    Receive(r, purpose, s, target)
             \/ \E t \in TicketIds : authorizeTicket(r, t)
             \/ \E now \in Nows :
                  \/ Act(r, now)
                  \/ \E raw \in RawInviteIds, e \in 0 .. MaxTime + MaxLifetime :
                       handleCreateInviteCheck(r, raw, now, e)
             \/ handleCreateInviteInsert(r)
             \/ Fail(r)
      PROVE  Covered(Effects(scope), Waiting(scope), Spent(scope))'
  <2>1. CASE (\E now \in Nows : Act(r, now)) \/ handleCreateInviteInsert(r)
    BY <2>1, ActKeepsBooks
  <2>2. CASE \E t \in TicketIds : authorizeTicket(r, t)
    BY <2>2, AuthorisationKeepsBooks
  <2>3. CASE \E purpose \in Asked, s \in Scopes :
               \E target \in Targets(purpose, s) : Receive(r, purpose, s, target)
    BY <2>3, OtherKeepsBooks
  <2>4. CASE \E now \in Nows, raw \in RawInviteIds,
                e \in 0 .. MaxTime + MaxLifetime :
               handleCreateInviteCheck(r, raw, now, e)
    BY <2>4, OtherKeepsBooks
  <2>5. CASE Fail(r)
    BY <2>5, OtherKeepsBooks
  <2>6. QED
    BY <1>2, <2>1, <2>2, <2>3, <2>4, <2>5
<1>3. ASSUME NEW t \in TicketIds, NEW made \in HostScope, IssueTicket(t, made)
      PROVE  Covered(Effects(scope), Waiting(scope), Spent(scope))'
  BY <1>3, IssueKeepsBooks
<1>4. CASE Unauthenticated \/ RelayRestart \/ UNCHANGED relayVars
  BY <1>4, OtherKeepsBooks
<1>5. QED
  BY <1>2, <1>3, <1>4 DEF RelayNext

\* Every invite, every settled claim and every revocation has been paid for
\* with a ticket of its own for exactly its scope, however many requests run
\* and wherever the relay restarts between their statements.
THEOREM RelayIsAuthorised == RelaySpec => []EffectsAreAuthorised
<1>1. RelayInit => Books
  <2> SUFFICES ASSUME RelayInit, NEW scope \in HostScope
               PROVE  Covered(Effects(scope), Waiting(scope), Spent(scope))
    BY DEF Books
  <2>1. Effects(scope) = {}
    <3>1. /\ scope.purpose \in Purposes /\ scope.host \in Scopes
          /\ scope.purpose = "device_revoke" => scope.device \in DeviceIds
      BY RelayConstants DEF HostScope, InvitePurposes, ListPurposes
    <3>2. /\ \A s \in Scopes, i \in InviteIds : invites[s][i] = Null
          /\ \A c \in ClaimIds : claims[c] = Null
          /\ \A s \in Scopes, d \in DeviceIds : devices[s][d] = Null
      BY DEF RelayInit, Init
    <3>3. QED
      BY <3>1, <3>2 DEF Effects, InvitesIn, ClaimsIn, Purposes, ClaimPurposes,
                        InvitePurposes, ListPurposes
  <2>2. Waiting(scope) = {} /\ Spent(scope) = {}
    BY SMT DEF RelayInit, Waiting, Spent, T!TicketsInit
  <2>3. Covered({}, {}, {})
    <3>1. [x \in {} |-> x] \in [{} -> {}]
      OBVIOUS
    <3>2. QED
      BY <3>1 DEF Covered
  <2>4. QED
    BY <2>1, <2>2, <2>3
<1>2. RelayTypeOK /\ RelayTypeOK' /\ RequestsOK /\ Books
        /\ [RelayNext]_relayVars => Books'
  BY BooksStep DEF RelayTypeOK
<1>3. Books => EffectsAreAuthorised
  BY DEF Books, Covered, EffectsAreAuthorised
<1>4. QED
  BY <1>1, <1>2, <1>3, RelayTypeCorrect, PTL DEF RelaySpec

=============================================================================
