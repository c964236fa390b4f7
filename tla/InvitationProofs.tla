-------------------------- MODULE InvitationProofs ---------------------------
(***************************************************************************)
(* Proofs about the steps of the pairing service, for every choice of the  *)
(* constants: whom a step may approve and when, which devices it may       *)
(* change, that it stays within one tenant and host, that a pending claim  *)
(* has an open invite, and that every step is one of Invitation.           *)
(***************************************************************************)
EXTENDS PairingProofs

\* The leaves go to Zenon; the ones that need more name their prover.
USE Zenon

-----------------------------------------------------------------------------
(* Approvals in time, and authorised changes of devices *)

\* A claim that becomes approved is the one that ApproveClaim names.
LEMMA NewlyApproved ==
  ASSUME TypeOK, [Next]_vars, NEW c \in ClaimIds, Approved(c)', ~Approved(c)
  PROVE  \E s \in Scopes, req \in ApprovalRequests, now \in Nows :
           ApproveClaim(s, c, req, now)
<1>1. ~Quiet
  BY DEF Quiet
<1>2. PICK s \in Scopes, x \in ClaimIds, req \in ApprovalRequests, now \in Nows :
        ApproveClaim(s, x, req, now)
  BY <1>1, StepKinds
<1>3. ApprovalEffect(s, x, req)
  BY <1>2, ApprovalFacts
<1>4. x = c
  BY <1>3 DEF ApprovalEffect
<1>5. QED
  BY <1>2, <1>4

\* Waiting for the connection stretches an expiry by MaxLag at most, for every
\* lag, lifetime and clock: ApproveClaim compares the expiry with a time that
\* is at most MaxLag old.
THEOREM EveryApprovalIsInTime == Spec => ApprovedInTime
<1>1. ASSUME TypeOK, [Next]_vars, NEW c \in ClaimIds, Approved(c)', ~Approved(c)
      PROVE  clock < claims[c].expiresAt + MaxLag
  <2>1. PICK s \in Scopes, req \in ApprovalRequests, now \in Nows :
          ApproveClaim(s, c, req, now)
    BY <1>1, NewlyApproved
  <2>2. ApprovedRows(s, c, req, now)
    BY <1>1, <2>1, ApproveEffect
  <2>3. claims[c] \in ClaimRow /\ ~(claims[c].expiresAt <= now)
    BY <2>2 DEF ApprovedRows
  <2>4. claims[c].expiresAt \in Nat
    BY <2>3 DEF ClaimRow
  <2>5. now \in Nat /\ clock \in Nat /\ clock <= now + MaxLag /\ MaxLag \in Nat
    BY SMT, <1>1, PairingConstants DEF Nows, TypeOK
  <2>6. QED
    BY SMT, <2>3, <2>4, <2>5
<1>2. TypeOK /\ [Next]_vars =>
        [\A c \in ClaimIds :
           Approved(c)' /\ ~Approved(c) =>
             clock < claims[c].expiresAt + MaxLag]_vars
  BY <1>1
<1>3. QED
  BY <1>2, PairingTypeCorrect, PTL DEF Spec, ApprovedInTime

\* What DeviceChangesAreAuthorised allows of one device.
DeviceChange(s, d) ==
  LET old == devices[s][d]
      new == devices'[s][d] IN
  new # old =>
    /\ new # Null
    /\ \/ old # Null /\ new = [old EXCEPT !.revoked = TRUE]
       \/ /\ old # Null =>
               /\ new = [old EXCEPT !.revoked = FALSE, !.binding = new.binding]
               /\ old.binding < new.binding
          /\ \E c \in ClaimIds :
               /\ IsPending(claims[c]) /\ Approved(c)'
               /\ claims[c].scope = s /\ claims[c].device = d
               /\ claims'[c].approval.binding = new.binding
               /\ IsPending(invites[s][claims[c].invite])

\* The upsert keeps the keys and enlarges the binding version.
LEMMA Rebound ==
  ASSUME NEW old \in DeviceRow, NEW req \in ApprovalColumns,
         BindingAccepted(old, req), NEW new, new = BoundDevice(old, req)
  PROVE  /\ new = [old EXCEPT !.revoked = FALSE, !.binding = new.binding]
         /\ old.binding < new.binding
<1>1. old # Null
  BY PairingConstants
<1>2. new = [old EXCEPT !.binding = req.binding, !.revoked = FALSE]
  BY <1>1 DEF BoundDevice
<1>3. new.binding = req.binding
  BY <1>2 DEF DeviceRow
<1>4. QED
  BY <1>1, <1>2, <1>3 DEF BindingAccepted, DeviceRow

\* ApproveClaim changes the device of its claim, with the approved binding.
LEMMA ApprovalAuthorises ==
  ASSUME TypeOK, NEW s \in Scopes, NEW c \in ClaimIds, NEW req \in ApprovalRequests,
         NEW now \in Nows, ApproveClaim(s, c, req, now),
         NEW t \in Scopes, NEW d \in DeviceIds
  PROVE  DeviceChange(t, d)
<1>1. ApprovedRows(s, c, req, now)
  BY ApproveEffect
<1>2. /\ IsPending(claims[c]) /\ claims[c].scope = s
      /\ claims[c].device \in DeviceIds
      /\ IsPending(invites[s][claims[c].invite])
      /\ BindingAccepted(devices[s][claims[c].device], req)
      /\ devices' = [devices EXCEPT ![s][claims[c].device] = BoundDevice(@, req)]
  BY <1>1 DEF ApprovedRows
<1>3. devices \in [Scopes -> [DeviceIds -> DeviceRow \cup {Null}]]
  BY DEF TypeOK
<1>4. CASE t = s /\ d = claims[c].device
  <2>1. devices'[t][d] = BoundDevice(devices[t][d], req)
    BY <1>2, <1>3, <1>4
  <2>2. devices[t][d] \in DeviceRow \cup {Null} /\ req \in ApprovalColumns
    BY <1>3, ApprovalRequestType
  <2>3. BindingAccepted(devices[t][d], req)
    BY <1>2, <1>4
  <2>4. devices'[t][d] # Null /\ devices'[t][d].binding = req.binding
    BY <2>1, <2>2, <2>3, BoundDeviceValues
  <2>5. devices[t][d] # Null =>
          /\ devices'[t][d] = [devices[t][d] EXCEPT !.revoked = FALSE,
                                             !.binding = devices'[t][d].binding]
          /\ devices[t][d].binding < devices'[t][d].binding
    BY <2>1, <2>2, <2>3, Rebound
  <2>6. Approved(c)' /\ claims'[c].approval = req
    BY SMT, ApprovalFacts, ApprovedAfterApproval
  <2>7. QED
    BY <1>2, <1>4, <2>4, <2>5, <2>6 DEF DeviceChange
<1>5. CASE ~(t = s /\ d = claims[c].device)
  <2>1. devices'[t][d] = devices[t][d]
    BY <1>2, <1>3, <1>5
  <2>2. QED
    BY <2>1 DEF DeviceChange
<1>6. QED
  BY <1>4, <1>5

\* A device row changes to revoked, or because a pending invite is spent on a
\* pending claim for that device under a larger binding version, and never
\* otherwise: no repeated approval, race or restart binds a device again.
THEOREM EveryDeviceChangeIsAuthorised == Spec => DeviceChangesAreAuthorised
<1>1. ASSUME TypeOK, [Next]_vars, NEW s \in Scopes, NEW d \in DeviceIds
      PROVE  DeviceChange(s, d)
  <2>1. CASE UNCHANGED devices
    BY <2>1 DEF DeviceChange
  <2>2. ASSUME NEW t \in Scopes, NEW e \in DeviceIds, RevokeDevice(t, e)
        PROVE  DeviceChange(s, d)
    <3>1. devices \in [Scopes -> [DeviceIds -> DeviceRow \cup {Null}]]
      BY <1>1 DEF TypeOK
    <3>2. CASE s = t /\ d = e
      <4>1. /\ devices[s][d] # Null /\ devices[s][d] \in DeviceRow
            /\ devices'[s][d] = [devices[s][d] EXCEPT !.revoked = TRUE]
        BY <2>2, <3>1, <3>2 DEF RevokeDevice
      <4>2. devices'[s][d] # Null
        BY <4>1, RevokedRow, PairingConstants
      <4>3. QED
        BY <4>1, <4>2 DEF DeviceChange
    <3>3. CASE ~(s = t /\ d = e)
      <4>1. devices'[s][d] = devices[s][d]
        BY <2>2, <3>1, <3>3 DEF RevokeDevice
      <4>2. QED
        BY <4>1 DEF DeviceChange
    <3>4. QED
      BY <3>2, <3>3
  <2>3. QED
    BY <1>1, <2>1, <2>2, ApprovalAuthorises, StepKinds
<1>2. TypeOK /\ [Next]_vars =>
        [\A s \in Scopes, d \in DeviceIds : DeviceChange(s, d)]_vars
  BY <1>1
<1>3. DeviceChangesAreAuthorised <=>
        [][\A s \in Scopes, d \in DeviceIds : DeviceChange(s, d)]_vars
  BY DEF DeviceChangesAreAuthorised, DeviceChange
<1>4. QED
  BY <1>2, <1>3, PairingTypeCorrect, PTL DEF Spec

-----------------------------------------------------------------------------
(* Isolation of tenants and hosts *)

\* Apart from expiring rows, the step writes rows of t only.
WritesOnly(t) ==
  /\ \A s \in Scopes \ {t} : devices'[s] = devices[s]
  /\ \A s \in Scopes \ {t}, i \in InviteIds :
       invites'[s][i] # invites[s][i] => invites'[s][i].status = "expired"
  /\ \A x \in ClaimIds :
       \/ claims'[x] # claims[x] => claims'[x].status = "expired"
       \/ claims'[x].scope = t

\* The sweep of expirePending writes no other status than "expired".
LEMMA SweepExpires ==
  ASSUME TypeOK, NEW now
  PROVE  /\ \A x \in ClaimIds :
              ExpiredClaims(now)[x] # claims[x] =>
                ExpiredClaims(now)[x].status = "expired"
         /\ \A s \in Scopes, i \in InviteIds :
              ExpiredInvites(now)[s][i] # invites[s][i] =>
                ExpiredInvites(now)[s][i].status = "expired"
  BY SMT, SweptStays

\* Every step writes rows of a single host.
LEMMA EveryStepHasOneScope ==
  ASSUME TypeOK, [Next]_vars
  PROVE  \E t : WritesOnly(t)
<1> DEFINE Goal == \E t : WritesOnly(t)
<1>0. {"rejected", "cancelled", "consumed"} \subseteq Status
  BY DEF Status
<1>1. CASE UNCHANGED <<invites, claims, devices>>
  BY <1>1 DEF WritesOnly
<1>2. ASSUME NEW s \in Scopes, NEW d \in DeviceIds, RevokeDevice(s, d)
      PROVE  Goal
  <2>1. WritesOnly(s)
    BY <1>2 DEF RevokeDevice, WritesOnly, TypeOK
  <2>2. QED
    BY <2>1
<1>3. ASSUME NEW r \in creating, CreateInviteInsert(r)
      PROVE  Goal
  <2>1. CreatedRow(r)
    BY <1>3, CreateEffect
  <2>2. \A s \in Scopes \ {r.scope}, i \in InviteIds :
          invites'[s][i] = invites[s][i]
    BY <2>1 DEF CreatedRow
  <2>3. UNCHANGED <<claims, devices>>
    BY <2>1 DEF CreatedRow
  <2>4. WritesOnly(r.scope)
    BY <2>2, <2>3 DEF WritesOnly
  <2>5. QED
    BY <2>4
<1>4. ASSUME NEW now, CommitExpiry(now), UNCHANGED devices
      PROVE  Goal
  <2>1. WritesOnly(Null)
    BY <1>4, SweepExpires DEF CommitExpiry, WritesOnly
  <2>2. QED
    BY <2>1
<1>5. ASSUME NEW c \in ClaimIds, NEW status \in {"rejected", "cancelled"}, NEW now,
             SettleClaim(c, status, now)
      PROVE  Goal
  <2>1. SettledRows(c, status, now) /\ UNCHANGED devices
    BY <1>5, SettleEffect DEF SettleClaim
  <2>2. /\ \A x \in ClaimIds \ {c} : claims'[x] = ExpiredClaims(now)[x]
        /\ \A s \in Scopes, i \in InviteIds :
             invites'[s][i] = ExpiredInvites(now)[s][i]
    BY <2>1 DEF SettledRows
  <2>3. WritesOnly(claims'[c].scope)
    BY SMT, <2>1, <2>2, SweepExpires DEF WritesOnly
  <2>4. QED
    BY <2>3
<1>6. ASSUME NEW s \in Scopes, NEW raw \in RawInviteIds, NEW now,
             CancelInvite(s, raw, now)
      PROVE  Goal
  <2>1. CancelledRows(s, raw, now) /\ UNCHANGED devices
    BY <1>6, CancelEffect DEF CancelInvite
  <2>2. ASSUME NEW x \in ClaimIds
        PROVE  \/ claims'[x] # claims[x] => claims'[x].status = "expired"
               \/ claims'[x].scope = s
    <3>1. CASE /\ claims[x] \in ClaimRow /\ IsPending(claims[x])
               /\ claims[x].scope = s
               /\ claims'[x] = [claims[x] EXCEPT !.status = "cancelled"]
      BY SMT, <1>0, <3>1, WrittenClaim
    <3>2. CASE claims'[x] = ExpiredClaims(now)[x]
      BY <3>2, SweepExpires
    <3>3. QED
      BY <2>1, <3>1, <3>2 DEF CancelledRows, CancelledWith, MatchesRaw
  <2>3. \A t \in Scopes \ {s}, i \in InviteIds :
          invites'[t][i] = ExpiredInvites(now)[t][i]
    BY <2>1 DEF CancelledRows
  <2>4. WritesOnly(s)
    BY SMT, <2>1, <2>2, <2>3, SweepExpires DEF WritesOnly
  <2>5. QED
    BY <2>4
<1>7. ASSUME NEW c \in ClaimIds, NEW header \in Headers, NEW now,
             SubmitClaim(c, header, now)
      PROVE  Goal
  <2>1. SubmittedRows(c, header, now) /\ UNCHANGED devices
    BY <1>7, SubmitEffect DEF SubmitClaim
  <2>2. /\ \A x \in ClaimIds \ {c} : claims'[x] = ExpiredClaims(now)[x]
        /\ \A t \in Scopes, i \in InviteIds :
             invites'[t][i] = ExpiredInvites(now)[t][i]
    BY <2>1 DEF SubmittedRows
  <2>3. WritesOnly(claims'[c].scope)
    BY SMT, <2>1, <2>2, SweepExpires DEF WritesOnly
  <2>4. QED
    BY <2>3
<1>8. ASSUME NEW s \in Scopes, NEW c \in ClaimIds, NEW req \in ApprovalRequests,
             NEW now \in Nows, ApproveClaim(s, c, req, now)
      PROVE  Goal
  <2>1. ApprovedRows(s, c, req, now)
    BY <1>8, ApproveEffect
  <2>2. claims'[c].scope = s
    <3>1. ApprovalEffect(s, c, req)
      BY <1>8, ApprovalFacts
    <3>2. claims[c].scope = s
      BY <3>1 DEF ApprovalEffect
    <3>3. QED
      BY <3>1, <3>2, ApprovedAfterApproval
  <2>3. ASSUME NEW x \in ClaimIds \ {c}
        PROVE  \/ claims'[x] # claims[x] => claims'[x].status = "expired"
               \/ claims'[x].scope = s
    <3>1. CASE /\ claims[x] \in ClaimRow /\ IsPending(claims[x])
               /\ claims[x].scope = s
               /\ claims'[x] = [claims[x] EXCEPT !.status = "consumed"]
      BY SMT, <1>0, <3>1, WrittenClaim
    <3>2. CASE claims'[x] = ExpiredClaims(now)[x]
      BY ZenonT(40), <3>2, SweepExpires
    <3>3. QED
      BY <2>1, <3>1, <3>2 DEF ApprovedRows
  <2>4. \A t \in Scopes \ {s}, i \in InviteIds :
          invites'[t][i] = ExpiredInvites(now)[t][i]
    BY SMT, <2>1 DEF ApprovedRows
  <2>5. \A t \in Scopes \ {s} : devices'[t] = devices[t]
    <3>1. devices' = [devices EXCEPT ![s][claims[c].device] = BoundDevice(@, req)]
      BY <2>1 DEF ApprovedRows
    <3>2. QED
      BY <3>1 DEF TypeOK
  <2>6. WritesOnly(s)
    BY SMT, <2>2, <2>3, <2>4, <2>5, SweepExpires DEF WritesOnly
  <2>7. QED
    BY <2>6
<1>9. QED
  BY <1>1, <1>2, <1>3, <1>4, <1>5, <1>6, <1>7, <1>8, StepsOnTables DEF StepOnTables

\* Tenants and hosts are isolated although they share the tables: apart from
\* the expiry sweep, no step writes rows of two hosts, whatever ids they use.
THEOREM EveryStepIsIsolated == Spec => OneScopePerStep
<1>1. ASSUME TypeOK, [Next]_vars
      PROVE  \A s1, s2 \in TouchedScopes : s1 = s2
  <2>1. ASSUME NEW t, WritesOnly(t), NEW s \in TouchedScopes
        PROVE  s = t
    BY <2>1 DEF WritesOnly, TouchedScopes
  <2>2. QED
    BY <1>1, <2>1, EveryStepHasOneScope
<1>2. TypeOK /\ [Next]_vars => [\A s1, s2 \in TouchedScopes : s1 = s2]_vars
  BY <1>1
<1>3. QED
  BY <1>2, PairingTypeCorrect, PTL DEF Spec, OneScopePerStep

-----------------------------------------------------------------------------
(* Pending claims have open invites *)

\* The invite of a pending claim, in terms of the two rows.
Backs(invite, row) ==
  /\ invite # Null
  /\ invite.expiresAt = row.expiresAt
  /\ IsPending(invite) \/ (invite.status = "cancelled" /\ TRUE \in Paddings)

\* The inductive invariant: a pending claim has an invite with its expiry that
\* is pending, or that was cancelled by a padded id.
PendingClaimIsBacked ==
  \A c \in ClaimIds : IsPending(claims[c]) =>
    Backs(invites[claims[c].scope][claims[c].invite], claims[c])

\* A claim that the sweep leaves pending keeps its invite, as it was.
LEMMA SweptPendingIsBacked ==
  ASSUME TypeOK, PendingClaimIsBacked, NEW now, NEW x \in ClaimIds,
         IsPending(ExpiredClaims(now)[x])
  PROVE  LET s == claims[x].scope
             i == claims[x].invite IN
         /\ ExpiredClaims(now)[x] = claims[x] /\ IsPending(claims[x])
         /\ s \in Scopes /\ i \in InviteIds
         /\ ExpiredInvites(now)[s][i] = invites[s][i]
         /\ Backs(invites[s][i], claims[x])
<1> DEFINE s == claims[x].scope
           i == claims[x].invite
<1>1. /\ ExpiredClaims(now)[x] = claims[x] /\ IsPending(claims[x])
      /\ ~(claims[x].expiresAt <= now)
  BY SweptStays
<1>2. claims[x] \in ClaimRow
  BY <1>1 DEF IsPending, TypeOK
<1>3. s \in Scopes /\ i \in InviteIds
  BY <1>2 DEF ClaimRow
<1>4. Backs(invites[s][i], claims[x])
  BY <1>1 DEF PendingClaimIsBacked
<1>5. ~(invites[s][i].expiresAt <= now)
  BY <1>1, <1>4 DEF Backs
<1>6. ExpiredInvites(now)[s][i] = invites[s][i]
  BY SMT, <1>3, <1>5, SweptStays
<1>7. QED
  BY <1>1, <1>3, <1>4, <1>6

\* Every step leaves pending claims backed: whatever closes an invite settles
\* its claims in the same transaction, a padded cancellation excepted.
LEMMA BackedStep ==
  ASSUME TypeOK, PendingClaimIsBacked, [Next]_vars,
         NEW x \in ClaimIds, IsPending(claims'[x])
  PROVE  Backs(invites'[claims'[x].scope][claims'[x].invite], claims'[x])
<1> DEFINE s == claims[x].scope
           i == claims[x].invite
           Goal == Backs(invites'[claims'[x].scope][claims'[x].invite], claims'[x])
<1>0. ASSUME NEW now, claims'[x] = ExpiredClaims(now)[x],
             invites'[s][i] = ExpiredInvites(now)[s][i]
      PROVE  Goal
  BY SMT, <1>0, SweptPendingIsBacked
<1>1. CASE UNCHANGED <<invites, claims>>
  BY <1>1 DEF PendingClaimIsBacked
<1>2. ASSUME NEW r \in creating, CreateInviteInsert(r)
      PROVE  Goal
  <2>1. CreatedRow(r)
    BY <1>2, CreateEffect
  <2>2. claims' = claims
    BY <2>1 DEF CreatedRow
  <2>3. Backs(invites[s][i], claims[x]) /\ claims[x] \in ClaimRow
    BY <2>2 DEF PendingClaimIsBacked, IsPending, TypeOK
  <2>4. s \in Scopes /\ i \in InviteIds /\ invites[s][i] # Null
    BY <2>3 DEF Backs, ClaimRow
  <2>5. invites'[s][i] = invites[s][i]
    BY <2>1, <2>4 DEF CreatedRow
  <2>6. QED
    BY <2>2, <2>3, <2>5
<1>3. ASSUME NEW now, CommitExpiry(now)
      PROVE  Goal
  BY <1>0, <1>3 DEF CommitExpiry
<1>4. ASSUME NEW c \in ClaimIds, NEW status \in {"rejected", "cancelled"}, NEW now,
             SettleClaim(c, status, now)
      PROVE  Goal
  <2>1. SettledRows(c, status, now)
    BY <1>4, SettleEffect
  <2>2. x # c
    <3>1. /\ claims[c] \in ClaimRow
          /\ claims'[c] = [claims[c] EXCEPT !.status = status]
      BY <2>1 DEF SettledRows
    <3>2. claims'[c].status = status
      BY <3>1 DEF ClaimRow
    <3>3. QED
      BY <1>4, <3>2 DEF IsPending
  <2>3. claims'[x] = ExpiredClaims(now)[x] /\ invites' = ExpiredInvites(now)
    BY <1>4, <2>1, <2>2 DEF SettledRows, SettleClaim
  <2>4. QED
    BY <1>0, <2>3
<1>5. ASSUME NEW t \in Scopes, NEW raw \in RawInviteIds, NEW now,
             CancelInvite(t, raw, now)
      PROVE  Goal
  <2>1. CancelledRows(t, raw, now)
    BY <1>5, CancelEffect
  <2>2. /\ claims'[x] = ExpiredClaims(now)[x]
        /\ ~CancelledWith(ExpiredClaims(now)[x], t, raw)
    <3>1. ASSUME claims[x] \in ClaimRow,
                 claims'[x] = [claims[x] EXCEPT !.status = "cancelled"]
          PROVE  FALSE
      BY <3>1 DEF ClaimRow, IsPending
    <3>2. QED
      BY <2>1, <3>1 DEF CancelledRows
  <2>3. /\ claims'[x] = claims[x] /\ IsPending(claims[x])
        /\ s \in Scopes /\ i \in InviteIds
        /\ ExpiredInvites(now)[s][i] = invites[s][i]
        /\ Backs(invites[s][i], claims[x])
    BY SMT, <2>2, SweptPendingIsBacked
  <2>4. CASE s = t /\ i = raw.id
    <3>1. raw.padded /\ raw.padded \in Paddings
      BY <2>2, <2>3, <2>4 DEF CancelledWith, MatchesRaw, RawInviteIds
    <3>2. TRUE \in Paddings
      BY <3>1, PairingConstants
    <3>3. /\ invites[s][i] \in InviteRow /\ IsPending(invites[s][i])
          /\ invites'[s][i] = [invites[s][i] EXCEPT !.status = "cancelled"]
      BY <2>1, <2>4 DEF CancelledRows
    <3>4. /\ invites'[s][i] \in InviteRow /\ invites'[s][i].status = "cancelled"
          /\ invites'[s][i].expiresAt = invites[s][i].expiresAt
      BY <3>3 DEF InviteRow, Status
    <3>5. invites'[s][i] # Null /\ invites[s][i].expiresAt = claims[x].expiresAt
      BY <2>3, <3>4, PairingConstants DEF Backs
    <3>6. QED
      BY <2>3, <3>2, <3>4, <3>5 DEF Backs
  <2>5. CASE ~(s = t /\ i = raw.id)
    <3>1. invites'[s][i] = ExpiredInvites(now)[s][i]
      BY <2>1, <2>3, <2>5 DEF CancelledRows
    <3>2. QED
      BY <1>0, <2>2, <3>1
  <2>6. QED
    BY <2>4, <2>5
<1>6. ASSUME NEW c \in ClaimIds, NEW header \in Headers, NEW now,
             SubmitClaim(c, header, now)
      PROVE  Goal
  <2>1. SubmittedRows(c, header, now) /\ invites' = ExpiredInvites(now)
    BY <1>6, SubmitEffect DEF SubmitClaim
  <2>2. CASE x = c
    <3>1. /\ header.scope \in Scopes /\ header.invite \in InviteIds
          /\ claims'[x].scope = header.scope /\ claims'[x].invite = header.invite
          /\ IsPending(ExpiredInvites(now)[header.scope][header.invite])
          /\ claims'[x].expiresAt = invites[header.scope][header.invite].expiresAt
      BY <2>1, <2>2 DEF SubmittedRows
    <3>2. ExpiredInvites(now)[header.scope][header.invite] =
            invites[header.scope][header.invite]
      BY SMT, <3>1, SweptStays
    <3>3. QED
      BY <2>1, <3>1, <3>2 DEF Backs, IsPending
  <2>3. CASE x # c
    <3>1. claims'[x] = ExpiredClaims(now)[x]
      BY <2>1, <2>3 DEF SubmittedRows
    <3>2. QED
      BY <1>0, <2>1, <3>1
  <2>4. QED
    BY <2>2, <2>3
<1>7. ASSUME NEW t \in Scopes, NEW c \in ClaimIds, NEW req \in ApprovalRequests,
             NEW now \in Nows, ApproveClaim(t, c, req, now)
      PROVE  Goal
  <2>1. ApprovedRows(t, c, req, now)
    BY <1>7, ApproveEffect
  <2>2. x # c
    <3>1. ApprovalEffect(t, c, req)
      BY <1>7, ApprovalFacts
    <3>2. Approved(c)'
      BY <3>1, ApprovedAfterApproval
    <3>3. QED
      BY <3>2 DEF Approved, IsPending
  <2>3. /\ claims'[x] = ExpiredClaims(now)[x]
        /\ claims'[x].scope # t \/ claims'[x].invite # claims[c].invite
    <3>1. ASSUME claims[x] \in ClaimRow,
                 claims'[x] = [claims[x] EXCEPT !.status = "consumed"]
          PROVE  FALSE
      BY <3>1 DEF ClaimRow, IsPending
    <3>2. QED
      BY <2>1, <2>2, <3>1 DEF ApprovedRows
  <2>4. /\ claims'[x] = claims[x] /\ s \in Scopes /\ i \in InviteIds
    BY <2>3, SweptPendingIsBacked
  <2>5. invites'[s][i] = ExpiredInvites(now)[s][i]
    BY SMT, <2>1, <2>3, <2>4 DEF ApprovedRows
  <2>6. QED
    BY <1>0, <2>3, <2>5
<1>8. QED
  BY <1>1, <1>2, <1>3, <1>4, <1>5, <1>6, <1>7, StepsOnTables
  DEF StepOnTables, RevokeDevice

\* The only invite that a pending claim can outlive is one that was cancelled
\* with a padded id: every other way to close an invite settles its claims.
THEOREM PendingClaimsAreBacked == Spec => []PendingClaimIsBacked
<1>1. Init => PendingClaimIsBacked
  BY DEF Init, PendingClaimIsBacked, IsPending
<1>2. TypeOK /\ PendingClaimIsBacked /\ [Next]_vars => PendingClaimIsBacked'
  <2> SUFFICES ASSUME TypeOK, PendingClaimIsBacked, [Next]_vars,
                      NEW c \in ClaimIds, IsPending(claims'[c])
               PROVE  Backs(invites'[claims'[c].scope][claims'[c].invite], claims'[c])
    BY DEF PendingClaimIsBacked, Backs, IsPending
  <2>1. QED
    BY BackedStep
<1>3. QED
  BY <1>1, <1>2, PairingTypeCorrect, PTL DEF Spec

\* With invite ids that arrive trimmed, a claim is pending only while its
\* invite is, and both expire at the same time, for any number of claims that
\* race with approvals, cancellations and expiries.
THEOREM EveryPendingClaimHasOpenInvite ==
  Paddings \subseteq {FALSE} => (Spec => []PendingClaimHasOpenInvite)
<1> SUFFICES ASSUME Paddings \subseteq {FALSE}
             PROVE  Spec => []PendingClaimHasOpenInvite
  OBVIOUS
<1>1. PendingClaimIsBacked => PendingClaimHasOpenInvite
  BY DEF PendingClaimIsBacked, PendingClaimHasOpenInvite, Backs
<1>2. QED
  BY <1>1, PendingClaimsAreBacked, PTL

-----------------------------------------------------------------------------
(* The pairing service implements Invitation *)

\* No invite appears.
NoNewInvite ==
  \A s \in Scopes, i \in InviteIds :
    invites[s][i] = Null => invites'[s][i] = Null

\* Only the insert of CreateInvite makes one appear.
LEMMA InvitesAppear ==
  ASSUME TypeOK, [Next]_vars
  PROVE  NoNewInvite \/ \E r \in creating : CreateInviteInsert(r)
<1>1. ASSUME NEW now
      PROVE  \A s \in Scopes, i \in InviteIds :
               invites[s][i] = Null => ExpiredInvites(now)[s][i] = Null
  BY ExpiryIsQuiet DEF SweptRow
<1>2. ASSUME NEW s \in Scopes, NEW raw \in RawInviteIds, NEW now,
             CancelInvite(s, raw, now)
      PROVE  NoNewInvite
  <2>1. CancelledRows(s, raw, now)
    BY <1>2, CancelEffect
  <2>2. /\ invites[s][raw.id] # Null
        /\ \A t \in Scopes, i \in InviteIds :
             t # s \/ i # raw.id => invites'[t][i] = ExpiredInvites(now)[t][i]
    BY <2>1 DEF CancelledRows, IsPending
  <2>3. QED
    BY SMT, <1>1, <2>2 DEF NoNewInvite
<1>3. ASSUME NEW s \in Scopes, NEW c \in ClaimIds, NEW req, NEW now,
             ApproveClaim(s, c, req, now)
      PROVE  NoNewInvite
  <2>1. ApprovedRows(s, c, req, now)
    BY <1>3, ApproveEffect
  <2>2. /\ invites[s][claims[c].invite] # Null
        /\ \A t \in Scopes, i \in InviteIds :
             t # s \/ i # claims[c].invite =>
               invites'[t][i] = ExpiredInvites(now)[t][i]
    BY <2>1 DEF ApprovedRows, IsPending
  <2>3. QED
    BY SMT, <1>1, <2>2 DEF NoNewInvite
<1>4. ASSUME NEW now, invites' = ExpiredInvites(now)
      PROVE  NoNewInvite
  BY <1>1, <1>4 DEF NoNewInvite
<1>5. CASE UNCHANGED invites
  BY <1>5 DEF NoNewInvite
<1>6. QED
  BY <1>2, <1>3, <1>4, <1>5, StepsOnTables
  DEF StepOnTables, RevokeDevice, CommitExpiry, SettleClaim, SubmitClaim

\* An invite that is kept and not won is as it was, or was open and is closed.
Closes(old, new) ==
  \/ InviteState(new) = InviteState(old)
  \/ InviteState(old) = "open" /\ InviteState(new) = "closed"

\* The steps of one invite, other than its creation.
LEMMA KeptInviteCloses ==
  ASSUME NEW old \in InviteRow \cup {Null}, NEW new \in InviteRow \cup {Null},
         InviteStays(old, new), old = Null => new = Null,
         (new # Null /\ new.status = "consumed") =>
           (old # Null /\ old.status = "consumed")
  PROVE  Closes(old, new)
<1>1. CASE old = Null
  BY <1>1 DEF Closes
<1>2. CASE old # Null /\ new = old
  BY <1>2 DEF Closes
<1>3. CASE IsPending(old)
  <2>1. /\ old # Null /\ old.status = "pending"
        /\ new # Null /\ new.status # "consumed"
    BY <1>3 DEF IsPending, InviteStays
  <2>2. InviteState(old) = "open"
    BY <2>1 DEF InviteState
  <2>3. InviteState(new) \in {"open", "closed"}
    BY <2>1 DEF InviteState
  <2>4. QED
    BY <2>2, <2>3 DEF Closes
<1>4. QED
  BY <1>1, <1>2, <1>3 DEF InviteStays

\* The same of every invite that a step does not consume.
LEMMA InvitesClose ==
  ASSUME TypeOK, [Next]_vars, NoNewInvite, NEW s \in Scopes, NEW i \in InviteIds,
         Consumed(s, i)' => Consumed(s, i)
  PROVE  Closes(invites[s][i], invites'[s][i])
<1>1. invites[s][i] \in InviteRow \cup {Null} /\ invites'[s][i] \in InviteRow \cup {Null}
  BY NextType DEF TypeOK
<1>2. InviteStays(invites[s][i], invites'[s][i])
  BY RowsStay
<1>3. invites[s][i] = Null => invites'[s][i] = Null
  BY DEF NoNewInvite
<1>4. (invites'[s][i] # Null /\ invites'[s][i].status = "consumed") =>
        (invites[s][i] # Null /\ invites[s][i].status = "consumed")
  BY DEF Consumed
<1>5. QED
  BY <1>1, <1>2, <1>3, <1>4, KeptInviteCloses

\* The two functions that the abstract specification sees.
AbstractState == [k \in InviteKeys |-> InviteState(invites[k[1]][k[2]])]

AbstractWinners == [k \in InviteKeys |-> Winners(k[1], k[2])]

\* A step that approves nothing opens an invite or closes some.
LEMMA QuietStepIsAbstract ==
  ASSUME TypeOK, [Next]_vars, Quiet
  PROVE  Abstract!InvitationNext
<1>1. \A s, i : Winners(s, i)' = Winners(s, i)
  BY DEF Quiet, Winners
<1>2. AbstractWinners' = AbstractWinners
  BY <1>1 DEF AbstractWinners
<1>3. CASE NoNewInvite
  <2>1. ASSUME NEW k \in InviteKeys
        PROVE  \/ AbstractState'[k] = AbstractState[k]
               \/ AbstractState[k] = "open" /\ AbstractState'[k] = "closed"
    <3>1. k[1] \in Scopes /\ k[2] \in InviteIds
      BY DEF InviteKeys
    <3>2. Closes(invites[k[1]][k[2]], invites'[k[1]][k[2]])
      BY <1>3, <3>1, InvitesClose DEF Quiet
    <3>3. QED
      BY <3>2 DEF AbstractState, Closes
  <2>2. Abstract!Close
    BY <1>2, <2>1 DEF Abstract!Close, AbstractState, AbstractWinners
  <2>3. QED
    BY <2>2 DEF Abstract!InvitationNext
<1>4. ASSUME NEW r \in creating, CreateInviteInsert(r)
      PROVE  Abstract!InvitationNext
  <2>1. CreatedRow(r)
    BY <1>4, CreateEffect
  <2>2. CASE invites[r.scope][r.id] # Null
    <3>1. invites' = invites
      BY <1>4, <2>2 DEF CreateInviteInsert
    <3>2. Abstract!Close
      BY <1>2, <3>1 DEF Abstract!Close, AbstractWinners
    <3>3. QED
      BY <3>2 DEF Abstract!InvitationNext
  <2>3. CASE invites[r.scope][r.id] = Null
    <3> DEFINE k == <<r.scope, r.id>>
    <3>1. r.scope \in Scopes /\ r.id \in InviteIds
      BY <2>1 DEF CreatedRow
    <3>2. k \in InviteKeys /\ k[1] = r.scope /\ k[2] = r.id
      BY <3>1 DEF InviteKeys
    <3>3. AbstractState[k] = "none"
      BY <2>3, <3>2 DEF AbstractState, InviteState
    <3>4. AbstractState'[k] = "open"
      <4>1. invites'[r.scope][r.id] = [status |-> "pending", expiresAt |-> r.expiresAt]
        BY <1>4, <2>3, <3>1 DEF CreateInviteInsert, TypeOK
      <4>2. r.expiresAt \in Nat
        BY DEF TypeOK, InviteRequest
      <4>3. [status |-> "pending", expiresAt |-> r.expiresAt] \in InviteRow
        BY <4>2 DEF InviteRow, Status
      <4>4. invites'[r.scope][r.id] # Null /\ invites'[r.scope][r.id].status = "pending"
        BY SMT, <4>1, <4>3, PairingConstants
      <4>5. InviteState(invites'[r.scope][r.id]) = "open"
        BY <4>4 DEF InviteState
      <4>6. QED
        BY <3>2, <4>5 DEF AbstractState
    <3>5. ASSUME NEW j \in InviteKeys, j # k
          PROVE  AbstractState'[j] = AbstractState[j]
      <4>1. /\ j[1] \in Scopes /\ j[2] \in InviteIds
            /\ j[1] # r.scope \/ j[2] # r.id
        BY SMT, <3>5 DEF InviteKeys
      <4>2. invites'[j[1]][j[2]] = invites[j[1]][j[2]]
        BY <2>1, <4>1 DEF CreatedRow
      <4>3. QED
        BY <4>2 DEF AbstractState
    <3>6. AbstractState' = [AbstractState EXCEPT ![k] = "open"]
      <4>1. /\ AbstractState = [j \in InviteKeys |-> AbstractState[j]]
            /\ AbstractState' = [j \in InviteKeys |-> AbstractState'[j]]
        BY DEF AbstractState
      <4> HIDE DEF k
      <4>2. QED
        BY <3>2, <3>4, <3>5, <4>1
    <3>7. Abstract!Open(k)
      BY <1>2, <3>3, <3>6 DEF Abstract!Open, AbstractState, AbstractWinners
    <3>8. QED
      BY <3>2, <3>7 DEF Abstract!InvitationNext
  <2>4. QED
    BY <2>2, <2>3
<1>5. QED
  BY <1>3, <1>4, InvitesAppear

\* An approval wins the open invite of its claim.
LEMMA ApprovalIsAbstract ==
  ASSUME TypeOK, OneWinner, [Next]_vars, NEW s \in Scopes, NEW c \in ClaimIds,
         NEW req \in ApprovalRequests, NEW now \in Nows,
         ApproveClaim(s, c, req, now)
  PROVE  Abstract!InvitationNext
<1>0. PICK i : i = claims[c].invite
  OBVIOUS
<1> DEFINE k == <<s, i>>
<1>1. ApprovalEffect(s, c, req)
  BY ApprovalFacts
<1>2. /\ claims[c].scope = s /\ IsPending(claims[c]) /\ i \in InviteIds
      /\ IsPending(invites[s][i]) /\ Consumed(s, i)'
      /\ \A t \in Scopes, j \in InviteIds :
           t # s \/ j # i => (Consumed(t, j)' <=> Consumed(t, j))
  BY <1>0, <1>1 DEF ApprovalEffect, ClaimRow
<1>3. /\ Approved(c)' /\ ~Approved(c)
      /\ claims'[c].scope = s /\ claims'[c].invite = i
  BY SMT, <1>0, <1>1, <1>2, ApprovedAfterApproval DEF Approved, IsPending
<1>4. \A x \in ClaimIds \ {c} :
        /\ Approved(x)' <=> Approved(x)
        /\ Approved(x) => claims'[x] = claims[x]
  BY <1>1 DEF ApprovalEffect
<1>5. NoNewInvite
  <2>1. ~\E r \in creating : CreateInviteInsert(r)
    BY <1>3 DEF CreateInviteInsert, Approved
  <2>2. QED
    BY <2>1, InvitesAppear
<1>6. k \in InviteKeys /\ k[1] = s /\ k[2] = i
  BY <1>2 DEF InviteKeys
<1>7. AbstractState[k] = "open"
  BY <1>2, <1>6 DEF AbstractState, InviteState, IsPending
<1>8. AbstractState'[k] = "won"
  BY <1>2, <1>6 DEF AbstractState, InviteState, Consumed
<1>9. ASSUME NEW j \in InviteKeys \ {k}
      PROVE  \/ AbstractState'[j] = AbstractState[j]
             \/ AbstractState[j] = "open" /\ AbstractState'[j] = "closed"
  <2>1. j[1] \in Scopes /\ j[2] \in InviteIds /\ (j[1] # s \/ j[2] # i)
    BY SMT, <1>9 DEF InviteKeys
  <2>2. Closes(invites[j[1]][j[2]], invites'[j[1]][j[2]])
    BY <1>2, <1>5, <2>1, InvitesClose
  <2>3. QED
    BY <2>2 DEF AbstractState, Closes
<1>10. \A j \in InviteKeys : c \notin AbstractWinners[j]
  BY <1>3 DEF AbstractWinners, Winners
<1>11. Winners(s, i)' = {c}
  <2>1. Winners(s, i) = {}
    BY <1>2 DEF OneWinner, IsPending
  <2>2. QED
    BY <1>3, <1>4, <2>1 DEF Winners
<1>12. ASSUME NEW j \in InviteKeys, j # k
       PROVE  AbstractWinners'[j] = AbstractWinners[j]
  <2>1. j[1] # s \/ j[2] # i
    BY SMT, <1>12 DEF InviteKeys
  <2>2. Winners(j[1], j[2])' = Winners(j[1], j[2])
    BY SMT, <1>3, <1>4, <2>1 DEF Winners
  <2>3. QED
    BY <2>2 DEF AbstractWinners
<1>13. AbstractWinners' = [AbstractWinners EXCEPT ![k] = {c}]
  <2>1. /\ AbstractWinners = [j \in InviteKeys |-> AbstractWinners[j]]
        /\ AbstractWinners' = [j \in InviteKeys |-> AbstractWinners'[j]]
    BY DEF AbstractWinners
  <2>2. AbstractWinners'[k] = {c}
    BY <1>6, <1>11 DEF AbstractWinners
  <2> HIDE DEF k
  <2>3. QED
    BY <1>6, <1>12, <2>1, <2>2
<1>14. Abstract!Win(k, c)
  <2> HIDE DEF k
  <2>1. QED
    BY <1>7, <1>8, <1>9, <1>10, <1>13
    DEF Abstract!Win, AbstractState, AbstractWinners
<1>15. QED
  BY <1>6, <1>14 DEF Abstract!InvitationNext

\* The pairing service implements Invitation, for any number of invites and
\* claims: an invite is opened once and then closed, or won by one claim, for
\* good, whatever operations, expiries, restarts and waits interleave.
THEOREM PairingImplementsInvitation == Spec => ImplementsInvitation
<1>1. Init => Abstract!InvitationInit
  <2> SUFFICES ASSUME Init
               PROVE  Abstract!InvitationInit
    OBVIOUS
  <2>1. ASSUME NEW k \in InviteKeys
        PROVE  /\ InviteState(invites[k[1]][k[2]]) = "none"
               /\ Winners(k[1], k[2]) = {}
    BY DEF Init, InviteKeys, InviteState, Winners, Approved
  <2>2. QED
    BY <2>1 DEF Abstract!InvitationInit
<1>2. TypeOK /\ OneWinner /\ [Next]_vars =>
        [Abstract!InvitationNext]_<<AbstractState, AbstractWinners>>
  <2> SUFFICES ASSUME TypeOK, OneWinner, [Next]_vars
               PROVE  Abstract!InvitationNext
    OBVIOUS
  <2>1. QED
    BY QuietStepIsAbstract, ApprovalIsAbstract, StepKinds
<1>3. QED
  BY <1>1, <1>2, PairingTypeCorrect, InviteHasOneWinner, PTL
  DEF Spec, ImplementsInvitation, Abstract!InvitationSpec, AbstractState,
      AbstractWinners
=============================================================================
