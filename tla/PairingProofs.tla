---------------------------- MODULE PairingProofs ----------------------------
(***************************************************************************)
(* Proofs about the pairing service, for every choice of the constants.    *)
(***************************************************************************)
EXTENDS Pairing, TLAPS

\* The leaves go to Zenon; the ones that need more name their prover.
USE Zenon

-----------------------------------------------------------------------------
(* Rows and expiry *)

\* Expiring a row keeps it a row, changes nothing but a pending status, and
\* leaves nothing pending that has expired (expirePending).
LEMMA ExpireInvite ==
  ASSUME NEW row \in InviteRow \cup {Null}, NEW now
  PROVE  /\ Expire(row, now) \in InviteRow \cup {Null}
         /\ Expire(row, now) = Null <=> row = Null
         /\ Expire(row, now) = row \/
              (IsPending(row) /\ Expire(row, now) = [row EXCEPT !.status = "expired"])
  BY PairingConstants DEF Expire, IsPending, InviteRow, Status

\* The same of a row of pairing_claims.
LEMMA ExpireClaim ==
  ASSUME NEW row \in ClaimRow \cup {Null}, NEW now
  PROVE  /\ Expire(row, now) \in ClaimRow \cup {Null}
         /\ Expire(row, now) = Null <=> row = Null
         /\ Expire(row, now) = row \/
              (IsPending(row) /\ Expire(row, now) = [row EXCEPT !.status = "expired"])
  BY PairingConstants DEF Expire, IsPending, ClaimRow, Status

\* Both tables keep their types when expirePending sweeps them.
LEMMA ExpiredTables ==
  ASSUME TypeOK, NEW now
  PROVE  /\ ExpiredInvites(now) \in [Scopes -> [InviteIds -> InviteRow \cup {Null}]]
         /\ ExpiredClaims(now) \in [ClaimIds -> ClaimRow \cup {Null}]
<1>1. ASSUME NEW s \in Scopes, NEW i \in InviteIds
      PROVE  Expire(invites[s][i], now) \in InviteRow \cup {Null}
  <2>1. invites[s][i] \in InviteRow \cup {Null}
    BY DEF TypeOK
  <2>2. QED
    BY <2>1, ExpireInvite
<1>2. ASSUME NEW c \in ClaimIds
      PROVE  Expire(claims[c], now) \in ClaimRow \cup {Null}
  <2>1. claims[c] \in ClaimRow \cup {Null}
    BY DEF TypeOK
  <2>2. QED
    BY <2>1, ExpireClaim
<1>3. QED
  BY <1>1, <1>2 DEF ExpiredInvites, ExpiredClaims

-----------------------------------------------------------------------------
(* Type correctness *)

\* The time that an operation read is a natural number.
LEMMA NowIsNat ==
  ASSUME TypeOK, NEW now \in Nows
  PROVE  now \in Nat
  BY SMT DEF TypeOK, Nows

\* The values of an approval fit the columns that they are stored in.
LEMMA ApprovalRequestType ==
  ASSUME NEW req \in ApprovalRequests
  PROVE  req \in ApprovalColumns
<1>1. 0..MaxKeyVersion \subseteq Nat /\ 0..MaxBinding \subseteq Nat
  BY SMT, PairingConstants
<1>2. QED
  BY <1>1 DEF ApprovalRequests, ApprovalColumns

\* The upsert of ApproveClaim stores a well-formed device row.
LEMMA BoundDeviceType ==
  ASSUME NEW row \in DeviceRow \cup {Null}, NEW req \in ApprovalColumns
  PROVE  BoundDevice(row, req) \in DeviceRow
<1>1. CASE row = Null
  BY <1>1 DEF BoundDevice, DeviceRow, ApprovalColumns
<1>2. CASE row # Null
  <2>1. row \in DeviceRow /\ req.binding \in Nat
    BY <1>2 DEF ApprovalColumns
  <2>2. [row EXCEPT !.binding = req.binding, !.revoked = FALSE] \in DeviceRow
    BY <2>1 DEF DeviceRow
  <2>3. QED
    BY <1>2, <2>2 DEF BoundDevice
<1>3. QED
  BY <1>1, <1>2

\* The operations of a host keep the tables well formed.
LEMMA HostRequestType ==
  ASSUME TypeOK, NEW s \in Scopes, NEW now \in Nows, HostRequest(s, now)
  PROVE  TypeOK'
<1> USE PairingConstants
<1>1. now \in Nat
  BY NowIsNat
<1>2. /\ ExpiredInvites(now) \in [Scopes -> [InviteIds -> InviteRow \cup {Null}]]
      /\ ExpiredClaims(now) \in [ClaimIds -> ClaimRow \cup {Null}]
  BY ExpiredTables
<1>3. ASSUME NEW raw \in RawInviteIds, NEW e \in 0..MaxTime + MaxLifetime,
             CreateInviteCheck(s, raw, now, e)
      PROVE  TypeOK'
  <2>1. [scope |-> s, id |-> raw.id, expiresAt |-> e] \in InviteRequest
    BY SMT, <1>3 DEF RawInviteIds, InviteRequest
  <2>2. QED
    BY <1>3, <2>1 DEF CreateInviteCheck, TypeOK
<1>4. ASSUME NEW raw \in RawInviteIds, CancelInvite(s, raw, now)
      PROVE  TypeOK'
  <2>1. raw.id \in InviteIds
    BY DEF RawInviteIds
  <2>2. invites' \in [Scopes -> [InviteIds -> InviteRow \cup {Null}]]
    BY SMT, <1>2, <1>4, <2>1 DEF CancelInvite, IsPending, InviteRow, Status
  <2>3. claims' \in [ClaimIds -> ClaimRow \cup {Null}]
    <3>1. ASSUME NEW row \in ClaimRow \cup {Null}, CancelledWith(row, s, raw)
          PROVE  [row EXCEPT !.status = "cancelled"] \in ClaimRow
      BY <3>1 DEF CancelledWith, IsPending, ClaimRow, Status
    <3>2. \A c \in ClaimIds : ExpiredClaims(now)[c] \in ClaimRow \cup {Null}
      BY <1>2
    <3>3. QED
      BY <1>4, <3>1, <3>2 DEF CancelInvite
  <2>4. QED
    BY <1>4, <2>2, <2>3 DEF CancelInvite, TypeOK
<1>5. ASSUME NEW c \in ClaimIds, RejectClaim(s, c, now)
      PROVE  TypeOK'
  <2>1. claims' \in [ClaimIds -> ClaimRow \cup {Null}]
    BY SMT, <1>2, <1>5 DEF RejectClaim, IsPending, ClaimRow, Status
  <2>2. QED
    BY <1>2, <1>5, <2>1 DEF RejectClaim, TypeOK
<1>6. ASSUME NEW c \in ClaimIds, NEW req \in ApprovalRequests,
             ApproveClaim(s, c, req, now)
      PROVE  TypeOK'
  <2> DEFINE row == ExpiredClaims(now)[c]
  <2>1. row \in ClaimRow
    BY <1>2, <1>6 DEF ApproveClaim, IsPending
  <2>2. row.invite \in InviteIds /\ row.device \in DeviceIds
    BY <2>1 DEF ClaimRow
  <2>3. req \in ApprovalColumns
    BY SMT DEF ApprovalRequests, ApprovalColumns
  <2>4. invites' \in [Scopes -> [InviteIds -> InviteRow \cup {Null}]]
    BY SMT, <1>2, <1>6, <2>2 DEF ApproveClaim, ConsumeInvite, IsPending, InviteRow, Status
  <2>5. claims' \in [ClaimIds -> ClaimRow \cup {Null}]
    <3>1. [row EXCEPT !.status = "approved", !.approval = req] \in ClaimRow
      BY <2>1, <2>3 DEF ClaimRow, Status
    <3>2. ASSUME NEW x \in ClaimIds, IsPending(ExpiredClaims(now)[x])
          PROVE  [ExpiredClaims(now)[x] EXCEPT !.status = "consumed"] \in ClaimRow
      BY ZenonT(40), <1>2, <3>2 DEF IsPending, ClaimRow, Status
    <3>3. QED
      BY <1>2, <1>6, <3>1, <3>2 DEF ApproveClaim, ClaimsAfterApproval, IsSibling
  <2>6. devices' \in [Scopes -> [DeviceIds -> DeviceRow \cup {Null}]]
    <3>1. BoundDevice(devices[s][row.device], req) \in DeviceRow
      BY SMT, <2>2, <2>3, BoundDeviceType DEF TypeOK
    <3>2. QED
      BY <1>6, <2>2, <3>1 DEF TypeOK, ApproveClaim
  <2>7. QED
    BY <1>6, <2>4, <2>5, <2>6 DEF ApproveClaim, TypeOK
<1>7. ASSUME NEW c \in ClaimIds, NEW req \in ApprovalRequests,
             ReapproveClaim(s, c, req, now)
      PROVE  TypeOK'
  BY <1>2, <1>7 DEF ReapproveClaim, CommitExpiry, TypeOK
<1>8. ASSUME ListPendingClaims(now)
      PROVE  TypeOK'
  BY <1>2, <1>8 DEF ListPendingClaims, CommitExpiry, TypeOK
<1>9. QED
  BY <1>3, <1>4, <1>5, <1>6, <1>7, <1>8 DEF HostRequest

\* The operations of a device keep the tables well formed.
LEMMA DeviceRequestType ==
  ASSUME TypeOK, NEW c \in ClaimIds, NEW now \in Nows, DeviceRequest(c, now)
  PROVE  TypeOK'
<1> USE PairingConstants
<1>1. /\ ExpiredInvites(now) \in [Scopes -> [InviteIds -> InviteRow \cup {Null}]]
      /\ ExpiredClaims(now) \in [ClaimIds -> ClaimRow \cup {Null}]
  BY ExpiredTables
<1>2. ASSUME NEW header \in Headers, SubmitClaim(c, header, now)
      PROVE  TypeOK'
  <2> DEFINE new ==
        [status |-> "pending", scope |-> header.scope, invite |-> header.invite,
         device |-> header.device, agreement |-> header.agreement,
         keyVersion |-> header.keyVersion,
         expiresAt |-> invites[header.scope][header.invite].expiresAt,
         approval |-> Null]
  <2>1. /\ header.scope \in Scopes /\ header.invite \in InviteIds
        /\ header.device \in DeviceIds /\ header.agreement \in Keys
        /\ header.keyVersion \in Nat
    BY SMT DEF Headers
  <2>2. invites[header.scope][header.invite] # Null
    BY <1>2, <2>1, ExpireInvite DEF SubmitClaim, IsPending, ExpiredInvites, TypeOK
  <2>3. invites[header.scope][header.invite].expiresAt \in Nat
    BY SMT, <2>1, <2>2 DEF TypeOK, InviteRow
  <2>4. new \in ClaimRow
    BY <2>1, <2>3 DEF ClaimRow, Status
  <2>5. QED
    BY <1>1, <1>2, <2>4 DEF SubmitClaim, TypeOK
<1>3. ASSUME GetClaimWithToken(c, now)
      PROVE  TypeOK'
  BY <1>1, <1>3 DEF GetClaimWithToken, CommitExpiry, TypeOK
<1>4. ASSUME CancelClaim(c, now)
      PROVE  TypeOK'
  <2>1. claims' \in [ClaimIds -> ClaimRow \cup {Null}]
    BY SMT, <1>1, <1>4 DEF CancelClaim, IsPending, ClaimRow, Status
  <2>2. QED
    BY <1>1, <1>4, <2>1 DEF CancelClaim, TypeOK
<1>5. QED
  BY <1>2, <1>3, <1>4 DEF DeviceRequest

\* Every step keeps the tables well formed.
LEMMA NextType == TypeOK /\ [Next]_vars => TypeOK'
<1> SUFFICES ASSUME TypeOK, [Next]_vars
             PROVE  TypeOK'
  OBVIOUS
<1>1. ASSUME NEW s \in Scopes, NEW now \in Nows, HostRequest(s, now)
      PROVE  TypeOK'
  BY <1>1, HostRequestType
<1>2. ASSUME NEW c \in ClaimIds, NEW now \in Nows, DeviceRequest(c, now)
      PROVE  TypeOK'
  BY <1>2, DeviceRequestType
<1>3. ASSUME NEW r \in creating, CreateInviteInsert(r)
      PROVE  TypeOK'
  <2>1. r.scope \in Scopes /\ r.id \in InviteIds /\ r.expiresAt \in Nat
    BY DEF TypeOK, InviteRequest
  <2>2. [status |-> "pending", expiresAt |-> r.expiresAt] \in InviteRow
    BY <2>1 DEF InviteRow, Status
  <2>3. QED
    BY <1>3, <2>1, <2>2 DEF CreateInviteInsert, TypeOK
<1>4. ASSUME NEW s \in Scopes, NEW d \in DeviceIds, RevokeDevice(s, d)
      PROVE  TypeOK'
  <2>1. devices[s][d] \in DeviceRow
    BY <1>4 DEF RevokeDevice, TypeOK
  <2>2. [devices[s][d] EXCEPT !.revoked = TRUE] \in DeviceRow
    BY <2>1 DEF DeviceRow
  <2>3. QED
    BY <1>4, <2>2 DEF RevokeDevice, TypeOK
<1>5. ASSUME NEW t \in Tenants, NEW value \in BOOLEAN, SetEnabled(t, value)
      PROVE  TypeOK'
  BY <1>5 DEF SetEnabled, TypeOK
<1>6. CASE Restart
  BY <1>6 DEF Restart, TypeOK
<1>7. CASE Tick
  BY SMT, <1>7 DEF Tick, TypeOK
<1>8. CASE UNCHANGED vars
  BY <1>8 DEF vars, TypeOK
<1>9. QED
  BY <1>1, <1>2, <1>3, <1>4, <1>5, <1>6, <1>7, <1>8 DEF Next

\* Every reachable state of the tables is well formed: statuses, expiries and
\* approval columns of invites, claims and devices keep their types through
\* every operation of the service.
THEOREM PairingTypeCorrect == Spec => []TypeOK
<1>1. Init => TypeOK
  BY SMT DEF Init, TypeOK
<1>2. QED
  BY <1>1, NextType, PTL DEF Spec

-----------------------------------------------------------------------------
(* One winner per invite, and devices that match the approvals *)

Consumed(s, i) == invites[s][i] # Null /\ invites[s][i].status = "consumed"

\* A step that approves no claim and consumes no invite.
Quiet ==
  /\ \A c \in ClaimIds : Approved(c)' <=> Approved(c)
  /\ \A c \in ClaimIds : Approved(c) => claims'[c] = claims[c]
  /\ \A s \in Scopes, i \in InviteIds : Consumed(s, i)' <=> Consumed(s, i)

\* What expirePending does to one row.
SweptRow(old, new) ==
  /\ new = Null <=> old = Null
  /\ ~IsPending(old) => new = old
  /\ IsPending(old) => new.status \in {"pending", "expired"}
  /\ IsPending(new) => IsPending(old) /\ new = old

\* expirePending touches pending rows only.
LEMMA ExpiryIsQuiet ==
  ASSUME TypeOK, NEW now
  PROVE  /\ \A c \in ClaimIds : SweptRow(claims[c], ExpiredClaims(now)[c])
         /\ \A s \in Scopes, i \in InviteIds :
              SweptRow(invites[s][i], ExpiredInvites(now)[s][i])
<1>1. ASSUME NEW row \in InviteRow \cup {Null}
      PROVE  SweptRow(row, Expire(row, now))
  <2>1. CASE IsPending(row) /\ row.expiresAt <= now
    BY <2>1, ExpireInvite DEF SweptRow, Expire, IsPending, InviteRow
  <2>2. CASE ~(IsPending(row) /\ row.expiresAt <= now)
    BY <2>2 DEF SweptRow, Expire, IsPending
  <2>3. QED
    BY <2>1, <2>2
<1>2. ASSUME NEW row \in ClaimRow \cup {Null}
      PROVE  SweptRow(row, Expire(row, now))
  <2>1. CASE IsPending(row) /\ row.expiresAt <= now
    BY <2>1, ExpireClaim DEF SweptRow, Expire, IsPending, ClaimRow
  <2>2. CASE ~(IsPending(row) /\ row.expiresAt <= now)
    BY <2>2 DEF SweptRow, Expire, IsPending
  <2>3. QED
    BY <2>1, <2>2
<1>3. ASSUME NEW c \in ClaimIds
      PROVE  SweptRow(claims[c], ExpiredClaims(now)[c])
  BY <1>2 DEF TypeOK, ExpiredClaims
<1>4. ASSUME NEW s \in Scopes, NEW i \in InviteIds
      PROVE  SweptRow(invites[s][i], ExpiredInvites(now)[s][i])
  BY <1>1 DEF TypeOK, ExpiredInvites
<1>5. QED
  BY <1>3, <1>4

\* An operation that only commits the expiry approves nothing.
LEMMA CommitExpiryIsQuiet ==
  ASSUME TypeOK, NEW now, CommitExpiry(now)
  PROVE  Quiet
  BY ExpiryIsQuiet DEF CommitExpiry, SweptRow, IsPending, Approved, Consumed, Quiet

\* CancelInvite approves nothing and consumes nothing, padded id or not.
LEMMA CancelInviteIsQuiet ==
  ASSUME TypeOK, NEW s \in Scopes, NEW raw \in RawInviteIds, NEW now \in Nows,
         CancelInvite(s, raw, now)
  PROVE  Quiet
<1>1. raw.id \in InviteIds
  BY DEF RawInviteIds
<1>2. /\ ExpiredInvites(now) \in [Scopes -> [InviteIds -> InviteRow \cup {Null}]]
      /\ ExpiredClaims(now) \in [ClaimIds -> ClaimRow \cup {Null}]
  BY ExpiredTables
<1>3. ASSUME NEW c \in ClaimIds
      PROVE  /\ Approved(c)' <=> Approved(c)
             /\ Approved(c) => claims'[c] = claims[c]
  <2>1. CASE CancelledWith(ExpiredClaims(now)[c], s, raw)
    <3>1. claims'[c].status = "cancelled"
      BY <1>2, <2>1 DEF CancelInvite, CancelledWith, IsPending, ClaimRow
    <3>2. QED
      BY <2>1, <3>1, ExpiryIsQuiet DEF CancelledWith, SweptRow, IsPending, Approved
  <2>2. CASE ~CancelledWith(ExpiredClaims(now)[c], s, raw)
    <3>1. claims'[c] = ExpiredClaims(now)[c]
      BY <2>2 DEF CancelInvite
    <3>2. QED
      BY <3>1, ExpiryIsQuiet DEF SweptRow, IsPending, Approved
  <2>3. QED
    BY <2>1, <2>2
<1>4. ASSUME NEW t \in Scopes, NEW i \in InviteIds
      PROVE  Consumed(t, i)' <=> Consumed(t, i)
  <2>1. CASE t = s /\ i = raw.id
    <3>1. invites'[t][i].status = "cancelled"
      BY SMT, <1>1, <1>2, <2>1 DEF CancelInvite, IsPending, InviteRow
    <3>2. IsPending(invites[t][i])
      BY <2>1, ExpiryIsQuiet DEF CancelInvite, SweptRow
    <3>3. QED
      BY <3>1, <3>2 DEF IsPending, Consumed
  <2>2. CASE ~(t = s /\ i = raw.id)
    <3>1. invites'[t][i] = ExpiredInvites(now)[t][i]
      BY <1>1, <1>2, <2>2 DEF CancelInvite
    <3>2. QED
      BY ZenonT(40), <3>1, ExpiryIsQuiet DEF SweptRow, IsPending, Consumed
  <2>3. QED
    BY <2>1, <2>2
<1>5. QED
  BY <1>3, <1>4 DEF Quiet

\* Writing a status other than "approved" to a pending claim, or inserting a
\* pending claim, beside the expiry.
LEMMA SettleClaimIsQuiet ==
  ASSUME TypeOK, NEW now, NEW c \in ClaimIds, NEW new,
         claims[c] = Null \/ IsPending(claims[c]),
         new # Null, new.status # "approved",
         invites' = ExpiredInvites(now),
         claims' = [ExpiredClaims(now) EXCEPT ![c] = new]
  PROVE  Quiet
<1>1. ASSUME NEW x \in ClaimIds
      PROVE  /\ Approved(x)' <=> Approved(x)
             /\ Approved(x) => claims'[x] = claims[x]
  <2>1. CASE x = c
    BY <2>1, ExpiredTables DEF Approved, IsPending
  <2>2. CASE x # c
    <3>1. claims'[x] = ExpiredClaims(now)[x]
      BY <2>2, ExpiredTables
    <3>2. QED
      BY <3>1, ExpiryIsQuiet DEF SweptRow, IsPending, Approved
  <2>3. QED
    BY <2>1, <2>2
<1>2. ASSUME NEW s \in Scopes, NEW i \in InviteIds
      PROVE  Consumed(s, i)' <=> Consumed(s, i)
  BY ZenonT(40), ExpiryIsQuiet DEF SweptRow, IsPending, Consumed
<1>3. QED
  BY <1>1, <1>2 DEF Quiet

\* Every step approves a claim, or is quiet; a quiet step changes the devices
\* table only by revoking a device.
LEMMA StepKinds ==
  ASSUME TypeOK, [Next]_vars
  PROVE  \/ Quiet /\ UNCHANGED devices
         \/ Quiet /\ \E s \in Scopes, d \in DeviceIds : RevokeDevice(s, d)
         \/ \E s \in Scopes, c \in ClaimIds, req \in ApprovalRequests, now \in Nows :
              ApproveClaim(s, c, req, now)
<1> DEFINE Calm == Quiet /\ UNCHANGED devices
           Approval == \E s \in Scopes, c \in ClaimIds, req \in ApprovalRequests,
                          now \in Nows : ApproveClaim(s, c, req, now)
<1>1. ASSUME UNCHANGED <<invites, claims>>
      PROVE  Quiet
  BY <1>1 DEF Quiet, Approved, Consumed
<1>2. ASSUME NEW s \in Scopes, NEW now \in Nows, HostRequest(s, now)
      PROVE  Calm \/ Approval
  <2>1. ASSUME NEW raw \in RawInviteIds, NEW e \in 0..MaxTime + MaxLifetime,
               CreateInviteCheck(s, raw, now, e)
        PROVE  Calm
    BY <1>1, <2>1 DEF CreateInviteCheck
  <2>2. ASSUME NEW raw \in RawInviteIds, CancelInvite(s, raw, now)
        PROVE  Calm
    BY <2>2, CancelInviteIsQuiet DEF CancelInvite
  <2>3. ASSUME NEW c \in ClaimIds, RejectClaim(s, c, now)
        PROVE  Calm
    <3> DEFINE new == [ExpiredClaims(now)[c] EXCEPT !.status = "rejected"]
    <3>1. IsPending(claims[c]) /\ ExpiredClaims(now)[c] \in ClaimRow
      BY SMT, <2>3, ExpiryIsQuiet, ExpiredTables DEF RejectClaim, SweptRow, IsPending
    <3>2. new \in ClaimRow /\ new.status = "rejected"
      BY <3>1 DEF ClaimRow, Status
    <3>3. claims' = [ExpiredClaims(now) EXCEPT ![c] = new]
      BY <2>3 DEF RejectClaim
    <3>4. new # Null
      BY <3>2, PairingConstants
    <3>5. Quiet
      BY <2>3, <3>1, <3>2, <3>3, <3>4, SettleClaimIsQuiet DEF RejectClaim
    <3>6. QED
      BY <2>3, <3>5 DEF RejectClaim
  <2>4. ASSUME NEW c \in ClaimIds, NEW req \in ApprovalRequests,
               ReapproveClaim(s, c, req, now)
        PROVE  Calm
    BY <2>4, CommitExpiryIsQuiet DEF ReapproveClaim
  <2>5. ASSUME ListPendingClaims(now)
        PROVE  Calm
    BY <2>5, CommitExpiryIsQuiet DEF ListPendingClaims
  <2>6. QED
    BY <1>2, <2>1, <2>2, <2>3, <2>4, <2>5 DEF HostRequest
<1>3. ASSUME NEW c \in ClaimIds, NEW now \in Nows, DeviceRequest(c, now)
      PROVE  Calm
  <2>1. ASSUME NEW header \in Headers, SubmitClaim(c, header, now)
        PROVE  Calm
    <3> DEFINE new ==
          [status |-> "pending", scope |-> header.scope, invite |-> header.invite,
           device |-> header.device, agreement |-> header.agreement,
           keyVersion |-> header.keyVersion,
           expiresAt |-> invites[header.scope][header.invite].expiresAt,
           approval |-> Null]
    <3>1. claims' = [ExpiredClaims(now) EXCEPT ![c] = new]
      BY <2>1 DEF SubmitClaim
    <3>2. new # Null
      <4>1. header.invite \in InviteIds /\ header.scope \in Scopes
        BY DEF Headers
      <4>2. invites[header.scope][header.invite] # Null
        BY <2>1, <4>1, ExpiryIsQuiet DEF SubmitClaim, SweptRow, IsPending
      <4>3. invites[header.scope][header.invite].expiresAt \in Nat
        <5>1. invites[header.scope][header.invite] \in InviteRow \cup {Null}
          BY ZenonT(40), <4>1 DEF TypeOK
        <5>2. QED
          BY <4>2, <5>1 DEF InviteRow
      <4>4. /\ header.device \in DeviceIds /\ header.agreement \in Keys
            /\ header.keyVersion \in Nat
        <5>1. 0..MaxKeyVersion \subseteq Nat
          BY SMT, PairingConstants
        <5>2. QED
          BY <5>1 DEF Headers
      <4>5. new \in ClaimRow
        BY <4>1, <4>3, <4>4 DEF ClaimRow, Status
      <4>6. QED
        BY <4>5, PairingConstants
    <3>3. new.status # "approved"
      OBVIOUS
    <3>4. Quiet
      BY <2>1, <3>1, <3>2, <3>3, SettleClaimIsQuiet DEF SubmitClaim
    <3>5. QED
      BY <2>1, <3>4 DEF SubmitClaim
  <2>2. ASSUME GetClaimWithToken(c, now)
        PROVE  Calm
    BY <2>2, CommitExpiryIsQuiet DEF GetClaimWithToken
  <2>3. ASSUME CancelClaim(c, now)
        PROVE  Calm
    <3> DEFINE new == [ExpiredClaims(now)[c] EXCEPT !.status = "cancelled"]
    <3>1. IsPending(claims[c]) /\ ExpiredClaims(now)[c] \in ClaimRow
      BY ZenonT(40), <2>3, ExpiryIsQuiet, ExpiredTables DEF CancelClaim, SweptRow, IsPending
    <3>2. new \in ClaimRow /\ new.status = "cancelled"
      BY <3>1 DEF ClaimRow, Status
    <3>3. claims' = [ExpiredClaims(now) EXCEPT ![c] = new]
      BY <2>3 DEF CancelClaim
    <3>4. new # Null
      BY <3>2, PairingConstants
    <3>5. Quiet
      BY <2>3, <3>1, <3>2, <3>3, <3>4, SettleClaimIsQuiet DEF CancelClaim
    <3>6. QED
      BY <2>3, <3>5 DEF CancelClaim
  <2>4. QED
    BY <1>3, <2>1, <2>2, <2>3 DEF DeviceRequest
<1>4. ASSUME NEW r \in creating, CreateInviteInsert(r)
      PROVE  Calm
  <2>1. r.scope \in Scopes /\ r.id \in InviteIds
    BY DEF TypeOK, InviteRequest
  <2>2. ASSUME NEW s \in Scopes, NEW i \in InviteIds
        PROVE  Consumed(s, i)' <=> Consumed(s, i)
    BY <1>4, <2>1 DEF CreateInviteInsert, TypeOK, Consumed
  <2>3. QED
    BY <1>4, <2>2 DEF CreateInviteInsert, Quiet, Approved
<1>5. ASSUME NEW s \in Scopes, NEW d \in DeviceIds, RevokeDevice(s, d)
      PROVE  Quiet
  BY <1>1, <1>5 DEF RevokeDevice
<1>6. ASSUME NEW t \in Tenants, NEW value \in BOOLEAN, SetEnabled(t, value)
      PROVE  Calm
  BY <1>1, <1>6 DEF SetEnabled
<1>7. CASE Restart \/ Tick \/ UNCHANGED vars
  BY <1>1, <1>7 DEF Restart, Tick, vars
<1>8. QED
  BY <1>2, <1>3, <1>4, <1>5, <1>6, <1>7 DEF Next

\* What the approval of claim c with the values req does to the tables.
ApprovalEffect(s, c, req) ==
  /\ claims[c] \in ClaimRow /\ IsPending(claims[c]) /\ claims[c].scope = s
  /\ claims'[c] = [claims[c] EXCEPT !.status = "approved", !.approval = req]
  /\ \A x \in ClaimIds \ {c} :
       /\ Approved(x)' <=> Approved(x)
       /\ Approved(x) => claims'[x] = claims[x]
  /\ IsPending(invites[s][claims[c].invite])
  /\ \A t \in Scopes, i \in InviteIds :
       IF t = s /\ i = claims[c].invite THEN Consumed(t, i)'
       ELSE Consumed(t, i)' <=> Consumed(t, i)

\* What ApproveClaim does to claims, siblings and invites, in one place.
LEMMA ApprovalFacts ==
  ASSUME TypeOK, NEW s \in Scopes, NEW c \in ClaimIds,
         NEW req \in ApprovalRequests, NEW now \in Nows,
         ApproveClaim(s, c, req, now)
  PROVE  ApprovalEffect(s, c, req)
<1> DEFINE cl == ExpiredClaims(now)
           inv == ExpiredInvites(now)
<1>1. /\ inv \in [Scopes -> [InviteIds -> InviteRow \cup {Null}]]
      /\ cl \in [ClaimIds -> ClaimRow \cup {Null}]
  BY ExpiredTables
<1>2. /\ IsPending(claims[c]) /\ cl[c] = claims[c] /\ claims[c].scope = s
      /\ claims[c] \in ClaimRow
  <2>1. IsPending(cl[c]) /\ cl[c].scope = s
    BY DEF ApproveClaim
  <2>2. SweptRow(claims[c], cl[c])
    BY ExpiryIsQuiet
  <2>3. IsPending(claims[c]) /\ cl[c] = claims[c]
    BY <2>1, <2>2 DEF SweptRow
  <2>4. QED
    BY <1>1, <2>1, <2>3 DEF IsPending
<1>3. claims[c].invite \in InviteIds
  BY <1>2 DEF ClaimRow
<1>4. /\ IsPending(invites[s][claims[c].invite])
      /\ inv[s][claims[c].invite] = invites[s][claims[c].invite]
  <2>1. IsPending(inv[s][claims[c].invite])
    BY <1>2 DEF ApproveClaim
  <2>2. SweptRow(invites[s][claims[c].invite], inv[s][claims[c].invite])
    BY <1>3, ExpiryIsQuiet
  <2>3. QED
    BY <2>1, <2>2 DEF SweptRow
<1>5. claims'[c] = [claims[c] EXCEPT !.status = "approved", !.approval = req]
  BY <1>2 DEF ApproveClaim, ClaimsAfterApproval
<1>6. ASSUME NEW x \in ClaimIds \ {c}
      PROVE  /\ Approved(x)' <=> Approved(x)
             /\ Approved(x) => claims'[x] = claims[x]
  <2>1. CASE IsSibling(cl, c, x)
    <3>1. claims'[x] = [cl[x] EXCEPT !.status = "consumed"]
      BY <1>6, <2>1 DEF ApproveClaim, ClaimsAfterApproval
    <3>2. cl[x] \in ClaimRow /\ IsPending(claims[x])
      <4>1. IsPending(cl[x])
        BY <2>1 DEF IsSibling
      <4>2. SweptRow(claims[x], cl[x])
        BY <1>6, ExpiryIsQuiet
      <4>3. QED
        BY <1>1, <1>6, <4>1, <4>2 DEF IsPending, SweptRow
    <3>3. claims'[x].status = "consumed"
      BY <3>1, <3>2 DEF ClaimRow
    <3>4. QED
      BY <3>2, <3>3 DEF IsPending, Approved
  <2>2. CASE ~IsSibling(cl, c, x)
    <3>1. claims'[x] = cl[x]
      BY <1>6, <2>2 DEF ApproveClaim, ClaimsAfterApproval
    <3>2. SweptRow(claims[x], cl[x])
      BY <1>6, ExpiryIsQuiet
    <3>3. QED
      BY <3>1, <3>2 DEF SweptRow, IsPending, Approved
  <2>3. QED
    BY <2>1, <2>2
<1>7. ASSUME NEW t \in Scopes, NEW i \in InviteIds
      PROVE  IF t = s /\ i = claims[c].invite THEN Consumed(t, i)'
             ELSE Consumed(t, i)' <=> Consumed(t, i)
  <2>1. invites' = ConsumeInvite(inv, s, claims[c].invite)
    BY <1>2 DEF ApproveClaim
  <2>2. CASE t = s /\ i = claims[c].invite
    <3>1. inv[t][i] \in InviteRow
      BY SMT, <1>1, <1>4, <2>2 DEF IsPending
    <3>2. invites'[t][i] = [inv[t][i] EXCEPT !.status = "consumed"]
      BY <1>1, <2>1, <2>2 DEF ConsumeInvite
    <3>3. invites'[t][i] \in InviteRow /\ invites'[t][i].status = "consumed"
      BY <3>1, <3>2 DEF InviteRow, Status
    <3>4. QED
      BY <2>2, <3>3, PairingConstants DEF Consumed
  <2>3. CASE ~(t = s /\ i = claims[c].invite)
    <3>1. invites'[t][i] = inv[t][i]
      BY <1>1, <1>3, <2>1, <2>3 DEF ConsumeInvite
    <3>2. SweptRow(invites[t][i], inv[t][i])
      BY ExpiryIsQuiet
    <3>3. QED
      BY <2>3, <3>1, <3>2 DEF SweptRow, IsPending, Consumed
  <2>4. QED
    BY <2>2, <2>3
<1>8. QED
  BY <1>2, <1>4, <1>5, <1>6, <1>7 DEF ApprovalEffect

\* After it, c is approved with the stored values req.
LEMMA ApprovedAfterApproval ==
  ASSUME NEW s, NEW c, NEW req \in ApprovalRequests, ApprovalEffect(s, c, req)
  PROVE  /\ Approved(c)'
         /\ claims'[c].scope = claims[c].scope
         /\ claims'[c].invite = claims[c].invite
         /\ claims'[c].device = claims[c].device
         /\ claims'[c].approval = req
<1> USE DEF ApprovalEffect
<1>1. req \in ApprovalColumns
  BY ApprovalRequestType
<1>2. claims'[c] \in ClaimRow /\ claims'[c].status = "approved"
  BY <1>1 DEF ClaimRow, Status
<1>3. claims'[c] # Null
  BY <1>2, PairingConstants
<1>4. QED
  BY <1>2, <1>3 DEF Approved, ClaimRow

\* Every step keeps an invite to one winner.
LEMMA OneWinnerStep == TypeOK /\ OneWinner /\ [Next]_vars => OneWinner'
<1> SUFFICES ASSUME TypeOK, OneWinner, [Next]_vars,
                    NEW s \in Scopes, NEW i \in InviteIds
             PROVE  /\ \A a, b \in Winners(s, i)' : a = b
                    /\ Winners(s, i)' # {} <=> Consumed(s, i)'
  BY DEF OneWinner, Consumed
<1>1. /\ \A a, b \in Winners(s, i) : a = b
      /\ Winners(s, i) # {} <=> Consumed(s, i)
  BY DEF OneWinner, Consumed
<1>2. CASE Quiet
  <2>1. Winners(s, i)' = Winners(s, i)
    BY <1>2 DEF Quiet, Winners
  <2>2. QED
    BY <1>1, <1>2, <2>1 DEF Quiet
<1>3. ASSUME NEW t \in Scopes, NEW c \in ClaimIds, NEW req \in ApprovalRequests,
             NEW now \in Nows, ApproveClaim(t, c, req, now)
      PROVE  /\ \A a, b \in Winners(s, i)' : a = b
             /\ Winners(s, i)' # {} <=> Consumed(s, i)'
  <2>1. ApprovalEffect(t, c, req)
    BY <1>3, ApprovalFacts
  <2>2. ~Approved(c)
    BY <2>1 DEF ApprovalEffect, Approved, IsPending
  <2>3. /\ Approved(c)'
        /\ claims'[c].scope = t
        /\ claims'[c].invite = claims[c].invite
    <3>1. claims[c].scope = t
      BY <2>1 DEF ApprovalEffect
    <3>2. QED
      BY <2>1, <3>1, ApprovedAfterApproval
  <2>4. CASE s = t /\ i = claims[c].invite
    <3>1. Winners(s, i) = {} /\ Consumed(s, i)'
      BY <1>1, <2>1, <2>4 DEF ApprovalEffect, IsPending, Consumed
    <3>2. Winners(s, i)' = {c}
      BY <2>1, <2>3, <2>4, <3>1 DEF ApprovalEffect, Winners
    <3>3. QED
      BY <3>1, <3>2
  <2>5. CASE ~(s = t /\ i = claims[c].invite)
    <3>1. Winners(s, i)' = Winners(s, i)
      BY <2>1, <2>2, <2>3, <2>5 DEF ApprovalEffect, Winners
    <3>2. Consumed(s, i)' <=> Consumed(s, i)
      BY <2>1, <2>5 DEF ApprovalEffect
    <3>3. QED
      BY <1>1, <3>1, <3>2
  <2>6. QED
    BY <2>4, <2>5
<1>4. QED
  BY <1>2, <1>3, StepKinds

\* An invite admits one device: at most one claim of an invite is ever
\* approved, and the invite is consumed exactly when one is, for any number of
\* tenants, hosts, invites and claims, any waiting times, and padded ids.
THEOREM InviteHasOneWinner == Spec => []OneWinner
<1>1. Init => OneWinner
  BY SMT DEF Init, OneWinner, Winners, Approved
<1>2. QED
  BY <1>1, OneWinnerStep, PairingTypeCorrect, PTL DEF Spec

\* The non-null case of DeviceMatches, of a row, a set of claims and a table.
Fits(row, B, cl) ==
  /\ \E c \in B : cl[c].approval.binding = row.binding
  /\ \A c \in B :
       /\ cl[c].approval # Null
       /\ cl[c].approval.signing = row.signing
       /\ cl[c].approval.agreement = row.agreement
       /\ cl[c].approval.keyVersion = row.keyVersion
       /\ cl[c].approval.binding <= row.binding
  /\ \A a, b \in B : cl[a].approval.binding = cl[b].approval.binding => a = b

\* DeviceMatches in terms of Fits, before and after a step.
LEMMA MatchesIsFits ==
  ASSUME NEW s, NEW d
  PROVE  /\ DeviceMatches(s, d) <=>
              IF devices[s][d] = Null THEN Bindings(s, d) = {}
              ELSE Fits(devices[s][d], Bindings(s, d), claims)
         /\ DeviceMatches(s, d)' <=>
              IF devices'[s][d] = Null THEN Bindings(s, d)' = {}
              ELSE Fits(devices'[s][d], Bindings(s, d)', claims')
  BY DEF DeviceMatches, Fits

SameIdentity(new, row) ==
  /\ new.signing = row.signing
  /\ new.agreement = row.agreement
  /\ new.keyVersion = row.keyVersion
  /\ new.binding = row.binding

Agree(B, cl, after) == \A c \in B : after[c] = cl[c]

\* Fits depends only on the identity and binding of the row and on the rows
\* of the claims in B.
LEMMA FitsSame ==
  ASSUME NEW row, NEW new, NEW B, NEW cl, NEW after, Fits(row, B, cl),
         Agree(B, cl, after), SameIdentity(new, row)
  PROVE  Fits(new, B, after)
<1>1. \E c \in B : after[c].approval.binding = new.binding
  BY DEF Fits, Agree, SameIdentity
<1>2. ASSUME NEW c \in B
      PROVE  /\ after[c].approval # Null
             /\ after[c].approval.signing = new.signing
             /\ after[c].approval.agreement = new.agreement
             /\ after[c].approval.keyVersion = new.keyVersion
             /\ after[c].approval.binding <= new.binding
  BY DEF Fits, Agree, SameIdentity
<1>3. \A a, b \in B :
        after[a].approval.binding = after[b].approval.binding => a = b
  BY SMT DEF Fits, Agree
<1>4. QED
  BY <1>1, <1>2, <1>3 DEF Fits

\* Adding a claim that carries a larger binding version than all others, and
\* giving the row its values.
LEMMA FitsExtended ==
  ASSUME NEW new, NEW B, NEW c, NEW cl,
         cl[c].approval # Null,
         cl[c].approval.signing = new.signing,
         cl[c].approval.agreement = new.agreement,
         cl[c].approval.keyVersion = new.keyVersion,
         cl[c].approval.binding = new.binding,
         new.binding \in Nat,
         \A x \in B : /\ cl[x].approval # Null
                      /\ cl[x].approval.signing = new.signing
                      /\ cl[x].approval.agreement = new.agreement
                      /\ cl[x].approval.keyVersion = new.keyVersion
                      /\ cl[x].approval.binding \in Nat
                      /\ cl[x].approval.binding < new.binding,
         \A a, b \in B : cl[a].approval.binding = cl[b].approval.binding => a = b
  PROVE  Fits(new, B \cup {c}, cl)
<1>1. \A x \in B : cl[x].approval.binding # cl[c].approval.binding
  BY SMT
<1>2. \A a, b \in B \cup {c} :
        cl[a].approval.binding = cl[b].approval.binding => a = b
  BY <1>1
<1>3. \A x \in B \cup {c} : cl[x].approval.binding <= new.binding
  BY SMT
<1>4. QED
  BY <1>2, <1>3 DEF Fits

\* A quiet step that leaves the identity and the binding of a device row alone
\* keeps the row in line with its approvals.
LEMMA QuietDevice ==
  ASSUME Quiet, NEW s \in Scopes, NEW d \in DeviceIds, DeviceMatches(s, d),
         \/ devices'[s][d] = devices[s][d]
         \/ /\ devices[s][d] # Null
            /\ devices'[s][d] # Null
            /\ devices'[s][d].signing = devices[s][d].signing
            /\ devices'[s][d].agreement = devices[s][d].agreement
            /\ devices'[s][d].keyVersion = devices[s][d].keyVersion
            /\ devices'[s][d].binding = devices[s][d].binding
  PROVE  DeviceMatches(s, d)'
<1>1. Bindings(s, d)' = Bindings(s, d)
  BY DEF Quiet, Bindings
<1>2. Agree(Bindings(s, d), claims, claims')
  BY DEF Quiet, Bindings, Agree
<1>3. CASE devices[s][d] = Null
  BY <1>1, <1>3, MatchesIsFits
<1>4. CASE devices[s][d] # Null
  <2>1. Fits(devices[s][d], Bindings(s, d), claims)
    BY <1>4, MatchesIsFits
  <2>2. devices'[s][d] # Null /\ SameIdentity(devices'[s][d], devices[s][d])
    BY <1>4 DEF SameIdentity
  <2>3. Fits(devices'[s][d], Bindings(s, d), claims')
    BY <1>2, <2>1, <2>2, FitsSame
  <2>4. QED
    BY <1>1, <2>2, <2>3, MatchesIsFits
<1>5. QED
  BY <1>3, <1>4

\* RevokeDevice changes nothing of a device row but its flag.
LEMMA RevokedRow ==
  ASSUME NEW row \in DeviceRow
  PROVE  LET new == [row EXCEPT !.revoked = TRUE] IN
         /\ new \in DeviceRow
         /\ new.signing = row.signing /\ new.agreement = row.agreement
         /\ new.keyVersion = row.keyVersion /\ new.binding = row.binding
  BY DEF DeviceRow

\* The row the upsert stores carries the approved identity and binding.
LEMMA BoundDeviceValues ==
  ASSUME NEW row \in DeviceRow \cup {Null}, NEW req \in ApprovalColumns,
         BindingAccepted(row, req)
  PROVE  LET new == BoundDevice(row, req) IN
         /\ new # Null
         /\ new.signing = req.signing /\ new.agreement = req.agreement
         /\ new.keyVersion = req.keyVersion /\ new.binding = req.binding
<1>1. BoundDevice(row, req) # Null
  BY BoundDeviceType, PairingConstants
<1>2. CASE row = Null
  BY <1>1, <1>2 DEF BoundDevice
<1>3. CASE row # Null
  <2>1. row \in DeviceRow
    BY <1>3
  <2>2. QED
    BY <1>1, <1>3, <2>1 DEF BoundDevice, BindingAccepted, DeviceRow
<1>4. QED
  BY <1>2, <1>3

\* ApproveClaim keeps every device row in line with its approvals.
LEMMA ApprovedDevice ==
  ASSUME TypeOK, NEW s \in Scopes, NEW c \in ClaimIds,
         NEW req \in ApprovalRequests, NEW now \in Nows,
         ApproveClaim(s, c, req, now),
         NEW d \in DeviceIds, d = claims[c].device, DeviceMatches(s, d)
  PROVE  DeviceMatches(s, d)'
<1> DEFINE row == devices[s][d]
<1>1. ApprovalEffect(s, c, req)
  BY ApprovalFacts
<1>2. row \in DeviceRow \cup {Null}
  BY DEF TypeOK
<1>3. row # Null => row \in DeviceRow
  BY <1>2
<1>4. req \in ApprovalColumns
  BY ApprovalRequestType
<1>5. BindingAccepted(row, req) /\ devices'[s][d] = BoundDevice(row, req)
  <2>1. ExpiredClaims(now)[c] = claims[c]
    BY ExpiryIsQuiet DEF ApproveClaim, SweptRow
  <2>2. QED
    BY <2>1 DEF ApproveClaim, TypeOK
<1>6. /\ Approved(c)'
      /\ claims'[c].scope = s /\ claims'[c].device = d
      /\ claims'[c].approval = req
  <2>1. claims[c].scope = s
    BY <1>1 DEF ApprovalEffect
  <2>2. QED
    BY ZenonT(40), <1>1, <2>1, ApprovedAfterApproval
<1>7. c \notin Bindings(s, d)
  BY <1>1 DEF ApprovalEffect, IsPending, Bindings, Approved
<1>8. /\ Bindings(s, d)' = Bindings(s, d) \cup {c}
      /\ \A x \in Bindings(s, d) : claims'[x] = claims[x]
  <2>1. \A x \in ClaimIds \ {c} :
          /\ Approved(x)' <=> Approved(x)
          /\ Approved(x) => claims'[x] = claims[x]
    BY <1>1 DEF ApprovalEffect
  <2>2. QED
    BY <1>6, <1>7, <2>1 DEF Bindings
<1>9. LET new == devices'[s][d] IN
      /\ new # Null
      /\ new.signing = req.signing /\ new.agreement = req.agreement
      /\ new.keyVersion = req.keyVersion /\ new.binding = req.binding
  <2>1. LET new == BoundDevice(row, req) IN
        /\ new # Null
        /\ new.signing = req.signing /\ new.agreement = req.agreement
        /\ new.keyVersion = req.keyVersion /\ new.binding = req.binding
    <3> HIDE DEF row
    <3>1. QED
      BY <1>2, <1>4, <1>5, BoundDeviceValues
  <2>2. QED
    BY <1>5, <2>1
<1>10. req # Null /\ req.binding \in Nat
  BY <1>4, PairingConstants DEF ApprovalColumns
<1>11. ASSUME NEW x \in Bindings(s, d)
       PROVE  /\ claims'[x].approval # Null
              /\ claims'[x].approval.signing = req.signing
              /\ claims'[x].approval.agreement = req.agreement
              /\ claims'[x].approval.keyVersion = req.keyVersion
              /\ claims'[x].approval.binding \in Nat
              /\ claims'[x].approval.binding < req.binding
  <2>1. row # Null /\ Fits(row, Bindings(s, d), claims)
    BY <1>11, MatchesIsFits
  <2>2. /\ claims[x].approval # Null
        /\ claims[x].approval.signing = row.signing
        /\ claims[x].approval.agreement = row.agreement
        /\ claims[x].approval.keyVersion = row.keyVersion
        /\ claims[x].approval.binding <= row.binding
    BY <1>11, <2>1 DEF Fits
  <2>3. claims[x] \in ClaimRow
    BY <1>11 DEF Bindings, Approved, TypeOK
  <2>4. claims[x].approval.binding \in Nat
    BY <2>2, <2>3 DEF ClaimRow, ApprovalColumns
  <2>5. row.binding \in Nat
    BY <1>3, <2>1 DEF DeviceRow
  <2>6. /\ row.signing = req.signing /\ row.agreement = req.agreement
        /\ row.keyVersion = req.keyVersion /\ row.binding < req.binding
    BY <1>5, <2>1 DEF BindingAccepted
  <2>7. claims[x].approval.binding < req.binding
    <3>1. \A m, n, k \in Nat : m <= n /\ n < k => m < k
      BY SMT
    <3>2. claims[x].approval.binding <= row.binding /\ row.binding < req.binding
      BY <2>2, <2>6
    <3>3. QED
      BY <1>10, <2>4, <2>5, <3>1, <3>2
  <2>8. claims'[x] = claims[x]
    BY <1>8, <1>11
  <2>9. QED
    BY <2>2, <2>4, <2>6, <2>7, <2>8
<1>12. ASSUME NEW a \in Bindings(s, d), NEW b \in Bindings(s, d),
              claims'[a].approval.binding = claims'[b].approval.binding
       PROVE  a = b
  <2>1. Fits(row, Bindings(s, d), claims)
    BY <1>12, MatchesIsFits
  <2>2. claims'[a] = claims[a] /\ claims'[b] = claims[b]
    BY <1>8, <1>12
  <2>3. QED
    BY <1>12, <2>1, <2>2 DEF Fits
<1>13. Fits(devices'[s][d], Bindings(s, d) \cup {c}, claims')
  <2> DEFINE new == devices'[s][d]
             B == Bindings(s, d)
             cl == claims'
  <2>1. /\ cl[c].approval # Null
        /\ cl[c].approval.signing = new.signing
        /\ cl[c].approval.agreement = new.agreement
        /\ cl[c].approval.keyVersion = new.keyVersion
        /\ cl[c].approval.binding = new.binding
        /\ new.binding \in Nat
    BY <1>6, <1>9, <1>10
  <2>2. \A x \in B : /\ cl[x].approval # Null
                     /\ cl[x].approval.signing = new.signing
                     /\ cl[x].approval.agreement = new.agreement
                     /\ cl[x].approval.keyVersion = new.keyVersion
                     /\ cl[x].approval.binding \in Nat
                     /\ cl[x].approval.binding < new.binding
    BY <1>9, <1>11
  <2>3. \A a, b \in B : cl[a].approval.binding = cl[b].approval.binding => a = b
    BY <1>12
  <2> HIDE DEF new, B, cl
  <2>4. Fits(new, B \cup {c}, cl)
    BY <2>1, <2>2, <2>3, FitsExtended
  <2>5. QED
    BY <2>4 DEF new, B, cl
<1>14. QED
  BY <1>8, <1>9, <1>13, MatchesIsFits

\* Every step keeps the devices table in line with the approvals.
LEMMA DevicesStep ==
  TypeOK /\ DevicesMatchApprovals /\ [Next]_vars => DevicesMatchApprovals'
<1> SUFFICES ASSUME TypeOK, DevicesMatchApprovals, [Next]_vars,
                    NEW s \in Scopes, NEW d \in DeviceIds
             PROVE  DeviceMatches(s, d)'
  BY DEF DevicesMatchApprovals
<1>1. DeviceMatches(s, d)
  BY DEF DevicesMatchApprovals
<1>2. CASE Quiet /\ UNCHANGED devices
  BY <1>1, <1>2, QuietDevice
<1>3. ASSUME Quiet, NEW t \in Scopes, NEW e \in DeviceIds, RevokeDevice(t, e)
      PROVE  DeviceMatches(s, d)'
  <2>1. CASE s = t /\ d = e
    <3>1. /\ devices[s][d] \in DeviceRow
          /\ devices'[s][d] = [devices[s][d] EXCEPT !.revoked = TRUE]
      BY <1>3, <2>1 DEF RevokeDevice, TypeOK
    <3>2. devices[s][d] # Null /\ devices'[s][d] # Null
      BY <3>1, RevokedRow, PairingConstants
    <3>3. QED
      BY <1>1, <1>3, <3>1, <3>2, RevokedRow, QuietDevice
  <2>2. CASE ~(s = t /\ d = e)
    <3>1. devices'[s][d] = devices[s][d]
      BY <1>3, <2>2 DEF RevokeDevice, TypeOK
    <3>2. QED
      BY <1>1, <1>3, <3>1, QuietDevice
  <2>3. QED
    BY <2>1, <2>2
<1>4. ASSUME NEW t \in Scopes, NEW c \in ClaimIds, NEW req \in ApprovalRequests,
             NEW now \in Nows, ApproveClaim(t, c, req, now)
      PROVE  DeviceMatches(s, d)'
  <2>1. ApprovalEffect(t, c, req)
    BY <1>4, ApprovalFacts
  <2>2. CASE s = t /\ d = claims[c].device
    BY <1>1, <1>4, <2>2, ApprovedDevice
  <2>3. CASE ~(s = t /\ d = claims[c].device)
    <3>1. claims[c].scope = t
      BY <2>1 DEF ApprovalEffect
    <3>2. ~Approved(c) /\ claims[c].device \in DeviceIds
      BY <2>1 DEF ApprovalEffect, Approved, IsPending, ClaimRow
    <3>3. /\ Approved(c)'
          /\ claims'[c].scope = t /\ claims'[c].device = claims[c].device
      BY <2>1, <3>1, ApprovedAfterApproval
    <3>4. /\ Bindings(s, d)' = Bindings(s, d)
          /\ \A x \in Bindings(s, d) : claims'[x] = claims[x]
      <4>1. \A x \in ClaimIds \ {c} :
              /\ Approved(x)' <=> Approved(x)
              /\ Approved(x) => claims'[x] = claims[x]
        BY <2>1 DEF ApprovalEffect
      <4>2. QED
        BY <2>3, <3>2, <3>3, <4>1 DEF Bindings
    <3>5. ExpiredClaims(now)[c] = claims[c]
      BY <1>4, ExpiryIsQuiet DEF ApproveClaim, SweptRow
    <3>6. devices'[s][d] = devices[s][d]
      <4>1. devices' = [devices EXCEPT ![t][claims[c].device] = BoundDevice(@, req)]
        BY <1>4, <3>5 DEF ApproveClaim
      <4>2. devices \in [Scopes -> [DeviceIds -> DeviceRow \cup {Null}]]
        BY DEF TypeOK
      <4>3. QED
        BY <2>3, <3>2, <4>1, <4>2
    <3>7. CASE devices[s][d] = Null
      BY <1>1, <3>4, <3>6, <3>7, MatchesIsFits
    <3>8. CASE devices[s][d] # Null
      <4>1. Fits(devices[s][d], Bindings(s, d), claims)
        BY <1>1, <3>8, MatchesIsFits
      <4>2. /\ SameIdentity(devices'[s][d], devices[s][d])
            /\ Agree(Bindings(s, d), claims, claims')
        BY <3>4, <3>6 DEF SameIdentity, Agree
      <4>3. Fits(devices'[s][d], Bindings(s, d), claims')
        BY <4>1, <4>2, FitsSame
      <4>4. QED
        BY <3>4, <3>6, <3>8, <4>3, MatchesIsFits
    <3>9. QED
      BY <3>7, <3>8
  <2>4. QED
    BY <2>2, <2>3
<1>5. \/ Quiet /\ UNCHANGED devices
      \/ Quiet /\ \E t \in Scopes, e \in DeviceIds : RevokeDevice(t, e)
      \/ \E t \in Scopes, c \in ClaimIds, req \in ApprovalRequests, now \in Nows :
           ApproveClaim(t, c, req, now)
  BY StepKinds
<1>6. QED
  BY <1>2, <1>3, <1>4, <1>5, Zenon

\* The devices table always is what the approved claims add up to: no device
\* without an approval, one identity per device, binding versions that are
\* never reused, and the newest of them in force.
THEOREM DevicesAlwaysMatch == Spec => []DevicesMatchApprovals
<1>1. Init => DevicesMatchApprovals
  BY SMT DEF Init, DevicesMatchApprovals, DeviceMatches, Bindings, Approved
<1>2. QED
  BY <1>1, DevicesStep, PairingTypeCorrect, PTL DEF Spec

-----------------------------------------------------------------------------
(* What a step may do to the tables *)

\* RejectClaim and CancelClaim: a pending claim gets another status.
SettleClaim(c, status, now) ==
  /\ IsPending(ExpiredClaims(now)[c])
  /\ invites' = ExpiredInvites(now)
  /\ claims' = [ExpiredClaims(now) EXCEPT ![c].status = status]
  /\ UNCHANGED devices

\* The steps of the service, sorted by what they do to the three tables.
StepOnTables ==
  \/ UNCHANGED <<invites, claims, devices>>
  \/ \E s \in Scopes, d \in DeviceIds : RevokeDevice(s, d)
  \/ \E r \in creating : CreateInviteInsert(r)
  \/ \E now \in Nows : CommitExpiry(now) /\ UNCHANGED devices
  \/ \E c \in ClaimIds, status \in {"rejected", "cancelled"}, now \in Nows :
       SettleClaim(c, status, now)
  \/ \E s \in Scopes, raw \in RawInviteIds, now \in Nows :
       CancelInvite(s, raw, now)
  \/ \E c \in ClaimIds, header \in Headers, now \in Nows :
       SubmitClaim(c, header, now)
  \/ \E s \in Scopes, c \in ClaimIds, req \in ApprovalRequests, now \in Nows :
       ApproveClaim(s, c, req, now)

\* There are no others.
LEMMA StepsOnTables ==
  ASSUME [Next]_vars
  PROVE  StepOnTables
<1>1. ASSUME NEW s \in Scopes, NEW now \in Nows, HostRequest(s, now)
      PROVE  StepOnTables
  <2>1. ASSUME NEW raw \in RawInviteIds, NEW e \in 0..MaxTime + MaxLifetime,
               CreateInviteCheck(s, raw, now, e)
        PROVE  StepOnTables
    BY <2>1 DEF CreateInviteCheck, StepOnTables
  <2>2. ASSUME NEW raw \in RawInviteIds, CancelInvite(s, raw, now)
        PROVE  StepOnTables
    BY <2>2 DEF StepOnTables
  <2>3. ASSUME NEW c \in ClaimIds, RejectClaim(s, c, now)
        PROVE  StepOnTables
    <3>1. SettleClaim(c, "rejected", now)
      BY <2>3 DEF RejectClaim, SettleClaim
    <3>2. QED
      BY <3>1 DEF StepOnTables
  <2>4. ASSUME NEW c \in ClaimIds, NEW req \in ApprovalRequests,
               ApproveClaim(s, c, req, now)
        PROVE  StepOnTables
    BY <2>4 DEF StepOnTables
  <2>5. ASSUME NEW c \in ClaimIds, NEW req \in ApprovalRequests,
               ReapproveClaim(s, c, req, now)
        PROVE  StepOnTables
    BY <2>5 DEF ReapproveClaim, StepOnTables
  <2>6. ASSUME ListPendingClaims(now)
        PROVE  StepOnTables
    BY <2>6 DEF ListPendingClaims, StepOnTables
  <2>7. QED
    BY <1>1, <2>1, <2>2, <2>3, <2>4, <2>5, <2>6 DEF HostRequest
<1>2. ASSUME NEW c \in ClaimIds, NEW now \in Nows, DeviceRequest(c, now)
      PROVE  StepOnTables
  <2>1. ASSUME NEW header \in Headers, SubmitClaim(c, header, now)
        PROVE  StepOnTables
    BY <2>1 DEF StepOnTables
  <2>2. CASE GetClaimWithToken(c, now)
    BY <2>2 DEF GetClaimWithToken, StepOnTables
  <2>3. CASE CancelClaim(c, now)
    <3>1. SettleClaim(c, "cancelled", now)
      BY <2>3 DEF CancelClaim, SettleClaim
    <3>2. QED
      BY <3>1 DEF StepOnTables
  <2>4. QED
    BY <1>2, <2>1, <2>2, <2>3 DEF DeviceRequest
<1>3. ASSUME NEW t \in Tenants, NEW value \in BOOLEAN, SetEnabled(t, value)
      PROVE  StepOnTables
  BY <1>3 DEF SetEnabled, StepOnTables
<1>4. CASE Restart \/ Tick \/ UNCHANGED vars
  BY <1>4 DEF Restart, Tick, vars, StepOnTables
<1>5. CASE \E r \in creating : CreateInviteInsert(r)
  BY <1>5 DEF StepOnTables
<1>6. CASE \E s \in Scopes, d \in DeviceIds : RevokeDevice(s, d)
  BY <1>6 DEF StepOnTables
<1>7. QED
  BY <1>1, <1>2, <1>3, <1>4, <1>5, <1>6 DEF Next

\* What a row of each table keeps (SettledStaysSettled).
ClaimStays(old, new) ==
  old # Null =>
    /\ new # Null
    /\ IsPending(old) \/ new = old
    /\ new = [old EXCEPT !.status = new.status, !.approval = new.approval]

InviteStays(old, new) ==
  old # Null =>
    /\ new # Null
    /\ IsPending(old) \/ new = old
    /\ new = [old EXCEPT !.status = new.status]

\* A pending claim may get any status.
LEMMA WrittenClaim ==
  ASSUME NEW old \in ClaimRow, IsPending(old), NEW status \in Status
  PROVE  /\ ClaimStays(old, [old EXCEPT !.status = status])
         /\ [old EXCEPT !.status = status] \in ClaimRow
         /\ [old EXCEPT !.status = status].status = status
         /\ [old EXCEPT !.status = status].scope = old.scope
<1>1. /\ [old EXCEPT !.status = status] \in ClaimRow
      /\ [old EXCEPT !.status = status].status = status
      /\ [old EXCEPT !.status = status].approval = old.approval
      /\ [old EXCEPT !.status = status].scope = old.scope
  BY DEF ClaimRow
<1>2. [old EXCEPT !.status = status] =
        [old EXCEPT !.status = status, !.approval = old.approval]
  BY DEF ClaimRow
<1>3. QED
  BY <1>1, <1>2, PairingConstants DEF ClaimStays

\* A pending claim may be approved with any values.
LEMMA ApprovedClaimStays ==
  ASSUME NEW old \in ClaimRow, IsPending(old), NEW req \in ApprovalColumns, NEW new,
         new = [old EXCEPT !.status = "approved", !.approval = req]
  PROVE  ClaimStays(old, new)
<1>1. /\ new \in ClaimRow
      /\ new.status = "approved" /\ new.approval = req
  BY DEF ClaimRow, Status
<1>2. new # Null
  BY <1>1, PairingConstants
<1>3. QED
  BY <1>1, <1>2 DEF ClaimStays

\* A pending invite may get any status.
LEMMA WrittenInvite ==
  ASSUME NEW old \in InviteRow, IsPending(old), NEW status \in Status
  PROVE  /\ InviteStays(old, [old EXCEPT !.status = status])
         /\ [old EXCEPT !.status = status] \in InviteRow
         /\ [old EXCEPT !.status = status].status = status
         /\ [old EXCEPT !.status = status].expiresAt = old.expiresAt
<1>1. /\ [old EXCEPT !.status = status] \in InviteRow
      /\ [old EXCEPT !.status = status].status = status
      /\ [old EXCEPT !.status = status].expiresAt = old.expiresAt
  BY DEF InviteRow
<1>2. QED
  BY <1>1, PairingConstants DEF InviteStays

\* A row that no step writes.
LEMMA UnchangedStays ==
  ASSUME TypeOK
  PROVE  /\ \A c \in ClaimIds : ClaimStays(claims[c], claims[c])
         /\ \A s \in Scopes, i \in InviteIds :
              InviteStays(invites[s][i], invites[s][i])
<1>1. ASSUME NEW c \in ClaimIds
      PROVE  ClaimStays(claims[c], claims[c])
  BY DEF TypeOK, ClaimStays, ClaimRow
<1>2. ASSUME NEW s \in Scopes, NEW i \in InviteIds
      PROVE  InviteStays(invites[s][i], invites[s][i])
  <2>1. invites[s][i] \in InviteRow \cup {Null}
    BY DEF TypeOK
  <2>2. QED
    BY <2>1 DEF InviteStays, InviteRow
<1>3. QED
  BY <1>1, <1>2

\* A row that the sweep keeps or expires: it stays, and one that is still
\* pending is as it was, with its expiry ahead of the time of the sweep.
LEMMA SweptStays ==
  ASSUME TypeOK, NEW now
  PROVE  /\ \A c \in ClaimIds :
              LET new == ExpiredClaims(now)[c] IN
              /\ ClaimStays(claims[c], new)
              /\ new # claims[c] => new.status = "expired" /\ IsPending(claims[c])
              /\ IsPending(new) => new = claims[c] /\ ~(new.expiresAt <= now)
         /\ \A s \in Scopes, i \in InviteIds :
              LET new == ExpiredInvites(now)[s][i] IN
              /\ InviteStays(invites[s][i], new)
              /\ new # invites[s][i] =>
                   /\ new.status = "expired" /\ IsPending(invites[s][i])
                   /\ invites[s][i].expiresAt <= now
              /\ IsPending(new) => new = invites[s][i] /\ ~(new.expiresAt <= now)
<1>0. "expired" \in Status
  BY DEF Status
<1>1. ASSUME NEW c \in ClaimIds
      PROVE  LET new == ExpiredClaims(now)[c] IN
             /\ ClaimStays(claims[c], new)
             /\ new # claims[c] => new.status = "expired" /\ IsPending(claims[c])
             /\ IsPending(new) => new = claims[c] /\ ~(new.expiresAt <= now)
  <2>1. /\ claims[c] \in ClaimRow \cup {Null}
        /\ ExpiredClaims(now)[c] = Expire(claims[c], now)
    BY DEF TypeOK, ExpiredClaims
  <2>2. CASE IsPending(claims[c]) /\ claims[c].expiresAt <= now
    <3>1. /\ claims[c] \in ClaimRow
          /\ ExpiredClaims(now)[c] = [claims[c] EXCEPT !.status = "expired"]
      BY <2>1, <2>2 DEF Expire, IsPending
    <3>2. /\ ClaimStays(claims[c], ExpiredClaims(now)[c])
          /\ ExpiredClaims(now)[c].status = "expired"
      BY SMT, <1>0, <2>2, <3>1, WrittenClaim
    <3>3. QED
      BY <2>2, <3>2 DEF IsPending
  <2>3. CASE ~(IsPending(claims[c]) /\ claims[c].expiresAt <= now)
    <3>1. ExpiredClaims(now)[c] = claims[c]
      BY <2>1, <2>3 DEF Expire
    <3>2. QED
      BY <2>3, <3>1, UnchangedStays
  <2>4. QED
    BY <2>2, <2>3
<1>2. ASSUME NEW s \in Scopes, NEW i \in InviteIds
      PROVE  LET new == ExpiredInvites(now)[s][i] IN
             /\ InviteStays(invites[s][i], new)
             /\ new # invites[s][i] =>
                  /\ new.status = "expired" /\ IsPending(invites[s][i])
                  /\ invites[s][i].expiresAt <= now
             /\ IsPending(new) => new = invites[s][i] /\ ~(new.expiresAt <= now)
  <2>1. /\ invites[s][i] \in InviteRow \cup {Null}
        /\ ExpiredInvites(now)[s][i] = Expire(invites[s][i], now)
    BY DEF TypeOK, ExpiredInvites
  <2>2. CASE IsPending(invites[s][i]) /\ invites[s][i].expiresAt <= now
    <3>1. /\ invites[s][i] \in InviteRow
          /\ ExpiredInvites(now)[s][i] = [invites[s][i] EXCEPT !.status = "expired"]
      BY <2>1, <2>2 DEF Expire, IsPending
    <3>2. /\ InviteStays(invites[s][i], ExpiredInvites(now)[s][i])
          /\ ExpiredInvites(now)[s][i].status = "expired"
      BY SMT, <1>0, <2>2, <3>1, WrittenInvite
    <3>3. QED
      BY <2>2, <3>2 DEF IsPending
  <2>3. CASE ~(IsPending(invites[s][i]) /\ invites[s][i].expiresAt <= now)
    <3>1. ExpiredInvites(now)[s][i] = invites[s][i]
      BY <2>1, <2>3 DEF Expire
    <3>2. QED
      BY <2>3, <3>1, UnchangedStays
  <2>4. QED
    BY <2>2, <2>3
<1>3. QED
  BY <1>1, <1>2

\* The first half of it, by itself.
LEMMA SweepStays ==
  ASSUME TypeOK, NEW now
  PROVE  /\ \A c \in ClaimIds : ClaimStays(claims[c], ExpiredClaims(now)[c])
         /\ \A s \in Scopes, i \in InviteIds :
              InviteStays(invites[s][i], ExpiredInvites(now)[s][i])
  BY SweptStays

-----------------------------------------------------------------------------
(* The operations, row by row *)

\* RejectClaim and CancelClaim write one claim.
SettledRows(c, status, now) ==
  /\ claims[c] \in ClaimRow /\ IsPending(claims[c])
  /\ claims'[c] = [claims[c] EXCEPT !.status = status]
  /\ \A x \in ClaimIds \ {c} : claims'[x] = ExpiredClaims(now)[x]
  /\ \A s \in Scopes, i \in InviteIds :
       invites'[s][i] = ExpiredInvites(now)[s][i]

\* SettleClaim has this effect.
LEMMA SettleEffect ==
  ASSUME TypeOK, NEW c \in ClaimIds, NEW status, NEW now,
         SettleClaim(c, status, now)
  PROVE  SettledRows(c, status, now)
<1>1. ExpiredClaims(now) \in [ClaimIds -> ClaimRow \cup {Null}]
  BY ExpiredTables
<1>2. IsPending(ExpiredClaims(now)[c]) /\ ExpiredClaims(now)[c] = claims[c]
  BY SweptStays DEF SettleClaim
<1>3. claims[c] \in ClaimRow
  BY <1>1, <1>2 DEF IsPending
<1>4. claims' = [ExpiredClaims(now) EXCEPT ![c].status = status]
  BY DEF SettleClaim
<1>5. claims'[c] = [claims[c] EXCEPT !.status = status]
  BY <1>1, <1>2, <1>4
<1>6. \A x \in ClaimIds \ {c} : claims'[x] = ExpiredClaims(now)[x]
  BY <1>1, <1>4
<1>7. QED
  BY <1>2, <1>3, <1>5, <1>6 DEF SettleClaim, SettledRows

\* CancelInvite writes one invite and the claims that its raw id matches.
CancelledRows(s, raw, now) ==
  /\ raw.id \in InviteIds
  /\ invites[s][raw.id] \in InviteRow /\ IsPending(invites[s][raw.id])
  /\ invites'[s][raw.id] = [invites[s][raw.id] EXCEPT !.status = "cancelled"]
  /\ \A t \in Scopes, i \in InviteIds :
       t # s \/ i # raw.id => invites'[t][i] = ExpiredInvites(now)[t][i]
  /\ \A x \in ClaimIds :
       \/ /\ claims[x] \in ClaimRow /\ CancelledWith(claims[x], s, raw)
          /\ claims'[x] = [claims[x] EXCEPT !.status = "cancelled"]
       \/ /\ claims'[x] = ExpiredClaims(now)[x]
          /\ ~CancelledWith(ExpiredClaims(now)[x], s, raw)

\* CancelInvite has this effect.
LEMMA CancelEffect ==
  ASSUME TypeOK, NEW s \in Scopes, NEW raw \in RawInviteIds, NEW now,
         CancelInvite(s, raw, now)
  PROVE  CancelledRows(s, raw, now)
<1>1. /\ ExpiredInvites(now) \in [Scopes -> [InviteIds -> InviteRow \cup {Null}]]
      /\ ExpiredClaims(now) \in [ClaimIds -> ClaimRow \cup {Null}]
  BY ExpiredTables
<1>2. raw.id \in InviteIds
  BY DEF RawInviteIds
<1>3. /\ IsPending(ExpiredInvites(now)[s][raw.id])
      /\ invites' = [ExpiredInvites(now) EXCEPT ![s][raw.id].status = "cancelled"]
  BY DEF CancelInvite
<1>4. ExpiredInvites(now)[s][raw.id] = invites[s][raw.id]
  BY <1>2, <1>3, SweptStays
<1>5. invites[s][raw.id] \in InviteRow /\ IsPending(invites[s][raw.id])
  <2>1. ExpiredInvites(now)[s][raw.id] \in InviteRow \cup {Null}
    BY <1>1, <1>2
  <2>2. QED
    BY <1>3, <1>4, <2>1 DEF IsPending
<1>6. invites'[s][raw.id] = [invites[s][raw.id] EXCEPT !.status = "cancelled"]
  BY <1>1, <1>2, <1>3, <1>4
<1>7. \A t \in Scopes, i \in InviteIds :
        t # s \/ i # raw.id => invites'[t][i] = ExpiredInvites(now)[t][i]
  BY <1>1, <1>2, <1>3
<1>8. ASSUME NEW x \in ClaimIds
      PROVE  \/ /\ claims[x] \in ClaimRow /\ CancelledWith(claims[x], s, raw)
                /\ claims'[x] = [claims[x] EXCEPT !.status = "cancelled"]
             \/ /\ claims'[x] = ExpiredClaims(now)[x]
                /\ ~CancelledWith(ExpiredClaims(now)[x], s, raw)
  <2>1. CASE CancelledWith(ExpiredClaims(now)[x], s, raw)
    <3>1. claims'[x] = [ExpiredClaims(now)[x] EXCEPT !.status = "cancelled"]
      BY <2>1 DEF CancelInvite
    <3>2. ExpiredClaims(now)[x] = claims[x]
      BY ZenonT(40), <2>1, SweptStays DEF CancelledWith
    <3>3. ExpiredClaims(now)[x] \in ClaimRow
      BY <1>1, <2>1 DEF CancelledWith, IsPending
    <3>4. QED
      BY <2>1, <3>1, <3>2, <3>3
  <2>2. CASE ~CancelledWith(ExpiredClaims(now)[x], s, raw)
    BY <2>2 DEF CancelInvite
  <2>3. QED
    BY <2>1, <2>2
<1>9. QED
  BY <1>2, <1>5, <1>6, <1>7, <1>8 DEF CancelledRows

\* SubmitClaim inserts a pending claim under a pending invite.
SubmittedRows(c, header, now) ==
  /\ claims[c] = Null
  /\ header.scope \in Scopes /\ header.invite \in InviteIds
  /\ claims'[c].scope = header.scope /\ claims'[c].invite = header.invite
  /\ IsPending(ExpiredInvites(now)[header.scope][header.invite])
  /\ claims'[c].expiresAt = invites[header.scope][header.invite].expiresAt
  /\ \A x \in ClaimIds \ {c} : claims'[x] = ExpiredClaims(now)[x]
  /\ \A s \in Scopes, i \in InviteIds :
       invites'[s][i] = ExpiredInvites(now)[s][i]

\* SubmitClaim has this effect.
LEMMA SubmitEffect ==
  ASSUME TypeOK, NEW c \in ClaimIds, NEW header \in Headers, NEW now,
         SubmitClaim(c, header, now)
  PROVE  SubmittedRows(c, header, now)
<1> DEFINE new ==
      [status |-> "pending", scope |-> header.scope, invite |-> header.invite,
       device |-> header.device, agreement |-> header.agreement,
       keyVersion |-> header.keyVersion,
       expiresAt |-> invites[header.scope][header.invite].expiresAt,
       approval |-> Null]
<1>1. ExpiredClaims(now) \in [ClaimIds -> ClaimRow \cup {Null}]
  BY ExpiredTables
<1>2. claims' = [ExpiredClaims(now) EXCEPT ![c] = new]
  BY DEF SubmitClaim
<1>3. claims'[c] = new
  BY <1>1, <1>2
<1>4. /\ claims'[c].scope = header.scope /\ claims'[c].invite = header.invite
      /\ claims'[c].expiresAt = invites[header.scope][header.invite].expiresAt
  BY SMT, <1>3
<1>5. \A x \in ClaimIds \ {c} : claims'[x] = ExpiredClaims(now)[x]
  <2> HIDE DEF new
  <2>1. QED
    BY <1>1, <1>2
<1>6. header.scope \in Scopes /\ header.invite \in InviteIds
  BY DEF Headers
<1>7. QED
  BY <1>4, <1>5, <1>6 DEF SubmitClaim, SubmittedRows

\* ApproveClaim writes its claim, the pending siblings and the invite, all of
\* one host, before the claim and the invite expire.
ApprovedRows(s, c, req, now) ==
  /\ claims[c] \in ClaimRow /\ IsPending(claims[c]) /\ claims[c].scope = s
  /\ ~(claims[c].expiresAt <= now)
  /\ claims[c].invite \in InviteIds /\ claims[c].device \in DeviceIds
  /\ claims'[c] = [claims[c] EXCEPT !.status = "approved", !.approval = req]
  /\ \A x \in ClaimIds \ {c} :
       \/ /\ claims[x] \in ClaimRow /\ IsPending(claims[x])
          /\ claims[x].scope = s
          /\ claims'[x] = [claims[x] EXCEPT !.status = "consumed"]
       \/ /\ claims'[x] = ExpiredClaims(now)[x]
          /\ IsPending(claims'[x]) =>
               claims'[x].scope # s \/ claims'[x].invite # claims[c].invite
  /\ LET i == claims[c].invite IN
     /\ invites[s][i] \in InviteRow /\ IsPending(invites[s][i])
     /\ invites'[s][i] = [invites[s][i] EXCEPT !.status = "consumed"]
     /\ \A t \in Scopes, j \in InviteIds :
          t # s \/ j # i => invites'[t][j] = ExpiredInvites(now)[t][j]
  /\ BindingAccepted(devices[s][claims[c].device], req)
  /\ devices' = [devices EXCEPT ![s][claims[c].device] = BoundDevice(@, req)]

\* ApproveClaim has this effect.
LEMMA ApproveEffect ==
  ASSUME TypeOK, NEW s \in Scopes, NEW c \in ClaimIds, NEW req, NEW now,
         ApproveClaim(s, c, req, now)
  PROVE  ApprovedRows(s, c, req, now)
<1> DEFINE cl == ExpiredClaims(now)
           inv == ExpiredInvites(now)
           i == claims[c].invite
<1>1. /\ inv \in [Scopes -> [InviteIds -> InviteRow \cup {Null}]]
      /\ cl \in [ClaimIds -> ClaimRow \cup {Null}]
  BY ExpiredTables
<1>2. IsPending(cl[c]) /\ cl[c] = claims[c] /\ ~(claims[c].expiresAt <= now)
  BY SMT, SweptStays DEF ApproveClaim
<1>3. /\ claims[c] \in ClaimRow /\ claims[c].scope = s
      /\ i \in InviteIds /\ claims[c].device \in DeviceIds
  <2>1. claims[c] \in ClaimRow
    BY <1>1, <1>2 DEF IsPending
  <2>2. QED
    BY <1>2, <2>1 DEF ApproveClaim, ClaimRow
<1>4. /\ IsPending(inv[s][i])
      /\ claims' = ClaimsAfterApproval(cl, c, req)
      /\ invites' = ConsumeInvite(inv, s, i)
      /\ BindingAccepted(devices[s][claims[c].device], req)
      /\ devices' = [devices EXCEPT ![s][claims[c].device] = BoundDevice(@, req)]
  BY <1>2 DEF ApproveClaim
<1>5. inv[s][i] = invites[s][i]
  BY SMT, <1>3, <1>4, SweptStays
<1>6. invites[s][i] \in InviteRow /\ IsPending(invites[s][i])
  <2>1. inv[s][i] \in InviteRow \cup {Null}
    BY <1>1, <1>3
  <2>2. QED
    BY <1>4, <1>5, <2>1 DEF IsPending
<1>7. invites'[s][i] = [invites[s][i] EXCEPT !.status = "consumed"]
  BY <1>1, <1>3, <1>4, <1>5 DEF ConsumeInvite
<1>8. \A t \in Scopes, j \in InviteIds : t # s \/ j # i => invites'[t][j] = inv[t][j]
  BY <1>1, <1>3, <1>4 DEF ConsumeInvite
<1>9. claims'[c] = [claims[c] EXCEPT !.status = "approved", !.approval = req]
  BY <1>2, <1>4 DEF ClaimsAfterApproval
<1>10. ASSUME NEW x \in ClaimIds \ {c}
       PROVE  \/ /\ claims[x] \in ClaimRow /\ IsPending(claims[x])
                 /\ claims[x].scope = s
                 /\ claims'[x] = [claims[x] EXCEPT !.status = "consumed"]
              \/ /\ claims'[x] = cl[x]
                 /\ IsPending(claims'[x]) =>
                      claims'[x].scope # s \/ claims'[x].invite # i
  <2>1. CASE IsSibling(cl, c, x)
    <3>1. claims'[x] = [cl[x] EXCEPT !.status = "consumed"]
      BY <1>4, <1>10, <2>1 DEF ClaimsAfterApproval
    <3>2. IsPending(cl[x]) /\ cl[x].scope = s
      BY <1>2, <1>3, <2>1 DEF IsSibling
    <3>3. cl[x] = claims[x] /\ claims[x] \in ClaimRow
      <4>1. cl[x] = claims[x]
        BY ZenonT(40), <1>10, <3>2, SweptStays
      <4>2. QED
        BY <1>1, <1>10, <3>2, <4>1 DEF IsPending
    <3>4. QED
      BY <3>1, <3>2, <3>3
  <2>2. CASE ~IsSibling(cl, c, x)
    <3>1. claims'[x] = cl[x]
      BY <1>4, <1>10, <2>2 DEF ClaimsAfterApproval
    <3>2. QED
      BY <1>2, <1>3, <1>10, <2>2, <3>1 DEF IsSibling
  <2>3. QED
    BY <2>1, <2>2
<1>11. QED
  BY <1>2, <1>3, <1>4, <1>6, <1>7, <1>8, <1>9, <1>10 DEF ApprovedRows

\* The insert of CreateInvite writes a free id only.
CreatedRow(r) ==
  /\ r.scope \in Scopes /\ r.id \in InviteIds
  /\ \A s \in Scopes, i \in InviteIds :
       \/ invites'[s][i] = invites[s][i]
       \/ /\ s = r.scope /\ i = r.id /\ invites[s][i] = Null
          /\ invites'[s][i] = [status |-> "pending", expiresAt |-> r.expiresAt]
  /\ UNCHANGED <<claims, devices>>

\* CreateInviteInsert has this effect.
LEMMA CreateEffect ==
  ASSUME TypeOK, NEW r \in creating, CreateInviteInsert(r)
  PROVE  CreatedRow(r)
<1>1. r.scope \in Scopes /\ r.id \in InviteIds
  BY DEF TypeOK, InviteRequest
<1>2. invites \in [Scopes -> [InviteIds -> InviteRow \cup {Null}]]
  BY DEF TypeOK
<1>3. QED
  BY <1>1, <1>2 DEF CreateInviteInsert, CreatedRow

-----------------------------------------------------------------------------
(* Settled rows stay settled *)

\* Every step keeps every row, and changes pending rows only.
LEMMA RowsStay ==
  ASSUME TypeOK, [Next]_vars
  PROVE  /\ \A x \in ClaimIds : ClaimStays(claims[x], claims'[x])
         /\ \A s \in Scopes, i \in InviteIds :
              InviteStays(invites[s][i], invites'[s][i])
<1> DEFINE Goal ==
      /\ \A x \in ClaimIds : ClaimStays(claims[x], claims'[x])
      /\ \A s \in Scopes, i \in InviteIds :
           InviteStays(invites[s][i], invites'[s][i])
<1>0. {"rejected", "cancelled", "consumed"} \subseteq Status
  BY DEF Status
<1>1. CASE UNCHANGED <<invites, claims>>
  BY <1>1, UnchangedStays
<1>2. ASSUME NEW r \in creating, CreateInviteInsert(r)
      PROVE  Goal
  <2>1. CreatedRow(r)
    BY <1>2, CreateEffect
  <2>2. ASSUME NEW s \in Scopes, NEW i \in InviteIds
        PROVE  InviteStays(invites[s][i], invites'[s][i])
    <3>1. invites'[s][i] = invites[s][i] \/ invites[s][i] = Null
      BY <2>1 DEF CreatedRow
    <3>2. CASE invites'[s][i] = invites[s][i]
      BY <3>2, UnchangedStays
    <3>3. CASE invites[s][i] = Null
      BY <3>3 DEF InviteStays
    <3>4. QED
      BY <3>1, <3>2, <3>3
  <2>3. claims' = claims
    BY <2>1 DEF CreatedRow
  <2>4. QED
    BY <2>2, <2>3, UnchangedStays
<1>3. ASSUME NEW now, CommitExpiry(now)
      PROVE  Goal
  BY <1>3, SweepStays DEF CommitExpiry
<1>4. ASSUME NEW c \in ClaimIds, NEW status \in {"rejected", "cancelled"}, NEW now,
             SettleClaim(c, status, now)
      PROVE  Goal
  <2>1. SettledRows(c, status, now)
    BY <1>4, SettleEffect
  <2>2. /\ claims[c] \in ClaimRow /\ IsPending(claims[c])
        /\ claims'[c] = [claims[c] EXCEPT !.status = status]
        /\ \A x \in ClaimIds \ {c} : claims'[x] = ExpiredClaims(now)[x]
        /\ \A s \in Scopes, i \in InviteIds :
             invites'[s][i] = ExpiredInvites(now)[s][i]
    BY <2>1 DEF SettledRows
  <2>3. ClaimStays(claims[c], [claims[c] EXCEPT !.status = status])
    BY ZenonT(40), <1>0, <2>2, WrittenClaim
  <2>4. QED
    BY SMT, <2>2, <2>3, SweepStays
<1>5. ASSUME NEW s \in Scopes, NEW raw \in RawInviteIds, NEW now,
             CancelInvite(s, raw, now)
      PROVE  Goal
  <2>1. CancelledRows(s, raw, now)
    BY <1>5, CancelEffect
  <2>2. ASSUME NEW x \in ClaimIds
        PROVE  ClaimStays(claims[x], claims'[x])
    <3>1. CASE /\ claims[x] \in ClaimRow /\ IsPending(claims[x])
               /\ claims'[x] = [claims[x] EXCEPT !.status = "cancelled"]
      BY <1>0, <3>1, WrittenClaim
    <3>2. CASE claims'[x] = ExpiredClaims(now)[x]
      BY <3>2, SweepStays
    <3>3. QED
      BY <2>1, <3>1, <3>2 DEF CancelledRows, CancelledWith
  <2>3. ASSUME NEW t \in Scopes, NEW i \in InviteIds
        PROVE  InviteStays(invites[t][i], invites'[t][i])
    <3>1. CASE /\ invites[t][i] \in InviteRow /\ IsPending(invites[t][i])
               /\ invites'[t][i] = [invites[t][i] EXCEPT !.status = "cancelled"]
      BY <1>0, <3>1, WrittenInvite
    <3>2. CASE invites'[t][i] = ExpiredInvites(now)[t][i]
      BY <3>2, SweepStays
    <3>3. QED
      BY <2>1, <3>1, <3>2 DEF CancelledRows
  <2>4. QED
    BY <2>2, <2>3
<1>6. ASSUME NEW c \in ClaimIds, NEW header \in Headers, NEW now,
             SubmitClaim(c, header, now)
      PROVE  Goal
  <2>1. SubmittedRows(c, header, now)
    BY <1>6, SubmitEffect
  <2>2. /\ claims[c] = Null
        /\ \A x \in ClaimIds \ {c} : claims'[x] = ExpiredClaims(now)[x]
        /\ \A t \in Scopes, i \in InviteIds :
             invites'[t][i] = ExpiredInvites(now)[t][i]
    BY <2>1 DEF SubmittedRows
  <2>3. ClaimStays(claims[c], claims'[c])
    BY <2>2 DEF ClaimStays
  <2>4. QED
    BY ZenonT(40), <2>2, <2>3, SweepStays
<1>7. ASSUME NEW s \in Scopes, NEW c \in ClaimIds, NEW req \in ApprovalRequests,
             NEW now, ApproveClaim(s, c, req, now)
      PROVE  Goal
  <2>1. ApprovedRows(s, c, req, now)
    BY <1>7, ApproveEffect
  <2>2. ClaimStays(claims[c], claims'[c])
    <3>1. /\ claims[c] \in ClaimRow /\ IsPending(claims[c])
          /\ claims'[c] = [claims[c] EXCEPT !.status = "approved", !.approval = req]
      BY <2>1 DEF ApprovedRows
    <3>2. req \in ApprovalColumns
      BY ApprovalRequestType
    <3>3. QED
      BY <3>1, <3>2, ApprovedClaimStays
  <2>3. ASSUME NEW x \in ClaimIds \ {c}
        PROVE  ClaimStays(claims[x], claims'[x])
    <3>1. CASE /\ claims[x] \in ClaimRow /\ IsPending(claims[x])
               /\ claims'[x] = [claims[x] EXCEPT !.status = "consumed"]
      BY <1>0, <3>1, WrittenClaim
    <3>2. CASE claims'[x] = ExpiredClaims(now)[x]
      BY <3>2, SweepStays
    <3>3. QED
      BY <2>1, <3>1, <3>2 DEF ApprovedRows
  <2>4. ASSUME NEW t \in Scopes, NEW j \in InviteIds
        PROVE  InviteStays(invites[t][j], invites'[t][j])
    <3>1. CASE /\ invites[t][j] \in InviteRow /\ IsPending(invites[t][j])
               /\ invites'[t][j] = [invites[t][j] EXCEPT !.status = "consumed"]
      BY <1>0, <3>1, WrittenInvite
    <3>2. CASE invites'[t][j] = ExpiredInvites(now)[t][j]
      BY <3>2, SweepStays
    <3>3. QED
      BY SMT, <2>1, <3>1, <3>2 DEF ApprovedRows
  <2>5. QED
    BY <2>2, <2>3, <2>4
<1>8. QED
  BY <1>1, <1>2, <1>3, <1>4, <1>5, <1>6, <1>7, StepsOnTables
  DEF StepOnTables, RevokeDevice

\* What a client has been told stays true: no operation, expiry, restart or
\* race of them changes a claim or an invite that is no longer pending, or
\* whom a pending one is for and when it expires.
THEOREM SettledRowsStay == Spec => SettledStaysSettled
<1>1. TypeOK /\ [Next]_vars =>
        [/\ \A c \in ClaimIds : claims[c] # Null =>
              /\ claims'[c] # Null
              /\ IsPending(claims[c]) \/ claims'[c] = claims[c]
              /\ claims'[c] = [claims[c] EXCEPT !.status = claims'[c].status,
                                               !.approval = claims'[c].approval]
         /\ \A s \in Scopes, i \in InviteIds : invites[s][i] # Null =>
              /\ invites'[s][i] # Null
              /\ IsPending(invites[s][i]) \/ invites'[s][i] = invites[s][i]
              /\ invites'[s][i] =
                   [invites[s][i] EXCEPT !.status = invites'[s][i].status]]_vars
  BY RowsStay DEF ClaimStays, InviteStays
<1>2. QED
  BY <1>1, PairingTypeCorrect, PTL DEF Spec, SettledStaysSettled

=============================================================================
