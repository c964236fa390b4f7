-------------------------------- MODULE Auth ---------------------------------
(***************************************************************************)
(* Challenge-response authentication: a subject (a host or a device) asks  *)
(* for a challenge for one scope, signs it, exchanges it for a ticket, and *)
(* the ticket is consumed by the one request it was made for.              *)
(*                                                                         *)
(* No operation uses a transaction.  A step is one SQL statement with the  *)
(* code around it: CreateChallenge is a read and an insert, Prove is a     *)
(* read of the key, an update that consumes the challenge and an insert of *)
(* the ticket, ConsumeTicket is one update.  Prove reads the clock once,   *)
(* before all three.  Signatures are external: a challenge the relay did   *)
(* not sign is refused, so a request carries a challenge that was issued.  *)
(***************************************************************************)
EXTENDS Naturals, FiniteSets

CONSTANTS
  Tenants, Hosts, Devices, NoDevice,
  Asked,          \* the purposes that subjects ask tickets for
  SigningKeys,    \* keys that somebody can sign with
  KeyOf,          \* the key registered for a subject of a host, for good
  ChallengeIds, TicketIds,
  Requests,       \* concurrent requests of CreateChallenge and of Prove
  Lifetime,       \* maxLifetime
  MaxLag,         \* how long a statement may wait for the connection
  MaxTime,        \* bound on the clock
  Null

-----------------------------------------------------------------------------
(* Scopes *)

TargetPurposes ==
  {"pairing_claim_approve", "pairing_claim_reject", "device_revoke",
   "websocket_host"}

HostPurposes ==
  {"pairing_invite_create", "pairing_invite_cancel", "pairing_claim_list",
   "device_list"}

\* validPurpose
Purposes == TargetPurposes \cup HostPurposes \cup {"websocket_device"}

TicketScope ==
  [subjectType : {"host", "device"}, subject : Hosts \cup Devices,
   tenant : Tenants, host : Hosts, device : Devices \cup {NoDevice},
   purpose : Purposes]

\* The ids are well formed: validateScope refuses an empty or padded one.
validateScope(scope) ==
  \/ /\ scope.subjectType = "host"
     /\ scope.subject = scope.host
     /\ \/ scope.purpose \in TargetPurposes /\ scope.device # NoDevice
        \/ scope.purpose \in HostPurposes /\ scope.device = NoDevice
  \/ /\ scope.subjectType = "device"
     /\ scope.subject = scope.device
     /\ scope.device # NoDevice
     /\ scope.purpose = "websocket_device"

Scopes == {scope \in TicketScope :
             scope.purpose \in Asked /\ validateScope(scope)}

ChallengeRow ==
  [scope : Scopes, issuedAt : Nat, expiresAt : Nat, consumed : BOOLEAN]

\* "from" is history: the challenge that the ticket was exchanged for.
TicketRow ==
  [scope : Scopes, expiresAt : Nat, consumed : BOOLEAN, from : ChallengeIds]

Request ==
  [op : {"create"}, scope : Scopes]
    \cup [op : {"prove", "issue"}, challenge : ChallengeIds, now : Nat]

ASSUME AuthConstants ==
  /\ Null \notin ChallengeRow \cup TicketRow \cup Request
  /\ NoDevice \notin Devices
  /\ Asked \subseteq Purposes
  /\ KeyOf \in [Tenants \X Hosts \X (Hosts \cup Devices) -> SigningKeys]
  /\ Lifetime \in Nat /\ MaxLag \in Nat /\ MaxTime \in Nat

VARIABLES
  challenges,   \* auth_challenges: id -> row or Null
  tickets,      \* auth_tickets: id -> row or Null
  requests,     \* what a request that runs is about to do
  enabled,      \* tenants.enabled
  enrolled,     \* the rows of hosts: pairs <<tenant, host>>
  bound,        \* the devices that are not revoked: <<tenant, host, device>>
  clock,
  grants        \* history: how often a ticket of a challenge was consumed
                \* by a request that needed a scope

vars == <<challenges, tickets, requests, enabled, enrolled, bound, clock, grants>>

TypeOK ==
  /\ challenges \in [ChallengeIds -> ChallengeRow \cup {Null}]
  /\ tickets \in [TicketIds -> TicketRow \cup {Null}]
  /\ requests \in [Requests -> Request \cup {Null}]
  /\ enabled \subseteq Tenants
  /\ enrolled \subseteq Tenants \X Hosts
  /\ bound \subseteq Tenants \X Hosts \X Devices
  /\ clock \in Nat
  /\ grants \in [ChallengeIds \X Scopes -> Nat]

Init ==
  /\ challenges = [c \in ChallengeIds |-> Null]
  /\ tickets = [t \in TicketIds |-> Null]
  /\ requests = [r \in Requests |-> Null]
  /\ enabled = Tenants
  /\ enrolled = {}
  /\ bound = {}
  /\ clock = 0
  /\ grants = [g \in ChallengeIds \X Scopes |-> 0]

subjects == <<enabled, enrolled, bound>>

Nows == {n \in 0..clock : clock <= n + MaxLag}

\* The tenant is enabled, the host enrolled (nothing disables or revokes
\* one), and a device subject not revoked.
SubjectActive(scope) ==
  /\ scope.tenant \in enabled
  /\ <<scope.tenant, scope.host>> \in enrolled
  /\ scope.subjectType = "device" =>
       <<scope.tenant, scope.host, scope.subject>> \in bound

-----------------------------------------------------------------------------
(* Challenges *)

\* CreateChallenge up to subjectSigningKey.
CreateChallengeCheck(r, scope) ==
  /\ requests[r] = Null
  /\ SubjectActive(scope)
  /\ requests' = [requests EXCEPT ![r] = [op |-> "create", scope |-> scope]]
  /\ UNCHANGED <<challenges, tickets, subjects, clock, grants>>

\* The insert of CreateChallenge, with a fresh random id.
CreateChallengeInsert(r, c, now) ==
  /\ requests[r] # Null
  /\ requests[r].op = "create"
  /\ challenges[c] = Null
  /\ challenges' = [challenges EXCEPT ![c] =
       [scope |-> requests[r].scope, issuedAt |-> now,
        expiresAt |-> now + Lifetime, consumed |-> FALSE]]
  /\ requests' = [requests EXCEPT ![r] = Null]
  /\ UNCHANGED <<tickets, subjects, clock, grants>>

\* Prove up to the verification of the subject's signature, made with key.
ProveVerify(r, c, key, now) ==
  /\ requests[r] = Null
  /\ challenges[c] # Null
  /\ challenges[c].issuedAt <= now
  /\ now < challenges[c].expiresAt
  /\ SubjectActive(challenges[c].scope)
  /\ LET scope == challenges[c].scope IN
       key = KeyOf[<<scope.tenant, scope.host, scope.subject>>]
  /\ requests' = [requests EXCEPT ![r] =
       [op |-> "prove", challenge |-> c, now |-> now]]
  /\ UNCHANGED <<challenges, tickets, subjects, clock, grants>>

\* The where clause of consumeChallenge.
Consumable(c, now) ==
  /\ ~challenges[c].consumed
  /\ now < challenges[c].expiresAt
  /\ SubjectActive(challenges[c].scope)

\* consumeChallenge: the request goes on only if the update found its row.
consumeChallenge(r) ==
  /\ requests[r] # Null
  /\ requests[r].op = "prove"
  /\ LET c == requests[r].challenge IN
       IF Consumable(c, requests[r].now)
       THEN /\ challenges' = [challenges EXCEPT ![c].consumed = TRUE]
            /\ requests' = [requests EXCEPT ![r].op = "issue"]
       ELSE /\ requests' = [requests EXCEPT ![r] = Null]
            /\ UNCHANGED challenges
  /\ UNCHANGED <<tickets, subjects, clock, grants>>

-----------------------------------------------------------------------------
(* Tickets *)

MutExpiryAtInsert(now) == clock + Lifetime

\* The expiry of a ticket counts from the time that Prove started with.
TicketExpiry(now) == now + Lifetime

\* The insert of Prove, with a fresh random ticket.
ProveInsert(r, t) ==
  /\ requests[r] # Null
  /\ requests[r].op = "issue"
  /\ tickets[t] = Null
  /\ tickets' = [tickets EXCEPT ![t] =
       [scope |-> challenges[requests[r].challenge].scope,
        expiresAt |-> TicketExpiry(requests[r].now),
        consumed |-> FALSE, from |-> requests[r].challenge]]
  /\ requests' = [requests EXCEPT ![r] = Null]
  /\ UNCHANGED <<challenges, subjects, clock, grants>>

\* The insert, of a challenge or of a ticket, fails: the request ends, and
\* a challenge that it has consumed stays consumed.
InsertFails(r) ==
  /\ requests[r] # Null
  /\ requests[r].op \in {"create", "issue"}
  /\ requests' = [requests EXCEPT ![r] = Null]
  /\ UNCHANGED <<challenges, tickets, subjects, clock, grants>>

MutAnyScope(t, expected, now) ==
  /\ ~tickets[t].consumed
  /\ now < tickets[t].expiresAt
  /\ SubjectActive(tickets[t].scope)

MutIgnoreSubject(t, expected, now) ==
  /\ tickets[t].scope = expected
  /\ ~tickets[t].consumed
  /\ now < tickets[t].expiresAt

\* The where clause of ConsumeTicket.
Redeemable(t, expected, now) ==
  /\ tickets[t].scope = expected
  /\ ~tickets[t].consumed
  /\ now < tickets[t].expiresAt
  /\ SubjectActive(tickets[t].scope)

\* ConsumeTicket, for a request that needs the scope "expected".
ConsumeTicket(t, expected, now) ==
  /\ tickets[t] # Null
  /\ Redeemable(t, expected, now)
  /\ tickets' = [tickets EXCEPT ![t].consumed = TRUE]
  /\ grants' = [grants EXCEPT ![<<tickets[t].from, expected>>] = @ + 1]
  /\ UNCHANGED <<challenges, requests, subjects, clock>>

-----------------------------------------------------------------------------
(* What the other parts of the relay do to the subjects, and crashes *)

\* EnrollHost inserts a row; the tenant was enabled when it looked.
EnrollHost(t, h) ==
  /\ enrolled' = enrolled \cup {<<t, h>>}
  /\ UNCHANGED <<challenges, tickets, requests, enabled, bound, clock, grants>>

\* ApproveClaim and RevokeDevice, for a device of an enrolled host.
ApproveDevice(t, h, d) ==
  /\ <<t, h>> \in enrolled
  /\ bound' = bound \cup {<<t, h, d>>}
  /\ UNCHANGED <<challenges, tickets, requests, enabled, enrolled, clock, grants>>

RevokeDevice(t, h, d) ==
  /\ bound' = bound \ {<<t, h, d>>}
  /\ UNCHANGED <<challenges, tickets, requests, enabled, enrolled, clock, grants>>

SetEnabled(t, value) ==
  /\ enabled' = IF value THEN enabled \cup {t} ELSE enabled \ {t}
  /\ UNCHANGED <<challenges, tickets, requests, enrolled, bound, clock, grants>>

\* A crash ends the running requests; the tables survive it.
Restart ==
  /\ requests' = [r \in Requests |-> Null]
  /\ UNCHANGED <<challenges, tickets, subjects, clock, grants>>

Tick ==
  /\ clock < MaxTime
  /\ clock' = clock + 1
  /\ UNCHANGED <<challenges, tickets, requests, subjects, grants>>

AuthRequest(r) ==
  \/ \E scope \in Scopes : CreateChallengeCheck(r, scope)
  \/ \E c \in ChallengeIds, now \in Nows : CreateChallengeInsert(r, c, now)
  \/ \E c \in ChallengeIds, key \in SigningKeys, now \in Nows :
       ProveVerify(r, c, key, now)
  \/ consumeChallenge(r)
  \/ \E t \in TicketIds : ProveInsert(r, t)
  \/ InsertFails(r)

SubjectChange ==
  \/ \E t \in Tenants, h \in Hosts :
       \/ EnrollHost(t, h)
       \/ \E d \in Devices : ApproveDevice(t, h, d) \/ RevokeDevice(t, h, d)
  \/ \E t \in Tenants, value \in BOOLEAN : SetEnabled(t, value)

Next ==
  \/ \E r \in Requests : AuthRequest(r)
  \/ \E t \in TicketIds, expected \in Scopes, now \in Nows :
       ConsumeTicket(t, expected, now)
  \/ SubjectChange
  \/ Restart
  \/ Tick

Spec == Init /\ [][Next]_vars

-----------------------------------------------------------------------------
(* Properties *)

\* However many requests of Prove race for one challenge, and wherever they
\* crash, a ticket has a consumed challenge of the very same scope behind it,
\* and no other ticket has the same one.
TicketsAreEarned ==
  \A t \in TicketIds : tickets[t] # Null =>
    LET c == tickets[t].from IN
      /\ challenges[c] # Null
      /\ challenges[c].consumed
      /\ challenges[c].scope = tickets[t].scope
      /\ \A u \in TicketIds \ {t} :
           tickets[u] # Null => tickets[u].from # c

\* A signed challenge authorises at most one request in all, and that
\* request needed exactly the scope that the challenge was signed for.
GrantsAreEarned ==
  \A c \in ChallengeIds, scope \in Scopes : grants[<<c, scope>>] > 0 =>
    /\ grants[<<c, scope>>] = 1
    /\ challenges[c] # Null
    /\ challenges[c].consumed
    /\ challenges[c].scope = scope

\* A request is authorised less than two lifetimes (and the wait for the
\* connection) after its challenge was issued, however long the exchange for
\* a ticket took: Prove counts the ticket's lifetime from its first step.
GrantedInTime ==
  [][\A c \in ChallengeIds, scope \in Scopes :
       grants'[<<c, scope>>] # grants[<<c, scope>>] =>
         clock < challenges[c].issuedAt + 2 * Lifetime + MaxLag]_vars

-----------------------------------------------------------------------------
(* The abstract specification *)

Abstract == INSTANCE Tickets WITH
  Ids <- TicketIds, TicketScopes <- Scopes, NotIssued <- Null,
  issued <- [t \in TicketIds |->
               IF tickets[t] = Null THEN Null ELSE tickets[t].scope],
  uses <- [t \in TicketIds |->
             IF tickets[t] = Null THEN 0
             ELSE grants[<<tickets[t].from, tickets[t].scope>>]],
  active <- {scope \in Scopes : SubjectActive(scope)}

\* Authentication implements Tickets: whatever races there are for challenges
\* and tickets, a ticket authorises one request, of its own scope, and only
\* while its subject is active, even if the tenant was disabled, or the host
\* enrolled, by a request that looked at the tenant earlier.
ImplementsTickets == Abstract!TicketsSpec

=============================================================================
