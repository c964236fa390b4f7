----------------------------- MODULE AuthProofs ------------------------------
(***************************************************************************)
(* Theorems about Auth, for every number of subjects, challenges, tickets  *)
(* and requests: a ticket is earned by a challenge of its own, a challenge *)
(* authorises at most one request, in time, and authentication implements  *)
(* Tickets.                                                                *)
(***************************************************************************)
EXTENDS Auth, TLAPS

\* The leaves go to Zenon; the ones that need more name their prover.
USE Zenon

-----------------------------------------------------------------------------
(* Types *)

\* The rows and requests are not Null.
LEMMA RowsAreNotNull ==
  /\ \A row \in ChallengeRow \cup TicketRow \cup Request : row # Null
  BY AuthConstants

\* A time that a request has read is a natural number.
LEMMA NowsType == TypeOK => \A now \in Nows : now \in Nat /\ now <= clock
                                             /\ clock <= now + MaxLag
  BY SMT, AuthConstants DEF TypeOK, Nows

\* The record of a request, by its stage.
LEMMA RequestForm ==
  ASSUME NEW q \in Request
  PROVE  /\ q.op = "create" => q.scope \in Scopes
         /\ q.op \in {"prove", "issue"} =>
              q.challenge \in ChallengeIds /\ q.now \in Nat
         /\ q.op \in {"create", "prove", "issue"}
  BY DEF Request

\* The rows that the two inserts make.
LEMMA NewRows ==
  ASSUME NEW scope \in Scopes, NEW now \in Nat, NEW c \in ChallengeIds
  PROVE  /\ [scope |-> scope, issuedAt |-> now, expiresAt |-> now + Lifetime,
             consumed |-> FALSE] \in ChallengeRow
         /\ [scope |-> scope, expiresAt |-> TicketExpiry(now),
             consumed |-> FALSE, from |-> c] \in TicketRow
  BY SMT, AuthConstants DEF ChallengeRow, TicketRow, TicketExpiry

\* An update that consumes a row changes nothing else of it.
LEMMA ConsumedRows ==
  ASSUME NEW row
  PROVE  /\ row \in ChallengeRow =>
              LET new == [row EXCEPT !.consumed = TRUE] IN
                /\ new \in ChallengeRow
                /\ new.scope = row.scope
                /\ new.issuedAt = row.issuedAt
                /\ new.expiresAt = row.expiresAt
                /\ new.consumed = TRUE
         /\ row \in TicketRow =>
              LET new == [row EXCEPT !.consumed = TRUE] IN
                /\ new \in TicketRow
                /\ new.scope = row.scope
                /\ new.expiresAt = row.expiresAt
                /\ new.from = row.from
                /\ new.consumed = TRUE
  BY DEF ChallengeRow, TicketRow

\* What a running request has seen of its challenge.  Between ProveVerify and
\* the insert the challenge stays, and once it is consumed no other request
\* gets past consumeChallenge with it.
RequestOK(q) ==
  q.op \in {"prove", "issue"} =>
    LET row == challenges[q.challenge] IN
      /\ row # Null
      /\ q.now < row.expiresAt
      /\ q.op = "issue" => row.consumed

RequestsOK == \A r \in Requests : requests[r] # Null => RequestOK(requests[r])

\* The lifetime of a challenge counts from its insert.
LifetimesOK ==
  \A c \in ChallengeIds : challenges[c] # Null =>
    challenges[c].expiresAt = challenges[c].issuedAt + Lifetime

\* A request that is to insert a ticket.
Issues(r, c) ==
  requests[r] # Null /\ requests[r].op = "issue" /\ requests[r].challenge = c

\* It is the only one with its challenge, and no ticket has it yet.
IssuersOK ==
  \A r \in Requests, c \in ChallengeIds : Issues(r, c) =>
    /\ \A x \in Requests : Issues(x, c) => x = r
    /\ \A t \in TicketIds : tickets[t] # Null => tickets[t].from # c

\* A ticket, its challenge and the other tickets.
TicketOK(t) ==
  LET c == tickets[t].from IN
    /\ challenges[c] # Null
    /\ challenges[c].consumed
    /\ challenges[c].scope = tickets[t].scope
    /\ tickets[t].expiresAt < challenges[c].issuedAt + 2 * Lifetime
    /\ \A u \in TicketIds : tickets[u] # Null /\ tickets[u].from = c => u = t

TicketsOK == \A t \in TicketIds : tickets[t] # Null => TicketOK(t)

\* The history counts the ticket of a challenge, and nothing else.
GrantsOK ==
  /\ \A t \in TicketIds : tickets[t] # Null =>
       grants[<<tickets[t].from, tickets[t].scope>>] =
         IF tickets[t].consumed THEN 1 ELSE 0
  /\ \A c \in ChallengeIds, scope \in Scopes : grants[<<c, scope>>] # 0 =>
       \E t \in TicketIds :
         tickets[t] # Null /\ tickets[t].from = c /\ tickets[t].scope = scope

\* The inductive invariant.
AuthInv ==
  TypeOK /\ RequestsOK /\ LifetimesOK /\ IssuersOK /\ TicketsOK /\ GrantsOK

-----------------------------------------------------------------------------
(* The effect of the actions *)

\* consumeChallenge, when its update finds the row.
Consumes(r, c) ==
  /\ c \in ChallengeIds
  /\ requests[r] \in Request /\ requests[r] # Null
  /\ requests[r].op = "prove" /\ requests[r].challenge = c
  /\ challenges[c] \in ChallengeRow /\ ~challenges[c].consumed
  /\ challenges' = [challenges EXCEPT ![c].consumed = TRUE]
  /\ requests' = [requests EXCEPT ![r] = [@ EXCEPT !.op = "issue"]]
  /\ UNCHANGED <<tickets, subjects, clock, grants>>

\* The request ends; nothing else changes.
Gone(r) ==
  /\ requests[r] # Null
  /\ requests' = [requests EXCEPT ![r] = Null]
  /\ UNCHANGED <<challenges, tickets, subjects, clock, grants>>

LEMMA ConsumeEffect ==
  ASSUME TypeOK, RequestsOK, NEW r \in Requests, consumeChallenge(r)
  PROVE  Gone(r) \/ \E c \in ChallengeIds : Consumes(r, c)
<1>1. PICK q \in Request : q = requests[r] /\ q # Null /\ q.op = "prove"
  BY DEF consumeChallenge, TypeOK
<1>2. PICK c \in ChallengeIds : c = q.challenge
  BY <1>1, RequestForm
<1>3. challenges[c] # Null
  BY <1>1, <1>2 DEF RequestsOK, RequestOK
<1>4. challenges[c] \in ChallengeRow
  BY <1>3 DEF TypeOK
<1>5. CASE Consumable(c, q.now)
  <2>1. ~challenges[c].consumed
    BY <1>5 DEF Consumable
  <2>2. /\ challenges' = [challenges EXCEPT ![c].consumed = TRUE]
        /\ requests' = [requests EXCEPT ![r] = [@ EXCEPT !.op = "issue"]]
        /\ UNCHANGED <<tickets, subjects, clock, grants>>
    BY <1>1, <1>2, <1>5 DEF consumeChallenge
  <2>3. Consumes(r, c)
    BY <1>1, <1>2, <1>4, <2>1, <2>2 DEF Consumes
  <2>4. QED
    BY <2>3
<1>6. CASE ~Consumable(c, q.now)
  BY <1>1, <1>2, <1>6 DEF consumeChallenge, Gone
<1>7. QED
  BY <1>5, <1>6

\* The steps that change only what is known of the subjects, or the clock.
Elsewhere ==
  /\ UNCHANGED <<challenges, tickets, requests, grants>>
  /\ enabled' \subseteq Tenants
  /\ enrolled' \subseteq Tenants \X Hosts
  /\ bound' \subseteq Tenants \X Hosts \X Devices
  /\ clock' \in Nat

LEMMA ElsewhereEffect ==
  ASSUME TypeOK, SubjectChange \/ Tick \/ UNCHANGED vars
  PROVE  Elsewhere
<1>1. ASSUME NEW t \in Tenants, NEW h \in Hosts, EnrollHost(t, h)
      PROVE  Elsewhere
  BY SMT, <1>1 DEF EnrollHost, Elsewhere, TypeOK
<1>2. ASSUME NEW t \in Tenants, NEW h \in Hosts, NEW d \in Devices,
             ApproveDevice(t, h, d) \/ RevokeDevice(t, h, d)
      PROVE  Elsewhere
  BY SMT, <1>2 DEF ApproveDevice, RevokeDevice, Elsewhere, TypeOK
<1>3. ASSUME NEW t \in Tenants, NEW value \in BOOLEAN, SetEnabled(t, value)
      PROVE  Elsewhere
  BY <1>3 DEF SetEnabled, Elsewhere, TypeOK
<1>4. ASSUME Tick
      PROVE  Elsewhere
  BY SMT, <1>4 DEF Tick, subjects, Elsewhere, TypeOK
<1>5. ASSUME UNCHANGED vars
      PROVE  Elsewhere
  BY <1>5 DEF vars, Elsewhere, TypeOK
<1>6. QED
  BY <1>1, <1>2, <1>3, <1>4, <1>5 DEF SubjectChange

-----------------------------------------------------------------------------
(* The invariant *)

LEMMA ElsewhereInv ==
  ASSUME AuthInv, Elsewhere
  PROVE  AuthInv'
<1>1. TypeOK'
  BY DEF AuthInv, Elsewhere, TypeOK
<1>2. RequestsOK' /\ LifetimesOK'
  BY DEF AuthInv, Elsewhere, RequestsOK, RequestOK, LifetimesOK
<1>3. IssuersOK'
  BY DEF AuthInv, Elsewhere, IssuersOK, Issues
<1>4. TicketsOK' /\ GrantsOK'
  BY SMT DEF AuthInv, Elsewhere, TicketsOK, TicketOK, GrantsOK
<1>5. QED
  BY <1>1, <1>2, <1>3, <1>4 DEF AuthInv

\* Requests start, end or are refused.
LEMMA RequestsInv ==
  ASSUME AuthInv, UNCHANGED <<challenges, tickets, subjects, clock, grants>>,
         requests' \in [Requests -> Request \cup {Null}],
         \A x \in Requests :
           \/ requests'[x] = requests[x]
           \/ requests'[x] = Null
           \/ requests'[x].op # "issue" /\ RequestOK(requests'[x])
  PROVE  AuthInv'
<1>1. TypeOK'
  BY DEF AuthInv, TypeOK, subjects
<1>2. RequestsOK'
  BY DEF AuthInv, RequestsOK, RequestOK
<1>3. \A x \in Requests : \A c : Issues(x, c)' => Issues(x, c)
  BY DEF Issues
<1>4. IssuersOK'
  BY <1>3 DEF AuthInv, IssuersOK
<1>5. LifetimesOK' /\ TicketsOK' /\ GrantsOK'
  BY SMT DEF AuthInv, LifetimesOK, TicketsOK, TicketOK, GrantsOK
<1>6. QED
  BY <1>1, <1>2, <1>4, <1>5 DEF AuthInv

LEMMA StartsAndEnds ==
  ASSUME AuthInv, NEW r \in Requests
  PROVE  /\ \A scope \in Scopes : CreateChallengeCheck(r, scope) => AuthInv'
         /\ \A c \in ChallengeIds, key \in SigningKeys, now \in Nows :
              ProveVerify(r, c, key, now) => AuthInv'
         /\ InsertFails(r) \/ Gone(r) => AuthInv'
         /\ Restart => AuthInv'
<1> USE DEF AuthInv, TypeOK
<1>1. ASSUME NEW q \in Request \cup {Null},
             q = Null \/ (q.op # "issue" /\ RequestOK(q)),
             requests' = [requests EXCEPT ![r] = q],
             UNCHANGED <<challenges, tickets, subjects, clock, grants>>
      PROVE  AuthInv'
  BY <1>1, RequestsInv
<1>2. ASSUME NEW scope \in Scopes, CreateChallengeCheck(r, scope)
      PROVE  AuthInv'
  <2>1. PICK q : q = [op |-> "create", scope |-> scope]
    OBVIOUS
  <2>2. q \in Request /\ q.op = "create"
    BY <2>1 DEF Request
  <2>3. RequestOK(q)
    BY <2>2 DEF RequestOK
  <2>4. QED
    BY <1>1, <1>2, <2>1, <2>2, <2>3 DEF CreateChallengeCheck
<1>3. ASSUME NEW c \in ChallengeIds, NEW key \in SigningKeys, NEW now \in Nows,
             ProveVerify(r, c, key, now)
      PROVE  AuthInv'
  <2>1. PICK q : q = [op |-> "prove", challenge |-> c, now |-> now]
    OBVIOUS
  <2>2. q \in Request /\ q.op = "prove"
    BY <2>1, NowsType DEF Request
  <2>3. RequestOK(q)
    BY <1>3, <2>1 DEF RequestOK, ProveVerify
  <2>4. QED
    BY <1>1, <1>3, <2>1, <2>2, <2>3 DEF ProveVerify
<1>4. ASSUME InsertFails(r) \/ Gone(r)
      PROVE  AuthInv'
  BY <1>1, <1>4 DEF InsertFails, Gone
<1>5. ASSUME Restart
      PROVE  AuthInv'
  BY <1>5, RequestsInv DEF Restart
<1>6. QED
  BY <1>2, <1>3, <1>4, <1>5

\* A new challenge disturbs no request and no ticket.
LEMMA ChallengeInv ==
  ASSUME AuthInv, NEW r \in Requests, NEW c \in ChallengeIds, NEW now \in Nows,
         CreateChallengeInsert(r, c, now)
  PROVE  AuthInv'
<1>1. PICK q \in Request : q = requests[r] /\ q.op = "create"
  BY DEF CreateChallengeInsert, AuthInv, TypeOK
<1>2. PICK row : row = [scope |-> q.scope, issuedAt |-> now,
                        expiresAt |-> now + Lifetime, consumed |-> FALSE]
  OBVIOUS
<1>3. row \in ChallengeRow /\ row.expiresAt = row.issuedAt + Lifetime
  BY <1>1, <1>2, NowsType, NewRows, RequestForm DEF AuthInv
<1>4. /\ challenges[c] = Null
      /\ challenges' = [challenges EXCEPT ![c] = row]
      /\ requests' = [requests EXCEPT ![r] = Null]
      /\ UNCHANGED <<tickets, subjects, clock, grants>>
  BY <1>1, <1>2 DEF CreateChallengeInsert
<1>5. \A x \in ChallengeIds : challenges[x] # Null => challenges'[x] = challenges[x]
  BY <1>4 DEF AuthInv, TypeOK
<1>6. \A x \in Requests : requests'[x] = Null \/ requests'[x] = requests[x]
  BY <1>4 DEF AuthInv, TypeOK
<1>7. TypeOK'
  BY <1>3, <1>4 DEF AuthInv, TypeOK, subjects
<1>8. RequestsOK'
  <2> SUFFICES ASSUME NEW x \in Requests, requests'[x] # Null
               PROVE  RequestOK(requests[x])'
    BY DEF RequestsOK
  <2>1. requests'[x] = requests[x] /\ RequestOK(requests[x])
    BY <1>6 DEF AuthInv, RequestsOK
  <2>2. PICK p \in Request : p = requests[x]
    BY <2>1 DEF AuthInv, TypeOK
  <2>3. CASE p.op \in {"prove", "issue"}
    <3>1. p.challenge \in ChallengeIds
      BY <2>2, <2>3, RequestForm
    <3>2. challenges'[p.challenge] = challenges[p.challenge]
      BY <1>5, <2>1, <2>2, <2>3, <3>1 DEF RequestOK
    <3>3. QED
      BY <2>1, <2>2, <3>2 DEF RequestOK
  <2>4. CASE p.op \notin {"prove", "issue"}
    BY <2>1, <2>2, <2>4 DEF RequestOK
  <2>5. QED
    BY <2>3, <2>4
<1>9. LifetimesOK'
  BY <1>3, <1>4 DEF AuthInv, LifetimesOK, TypeOK
<1>10. IssuersOK'
  <2>1. \A x \in Requests : \A y : Issues(x, y)' => Issues(x, y)
    BY <1>6 DEF Issues
  <2>2. QED
    BY <1>4, <2>1 DEF AuthInv, IssuersOK
<1>11. TicketsOK'
  <2> SUFFICES ASSUME NEW t \in TicketIds, tickets[t] # Null
               PROVE  TicketOK(t)'
    BY <1>4 DEF TicketsOK
  <2>1. TicketOK(t) /\ tickets[t].from \in ChallengeIds
    BY DEF AuthInv, TicketsOK, TypeOK, TicketRow
  <2>2. challenges'[tickets[t].from] = challenges[tickets[t].from]
    BY <1>5, <2>1 DEF TicketOK
  <2>3. QED
    BY <1>4, <2>1, <2>2 DEF TicketOK
<1>12. GrantsOK'
  BY SMT, <1>4 DEF AuthInv, GrantsOK
<1>13. QED
  BY <1>7, <1>8, <1>9, <1>10, <1>11, <1>12 DEF AuthInv

\* A request passes consumeChallenge: it becomes the one issuer of its
\* challenge, which had none, being unconsumed until now.
LEMMA ConsumesInv ==
  ASSUME AuthInv, NEW r \in Requests, NEW c \in ChallengeIds, Consumes(r, c)
  PROVE  AuthInv'
<1>1. PICK q \in Request : /\ q = requests[r] /\ q # Null
                           /\ q.op = "prove" /\ q.challenge = c
  BY DEF Consumes
<1>2. PICK p : p = [q EXCEPT !.op = "issue"]
  OBVIOUS
<1>3. p \in Request /\ p.op = "issue" /\ p.challenge = c /\ p.now = q.now
  <2>1. q \in [op : {"prove", "issue"}, challenge : ChallengeIds, now : Nat]
    BY <1>1 DEF Request
  <2>2. QED
    BY <1>1, <1>2, <2>1 DEF Request
<1>4. PICK old \in ChallengeRow : old = challenges[c] /\ ~old.consumed
  BY DEF Consumes
<1>5. PICK new : new = [old EXCEPT !.consumed = TRUE]
  OBVIOUS
<1>6. /\ new \in ChallengeRow /\ new # Null
      /\ new.scope = old.scope /\ new.issuedAt = old.issuedAt
      /\ new.expiresAt = old.expiresAt /\ new.consumed = TRUE
  BY <1>5, ConsumedRows, RowsAreNotNull
<1>7. /\ challenges'[c] = new
      /\ \A x \in ChallengeIds \ {c} : challenges'[x] = challenges[x]
      /\ requests'[r] = p
      /\ \A x \in Requests \ {r} : requests'[x] = requests[x]
      /\ UNCHANGED <<tickets, clock, grants>>
  BY <1>1, <1>2, <1>4, <1>5 DEF Consumes, AuthInv, TypeOK
<1>8. TypeOK'
  <2>1. challenges' \in [ChallengeIds -> ChallengeRow \cup {Null}]
    BY <1>4, <1>5, <1>6 DEF Consumes, AuthInv, TypeOK
  <2>2. requests' \in [Requests -> Request \cup {Null}]
    BY <1>1, <1>2, <1>3 DEF Consumes, AuthInv, TypeOK
  <2>3. QED
    BY <2>1, <2>2 DEF Consumes, AuthInv, TypeOK, subjects
<1>9. \A x \in ChallengeIds : challenges[x] # Null =>
        /\ challenges'[x] # Null
        /\ challenges'[x].scope = challenges[x].scope
        /\ challenges'[x].issuedAt = challenges[x].issuedAt
        /\ challenges'[x].expiresAt = challenges[x].expiresAt
        /\ challenges[x].consumed => challenges'[x].consumed
  BY <1>4, <1>6, <1>7
<1>10. RequestsOK'
  <2> SUFFICES ASSUME NEW x \in Requests, requests'[x] # Null
               PROVE  RequestOK(requests[x])'
    BY DEF RequestsOK
  <2>1. CASE x = r
    <3>1. q.now < old.expiresAt
      BY <1>1, <1>4 DEF AuthInv, RequestsOK, RequestOK
    <3>2. QED
      BY <1>3, <1>6, <1>7, <2>1, <3>1 DEF RequestOK
  <2>2. CASE x # r
    <3>1. requests'[x] = requests[x] /\ RequestOK(requests[x])
      BY <1>7, <2>2 DEF AuthInv, RequestsOK
    <3>2. PICK y \in Request : y = requests[x]
      BY <3>1 DEF AuthInv, TypeOK
    <3>3. CASE y.op \in {"prove", "issue"}
      BY SMT, <1>9, <3>1, <3>2, <3>3, RequestForm DEF RequestOK
    <3>4. CASE y.op \notin {"prove", "issue"}
      BY <3>1, <3>2, <3>4 DEF RequestOK
    <3>5. QED
      BY <3>3, <3>4
  <2>3. QED
    BY <2>1, <2>2
<1>11. LifetimesOK'
  BY ZenonT(40), <1>4, <1>6, <1>7, RowsAreNotNull DEF AuthInv, LifetimesOK
<1>12. IssuersOK'
  <2>1. \A x \in Requests : ~Issues(x, c)
    BY <1>4 DEF Issues, AuthInv, RequestsOK, RequestOK
  <2>2. \A t \in TicketIds : tickets[t] # Null => tickets[t].from # c
    BY <1>4 DEF AuthInv, TicketsOK, TicketOK
  <2>3. \A x \in Requests : \A y : Issues(x, y)' <=>
          Issues(x, y) \/ (x = r /\ y = c)
    BY <1>1, <1>3, <1>7, RowsAreNotNull DEF Issues
  <2>4. QED
    BY SMT, <1>7, <2>1, <2>2, <2>3 DEF AuthInv, IssuersOK
<1>13. TicketsOK'
  <2> SUFFICES ASSUME NEW t \in TicketIds, tickets[t] # Null
               PROVE  TicketOK(t)'
    BY <1>7 DEF TicketsOK
  <2>1. TicketOK(t) /\ tickets[t].from \in ChallengeIds
    BY DEF AuthInv, TicketsOK, TypeOK, TicketRow
  <2>2. QED
    BY <1>7, <1>9, <2>1 DEF TicketOK
<1>14. GrantsOK'
  BY SMT, <1>7 DEF AuthInv, GrantsOK
<1>15. QED
  BY <1>8, <1>10, <1>11, <1>12, <1>13, <1>14 DEF AuthInv

\* What the insert of a ticket does.
Inserts(t, c, row) ==
  /\ tickets[t] = Null
  /\ tickets' = [tickets EXCEPT ![t] = row]
  /\ row \in TicketRow /\ row.from = c /\ row.consumed = FALSE
  /\ challenges[c] # Null /\ challenges[c].consumed
  /\ row.scope = challenges[c].scope
  /\ row.expiresAt < challenges[c].issuedAt + 2 * Lifetime
  /\ \A u \in TicketIds : tickets[u] # Null => tickets[u].from # c
  /\ \A scope \in Scopes : grants[<<c, scope>>] = 0
  /\ UNCHANGED <<challenges, subjects, clock, grants>>

LEMMA InsertEffect ==
  ASSUME AuthInv, NEW r \in Requests, NEW t \in TicketIds, ProveInsert(r, t)
  PROVE  \E c \in ChallengeIds, row \in TicketRow :
           Inserts(t, c, row) /\ Issues(r, c)
<1>1. PICK q \in Request : q = requests[r] /\ q # Null /\ q.op = "issue"
  BY DEF ProveInsert, AuthInv, TypeOK
<1>2. PICK c \in ChallengeIds : c = q.challenge
  BY <1>1, RequestForm
<1>3. q.now \in Nat
  BY <1>1, RequestForm
<1>4. challenges[c] # Null /\ challenges[c].consumed
      /\ q.now < challenges[c].expiresAt
  BY <1>1, <1>2 DEF AuthInv, RequestsOK, RequestOK
<1>5. PICK ch \in ChallengeRow : ch = challenges[c]
  BY <1>4 DEF AuthInv, TypeOK
<1>6. PICK row : row = [scope |-> ch.scope, expiresAt |-> TicketExpiry(q.now),
                        consumed |-> FALSE, from |-> c]
  OBVIOUS
<1>7. ch.scope \in Scopes /\ ch.issuedAt \in Nat /\ ch.expiresAt \in Nat
  BY DEF ChallengeRow
<1>8. row \in TicketRow
  BY <1>3, <1>6, <1>7, NewRows
<1>9. ch.expiresAt = ch.issuedAt + Lifetime
  BY <1>4, <1>5 DEF AuthInv, LifetimesOK
<1>10. row.expiresAt < ch.issuedAt + 2 * Lifetime
  BY SMT, <1>3, <1>4, <1>5, <1>6, <1>7, <1>9, AuthConstants DEF TicketExpiry
<1>11. Issues(r, c)
  BY <1>1, <1>2 DEF Issues
<1>12. \A u \in TicketIds : tickets[u] # Null => tickets[u].from # c
  BY <1>11 DEF AuthInv, IssuersOK
<1>13. \A scope \in Scopes : grants[<<c, scope>>] = 0
  BY SMT, <1>12 DEF AuthInv, GrantsOK
<1>14. /\ tickets[t] = Null /\ tickets' = [tickets EXCEPT ![t] = row]
       /\ UNCHANGED <<challenges, subjects, clock, grants>>
  BY <1>1, <1>2, <1>5, <1>6 DEF ProveInsert
<1>15. Inserts(t, c, row)
  BY <1>4, <1>5, <1>6, <1>8, <1>10, <1>12, <1>13, <1>14 DEF Inserts
<1>16. QED
  BY <1>8, <1>11, <1>15

LEMMA TicketInv ==
  ASSUME AuthInv, NEW r \in Requests, NEW t \in TicketIds, ProveInsert(r, t)
  PROVE  AuthInv'
<1>1. PICK c \in ChallengeIds, row \in TicketRow :
        Inserts(t, c, row) /\ Issues(r, c)
  BY InsertEffect
<1>2. /\ tickets[t] = Null /\ tickets'[t] = row
      /\ \A u \in TicketIds \ {t} : tickets'[u] = tickets[u]
      /\ UNCHANGED <<challenges, clock, grants>>
      /\ row # Null
  BY <1>1, RowsAreNotNull DEF Inserts, AuthInv, TypeOK
<1>3. /\ requests'[r] = Null
      /\ \A x \in Requests \ {r} : requests'[x] = requests[x]
  BY DEF ProveInsert, AuthInv, TypeOK
<1>4. TypeOK'
  <2>1. tickets' \in [TicketIds -> TicketRow \cup {Null}]
    BY <1>1 DEF Inserts, AuthInv, TypeOK
  <2>2. requests' \in [Requests -> Request \cup {Null}]
    BY DEF ProveInsert, AuthInv, TypeOK
  <2>3. QED
    BY <1>1, <2>1, <2>2 DEF Inserts, AuthInv, TypeOK, subjects
<1>5. RequestsOK' /\ LifetimesOK'
  BY <1>2, <1>3 DEF AuthInv, RequestsOK, RequestOK, LifetimesOK
<1>6. IssuersOK'
  <2>1. \A x \in Requests : \A y : Issues(x, y)' => Issues(x, y) /\ x # r
    BY <1>3 DEF Issues
  <2>2. \A x \in Requests, y \in ChallengeIds : Issues(x, y)' => y # c
    BY <1>1, <2>1 DEF AuthInv, IssuersOK
  <2>3. row.from = c
    BY <1>1 DEF Inserts
  <2>4. QED
    BY <1>2, <2>1, <2>2, <2>3 DEF AuthInv, IssuersOK
<1>7. TicketsOK'
  <2> SUFFICES ASSUME NEW u \in TicketIds, tickets'[u] # Null
               PROVE  TicketOK(u)'
    BY DEF TicketsOK
  <2>1. CASE u = t
    BY <1>1, <1>2, <2>1 DEF Inserts, TicketOK
  <2>2. CASE u # t
    <3>1. TicketOK(u) /\ tickets'[u] = tickets[u] /\ tickets[u].from # c
      BY <1>1, <1>2, <2>2 DEF AuthInv, TicketsOK, Inserts
    <3>2. row.from = c
      BY <1>1 DEF Inserts
    <3>3. QED
      BY <1>2, <2>2, <3>1, <3>2 DEF TicketOK
  <2>3. QED
    BY <2>1, <2>2
<1>8. GrantsOK'
  <2>1. ASSUME NEW u \in TicketIds, tickets'[u] # Null
        PROVE  grants[<<tickets'[u].from, tickets'[u].scope>>] =
                 IF tickets'[u].consumed THEN 1 ELSE 0
    <3>1. CASE u = t
      <4>1. row.scope \in Scopes
        BY DEF TicketRow
      <4>2. grants[<<c, row.scope>>] = 0 /\ row.from = c /\ row.consumed = FALSE
        BY <1>1, <4>1 DEF Inserts
      <4>3. QED
        BY <1>2, <3>1, <4>2
    <3>2. CASE u # t
      BY SMT, <1>2, <2>1, <3>2 DEF AuthInv, GrantsOK
    <3>3. QED
      BY <3>1, <3>2
  <2>2. ASSUME NEW y \in ChallengeIds, NEW scope \in Scopes,
               grants[<<y, scope>>] # 0
        PROVE  \E u \in TicketIds : /\ tickets'[u] # Null
                                    /\ tickets'[u].from = y
                                    /\ tickets'[u].scope = scope
    <3>1. PICK u \in TicketIds : /\ tickets[u] # Null /\ tickets[u].from = y
                                 /\ tickets[u].scope = scope
      BY SMT, <2>2 DEF AuthInv, GrantsOK
    <3>2. u # t
      BY <1>2, <3>1
    <3>3. QED
      BY <1>2, <3>1, <3>2
  <2>3. QED
    BY SMT, <1>2, <2>1, <2>2 DEF GrantsOK
<1>9. QED
  BY <1>4, <1>5, <1>6, <1>7, <1>8 DEF AuthInv

\* What ConsumeTicket does.
Spends(t, old, now) ==
  /\ old \in TicketRow /\ tickets[t] = old
  /\ old.consumed = FALSE /\ now < old.expiresAt /\ SubjectActive(old.scope)
  /\ tickets' = [tickets EXCEPT ![t] = [old EXCEPT !.consumed = TRUE]]
  /\ grants[<<old.from, old.scope>>] = 0
  /\ grants' = [grants EXCEPT ![<<old.from, old.scope>>] = 1]
  /\ UNCHANGED <<challenges, requests, subjects, clock>>

LEMMA SpendEffect ==
  ASSUME AuthInv, NEW t \in TicketIds, NEW expected \in Scopes, NEW now,
         ConsumeTicket(t, expected, now)
  PROVE  \E old \in TicketRow : Spends(t, old, now) /\ old.scope = expected
<1>1. PICK old \in TicketRow : old = tickets[t]
  BY DEF ConsumeTicket, AuthInv, TypeOK
<1>2. /\ old.scope = expected /\ ~old.consumed /\ now < old.expiresAt
      /\ SubjectActive(old.scope) /\ old # Null
  BY <1>1 DEF ConsumeTicket, Redeemable
<1>3. old.consumed = FALSE
  BY <1>2 DEF TicketRow
<1>4. grants[<<old.from, old.scope>>] = 0
  BY <1>1, <1>2 DEF AuthInv, GrantsOK
<1>5. tickets' = [tickets EXCEPT ![t] = [old EXCEPT !.consumed = TRUE]]
  BY <1>1 DEF ConsumeTicket
<1>6. grants' = [grants EXCEPT ![<<old.from, old.scope>>] = 1]
  BY SMT, <1>1, <1>2, <1>4 DEF ConsumeTicket
<1>7. UNCHANGED <<challenges, requests, subjects, clock>>
  BY DEF ConsumeTicket
<1>8. QED
  BY <1>1, <1>2, <1>3, <1>4, <1>5, <1>6, <1>7 DEF Spends

\* The tables after it.
Spent(t, old) ==
  /\ tickets'[t] \in TicketRow /\ tickets'[t] # Null /\ tickets[t] # Null
  /\ tickets[t] = old
  /\ tickets'[t].from = old.from /\ tickets'[t].scope = old.scope
  /\ tickets'[t].expiresAt = old.expiresAt
  /\ tickets'[t].consumed = TRUE
  /\ \A u \in TicketIds \ {t} : tickets'[u] = tickets[u]
  /\ old.from \in ChallengeIds /\ old.scope \in Scopes
  /\ grants'[<<old.from, old.scope>>] = 1
  /\ \A c \in ChallengeIds, scope \in Scopes :
       ~(c = old.from /\ scope = old.scope) =>
         grants'[<<c, scope>>] = grants[<<c, scope>>]
  /\ \A u \in TicketIds \ {t} : tickets[u] # Null => tickets[u].from # old.from

LEMMA SpentTables ==
  ASSUME AuthInv, NEW t \in TicketIds, NEW old \in TicketRow, NEW now,
         Spends(t, old, now)
  PROVE  Spent(t, old)
<1>1. PICK new : new = [old EXCEPT !.consumed = TRUE]
  OBVIOUS
<1>2. /\ new \in TicketRow /\ new.from = old.from /\ new.scope = old.scope
      /\ new.expiresAt = old.expiresAt /\ new.consumed = TRUE
  BY <1>1, ConsumedRows
<1>3. tickets'[t] = new /\ \A u \in TicketIds \ {t} : tickets'[u] = tickets[u]
  BY <1>1 DEF Spends, AuthInv, TypeOK
<1>4. tickets[t] = old /\ old # Null /\ new # Null
  BY <1>2, RowsAreNotNull DEF Spends
<1>5. old.from \in ChallengeIds /\ old.scope \in Scopes
  BY DEF TicketRow
<1>6. /\ grants'[<<old.from, old.scope>>] = 1
      /\ \A c \in ChallengeIds, scope \in Scopes :
           ~(c = old.from /\ scope = old.scope) =>
             grants'[<<c, scope>>] = grants[<<c, scope>>]
  BY <1>5 DEF Spends, AuthInv, TypeOK
<1>7. \A u \in TicketIds \ {t} : tickets[u] # Null => tickets[u].from # old.from
  BY <1>4 DEF AuthInv, TicketsOK, TicketOK
<1>8. QED
  BY <1>2, <1>3, <1>4, <1>5, <1>6, <1>7 DEF Spent

LEMMA SpendInv ==
  ASSUME AuthInv, NEW t \in TicketIds, NEW expected \in Scopes, NEW now,
         ConsumeTicket(t, expected, now)
  PROVE  AuthInv'
<1>1. PICK old \in TicketRow : Spends(t, old, now)
  BY SpendEffect
<1>2. Spent(t, old)
  BY <1>1, SpentTables
<1>3. UNCHANGED <<challenges, requests, subjects, clock>>
  BY <1>1 DEF Spends
<1>4. TypeOK'
  <2>1. tickets' \in [TicketIds -> TicketRow \cup {Null}]
    BY ZenonT(40), <1>1, <1>2 DEF Spent, Spends, AuthInv, TypeOK
  <2>2. grants' \in [ChallengeIds \X Scopes -> Nat]
    BY <1>1 DEF Spends, AuthInv, TypeOK
  <2>3. QED
    BY <1>3, <2>1, <2>2 DEF AuthInv, TypeOK, subjects
<1>5. \A u \in TicketIds :
        /\ tickets'[u] = Null <=> tickets[u] = Null
        /\ tickets[u] # Null =>
             /\ tickets'[u].from = tickets[u].from
             /\ tickets'[u].scope = tickets[u].scope
             /\ tickets'[u].expiresAt = tickets[u].expiresAt
  BY <1>2 DEF Spent
<1>6. RequestsOK' /\ LifetimesOK'
  BY <1>3 DEF AuthInv, RequestsOK, RequestOK, LifetimesOK
<1>7. IssuersOK'
  BY SMT, <1>3, <1>5 DEF AuthInv, IssuersOK, Issues
<1>8. TicketsOK'
  BY SMT, <1>3, <1>5 DEF AuthInv, TicketsOK, TicketOK
<1>9. GrantsOK'
  <2>1. ASSUME NEW u \in TicketIds, tickets'[u] # Null
        PROVE  grants'[<<tickets'[u].from, tickets'[u].scope>>] =
                 IF tickets'[u].consumed THEN 1 ELSE 0
    <3>1. CASE u = t
      BY <1>2, <3>1 DEF Spent
    <3>2. CASE u # t
      <4>1. tickets'[u] = tickets[u] /\ tickets[u] \in TicketRow
        BY <1>2, <2>1, <3>2 DEF Spent, AuthInv, TypeOK
      <4>2. tickets[u].from \in ChallengeIds /\ tickets[u].scope \in Scopes
        BY <4>1 DEF TicketRow
      <4>3. grants'[<<tickets[u].from, tickets[u].scope>>]
              = grants[<<tickets[u].from, tickets[u].scope>>]
        BY <1>2, <2>1, <3>2, <4>1, <4>2 DEF Spent
      <4>4. QED
        BY <2>1, <4>1, <4>3 DEF AuthInv, GrantsOK
    <3>3. QED
      BY <3>1, <3>2
  <2>2. ASSUME NEW c \in ChallengeIds, NEW scope \in Scopes,
               grants'[<<c, scope>>] # 0
        PROVE  \E u \in TicketIds : /\ tickets'[u] # Null
                                    /\ tickets'[u].from = c
                                    /\ tickets'[u].scope = scope
    <3>1. CASE c = old.from /\ scope = old.scope
      BY <1>2, <3>1 DEF Spent
    <3>2. CASE ~(c = old.from /\ scope = old.scope)
      <4>1. grants[<<c, scope>>] # 0
        BY <1>2, <2>2, <3>2 DEF Spent
      <4>2. QED
        BY SMT, <1>5, <4>1 DEF AuthInv, GrantsOK
    <3>3. QED
      BY <3>1, <3>2
  <2>3. QED
    BY SMT, <2>1, <2>2 DEF GrantsOK
<1>10. QED
  BY <1>4, <1>6, <1>7, <1>8, <1>9 DEF AuthInv

\* Every step keeps the invariant.
LEMMA AuthInvStep ==
  ASSUME AuthInv, [Next]_vars
  PROVE  AuthInv'
<1>1. ASSUME NEW r \in Requests, AuthRequest(r)
      PROVE  AuthInv'
  <2>1. CASE consumeChallenge(r)
    BY <2>1, ConsumeEffect, ConsumesInv, StartsAndEnds DEF AuthInv
  <2>2. CASE \E t \in TicketIds : ProveInsert(r, t)
    BY <2>2, TicketInv
  <2>3. CASE \E c \in ChallengeIds, now \in Nows : CreateChallengeInsert(r, c, now)
    BY <2>3, ChallengeInv
  <2>4. QED
    BY <1>1, <2>1, <2>2, <2>3, StartsAndEnds DEF AuthRequest
<1>2. CASE \E t \in TicketIds, expected \in Scopes, now \in Nows :
             ConsumeTicket(t, expected, now)
  BY <1>2, SpendInv
<1>3. CASE SubjectChange \/ Tick \/ UNCHANGED vars
  BY <1>3, ElsewhereEffect, ElsewhereInv DEF AuthInv
<1>4. CASE Restart
  <2>1. requests' \in [Requests -> Request \cup {Null}]
    BY <1>4 DEF Restart
  <2>2. \A x \in Requests : requests'[x] = Null
    BY <1>4 DEF Restart
  <2>3. UNCHANGED <<challenges, tickets, subjects, clock, grants>>
    BY <1>4 DEF Restart
  <2>4. QED
    BY <2>1, <2>2, <2>3, RequestsInv
<1>5. QED
  BY <1>1, <1>2, <1>3, <1>4 DEF Next

LEMMA AuthInvInit == Init => AuthInv
<1> SUFFICES ASSUME Init
             PROVE  AuthInv
  OBVIOUS
<1>1. TypeOK
  BY DEF Init, TypeOK
<1>2. RequestsOK /\ LifetimesOK /\ IssuersOK /\ TicketsOK
  BY DEF Init, RequestsOK, LifetimesOK, IssuersOK, Issues, TicketsOK
<1>3. GrantsOK
  BY DEF Init, GrantsOK
<1>4. QED
  BY <1>1, <1>2, <1>3 DEF AuthInv

-----------------------------------------------------------------------------
(* Theorems *)

\* Auth keeps its types, and its invariant.
THEOREM AuthCorrect == Spec => [](TypeOK /\ AuthInv)
<1>1. AuthInv => TypeOK
  BY DEF AuthInv
<1>2. QED
  BY <1>1, AuthInvInit, AuthInvStep, PTL DEF Spec

\* Every ticket was exchanged for a challenge of its own and of its scope,
\* however many requests of Prove race for it and wherever they crash.
THEOREM EveryTicketIsEarned == Spec => []TicketsAreEarned
<1>1. AuthInv => TicketsAreEarned
  BY DEF AuthInv, TicketsOK, TicketOK, TicketsAreEarned
<1>2. QED
  BY <1>1, AuthCorrect, PTL

\* A signed challenge authorises at most one request, of its own scope.
THEOREM EveryGrantIsEarned == Spec => []GrantsAreEarned
<1>1. AuthInv => GrantsAreEarned
  <2> SUFFICES ASSUME AuthInv, NEW c \in ChallengeIds, NEW scope \in Scopes,
                      grants[<<c, scope>>] > 0
               PROVE  /\ grants[<<c, scope>>] = 1
                      /\ challenges[c] # Null
                      /\ challenges[c].consumed
                      /\ challenges[c].scope = scope
    BY DEF GrantsAreEarned
  <2>1. grants[<<c, scope>>] # 0
    BY SMT DEF AuthInv, TypeOK
  <2>2. PICK t \in TicketIds : /\ tickets[t] # Null /\ tickets[t].from = c
                               /\ tickets[t].scope = scope
    BY SMT, <2>1 DEF AuthInv, GrantsOK
  <2>3. TicketOK(t)
    BY <2>2 DEF AuthInv, TicketsOK
  <2>4. grants[<<c, scope>>] = IF tickets[t].consumed THEN 1 ELSE 0
    BY <2>2 DEF AuthInv, GrantsOK
  <2>5. QED
    BY <2>1, <2>2, <2>3, <2>4 DEF TicketOK
<1>2. QED
  BY <1>1, AuthCorrect, PTL

\* Only ConsumeTicket adds to the history.
LEMMA OthersGrantNothing ==
  ASSUME AuthInv, [Next]_vars,
         ~ \E t \in TicketIds, expected \in Scopes, now \in Nows :
             ConsumeTicket(t, expected, now)
  PROVE  grants' = grants
<1>1. ASSUME NEW r \in Requests, AuthRequest(r)
      PROVE  grants' = grants
  BY <1>1 DEF AuthRequest, CreateChallengeCheck, CreateChallengeInsert,
              ProveVerify, consumeChallenge, ProveInsert, InsertFails
<1>2. CASE SubjectChange \/ Tick \/ UNCHANGED vars
  BY <1>2, ElsewhereEffect DEF AuthInv, Elsewhere
<1>3. CASE Restart
  BY <1>3 DEF Restart
<1>4. QED
  BY <1>1, <1>2, <1>3 DEF Next

\* A challenge authorises nothing two lifetimes and a wait after its issue.
THEOREM EveryGrantIsInTime == Spec => GrantedInTime
<1> DEFINE Timely ==
      \A c \in ChallengeIds, scope \in Scopes :
        grants'[<<c, scope>>] # grants[<<c, scope>>] =>
          clock < challenges[c].issuedAt + 2 * Lifetime + MaxLag
<1>1. AuthInv /\ [Next]_vars => [Timely]_vars
  <2> SUFFICES ASSUME AuthInv, [Next]_vars,
                      NEW c \in ChallengeIds, NEW scope \in Scopes,
                      grants'[<<c, scope>>] # grants[<<c, scope>>]
               PROVE  clock < challenges[c].issuedAt + 2 * Lifetime + MaxLag
    OBVIOUS
  <2>1. PICK t \in TicketIds, expected \in Scopes, now \in Nows :
          ConsumeTicket(t, expected, now)
    BY OthersGrantNothing
  <2>2. PICK old \in TicketRow : Spends(t, old, now)
    BY <2>1, SpendEffect
  <2>3. c = old.from /\ tickets[t] = old /\ old # Null
    <3>1. Spent(t, old)
      BY <2>2, SpentTables
    <3>2. QED
      BY <3>1 DEF Spent
  <2>4. now < old.expiresAt
    BY <2>2 DEF Spends
  <2>5. /\ old.expiresAt < challenges[c].issuedAt + 2 * Lifetime
        /\ challenges[c] # Null
    BY <2>3 DEF AuthInv, TicketsOK, TicketOK
  <2>6. challenges[c].issuedAt \in Nat
    BY <2>5 DEF AuthInv, TypeOK, ChallengeRow
  <2>7. old.expiresAt \in Nat
    BY DEF TicketRow
  <2>8. now \in Nat /\ clock <= now + MaxLag /\ clock \in Nat
    BY NowsType DEF AuthInv, TypeOK
  <2>9. QED
    BY SMT, <2>4, <2>5, <2>6, <2>7, <2>8, AuthConstants
<1>2. QED
  BY <1>1, AuthCorrect, PTL DEF Spec, GrantedInTime

-----------------------------------------------------------------------------
(* Refinement *)

\* The state of Tickets that a state of Auth stands for.
absIssued == [t \in TicketIds |->
                IF tickets[t] = Null THEN Null ELSE tickets[t].scope]

absUses == [t \in TicketIds |->
              IF tickets[t] = Null THEN 0
              ELSE grants[<<tickets[t].from, tickets[t].scope>>]]

absActive == {scope \in Scopes : SubjectActive(scope)}

\* The steps of AuthRequest and Restart that insert no ticket are stutters.
LEMMA RequestsStutter ==
  ASSUME AuthInv, UNCHANGED <<tickets, grants, subjects>>
  PROVE  absIssued' = absIssued /\ absUses' = absUses /\ absActive' = absActive
<1>1. absIssued' = absIssued /\ absUses' = absUses
  BY DEF absIssued, absUses
<1>2. absActive' = absActive
  BY DEF absActive, SubjectActive, subjects
<1>3. QED
  BY <1>1, <1>2

\* The insert of Prove is Issue.
LEMMA InsertIsIssue ==
  ASSUME AuthInv, NEW r \in Requests, NEW t \in TicketIds, ProveInsert(r, t)
  PROVE  \E scope \in Scopes : Abstract!Issue(t, scope)
<1>1. PICK c \in ChallengeIds, row \in TicketRow :
        Inserts(t, c, row) /\ Issues(r, c)
  BY InsertEffect
<1>2. /\ tickets[t] = Null /\ tickets'[t] = row
      /\ \A u \in TicketIds \ {t} : tickets'[u] = tickets[u]
      /\ UNCHANGED <<challenges, clock, grants>>
      /\ row # Null
  BY <1>1, RowsAreNotNull DEF Inserts, AuthInv, TypeOK
<1>3. row.scope \in Scopes /\ row.from = c /\ grants[<<c, row.scope>>] = 0
  BY <1>1 DEF TicketRow, Inserts
<1>4. absIssued[t] = Null /\ absIssued' = [absIssued EXCEPT ![t] = row.scope]
  <2>1. absIssued[t] = Null /\ absIssued'[t] = row.scope
    BY <1>2 DEF absIssued
  <2>2. \A u \in TicketIds \ {t} : absIssued'[u] = absIssued[u]
    BY <1>2 DEF absIssued
  <2>3. absIssued' = [u \in TicketIds |-> absIssued'[u]]
    BY DEF absIssued
  <2>4. DOMAIN absIssued = TicketIds
    BY DEF absIssued
  <2>5. [absIssued EXCEPT ![t] = row.scope] =
          [u \in TicketIds |-> IF u = t THEN row.scope ELSE absIssued[u]]
    BY <2>4
  <2>6. QED
    BY <2>1, <2>2, <2>3, <2>5
<1>5. absUses' = absUses
  BY SMT, <1>2, <1>3 DEF absUses
<1>6. absActive' = absActive
  BY <1>1 DEF Inserts, absActive, SubjectActive, subjects
<1>7. Abstract!Issue(t, row.scope)
  BY <1>4, <1>5, <1>6 DEF Abstract!Issue, absIssued, absUses, absActive
<1>8. QED
  BY <1>3, <1>7

\* ConsumeTicket is Spend.
LEMMA ConsumeIsSpend ==
  ASSUME AuthInv, NEW t \in TicketIds, NEW expected \in Scopes, NEW now,
         ConsumeTicket(t, expected, now)
  PROVE  Abstract!Spend(t, expected)
<1>1. PICK old \in TicketRow : Spends(t, old, now) /\ old.scope = expected
  BY SpendEffect
<1>2. Spent(t, old)
  BY <1>1, SpentTables
<1>3. absIssued[t] = expected /\ absIssued' = absIssued
  BY ZenonT(40), <1>1, <1>2 DEF Spent, absIssued
<1>4. absUses[t] = 0
  BY <1>1, <1>2 DEF absUses, Spends, Spent
<1>5. absUses' = [absUses EXCEPT ![t] = 1]
  <2>1. ASSUME NEW u \in TicketIds \ {t}
        PROVE  absUses'[u] = absUses[u]
    <3>1. CASE tickets[u] = Null
      BY <1>2, <2>1, <3>1 DEF Spent, absUses
    <3>2. CASE tickets[u] # Null
      <4>1. tickets[u].from \in ChallengeIds /\ tickets[u].scope \in Scopes
        BY <2>1, <3>2 DEF AuthInv, TypeOK, TicketRow
      <4>2. QED
        BY SMT, <1>2, <2>1, <3>2, <4>1 DEF Spent, absUses
    <3>3. QED
      BY <3>1, <3>2
  <2>2. absUses'[t] = 1
    BY <1>2 DEF Spent, absUses
  <2>3. DOMAIN absUses = TicketIds /\ DOMAIN absUses' = TicketIds
    BY DEF absUses
  <2>4. absUses' = [u \in TicketIds |-> absUses'[u]]
    BY DEF absUses
  <2>5. [absUses EXCEPT ![t] = 1] =
          [u \in TicketIds |-> IF u = t THEN 1 ELSE absUses[u]]
    BY <2>3
  <2>6. QED
    BY <2>1, <2>2, <2>4, <2>5
<1>6. expected \in absActive
  BY <1>1 DEF absActive, Spends
<1>7. absActive' = absActive
  BY <1>1 DEF Spends, absActive, SubjectActive, subjects
<1>8. QED
  BY <1>3, <1>4, <1>5, <1>6, <1>7
  DEF Abstract!Spend, absIssued, absUses, absActive

\* Authentication implements Tickets.
THEOREM AuthImplementsTickets == Spec => ImplementsTickets
<1>1. Init => Abstract!TicketsInit
  <2> SUFFICES ASSUME Init
               PROVE  Abstract!TicketsInit
    OBVIOUS
  <2>1. absIssued = [t \in TicketIds |-> Null]
    BY DEF Init, absIssued
  <2>2. absUses = [t \in TicketIds |-> 0]
    BY DEF Init, absUses
  <2>3. QED
    BY <2>1, <2>2 DEF Abstract!TicketsInit, absIssued, absUses
<1>2. AuthInv /\ [Next]_vars
        => [Abstract!TicketsNext]_<<absIssued, absUses, absActive>>
  <2> SUFFICES ASSUME AuthInv, [Next]_vars
               PROVE  \/ Abstract!TicketsNext
                      \/ UNCHANGED <<absIssued, absUses, absActive>>
    OBVIOUS
  <2>1. ASSUME NEW r \in Requests, AuthRequest(r)
        PROVE  \/ Abstract!TicketsNext
               \/ UNCHANGED <<absIssued, absUses, absActive>>
    <3>1. CASE \E t \in TicketIds : ProveInsert(r, t)
      BY <3>1, InsertIsIssue DEF Abstract!TicketsNext
    <3>2. CASE ~ \E t \in TicketIds : ProveInsert(r, t)
      <4>1. UNCHANGED <<tickets, grants, subjects>>
        BY <2>1, <3>2 DEF AuthRequest, CreateChallengeCheck,
             CreateChallengeInsert, ProveVerify, consumeChallenge, InsertFails
      <4>2. QED
        BY <4>1, RequestsStutter
    <3>3. QED
      BY <3>1, <3>2
  <2>2. CASE \E t \in TicketIds, expected \in Scopes, now \in Nows :
               ConsumeTicket(t, expected, now)
    BY <2>2, ConsumeIsSpend DEF Abstract!TicketsNext
  <2>3. CASE SubjectChange \/ Tick \/ UNCHANGED vars
    <3>1. UNCHANGED <<tickets, grants>>
      BY <2>3, ElsewhereEffect DEF AuthInv, Elsewhere
    <3>2. absIssued' = absIssued /\ absUses' = absUses
      BY <3>1 DEF absIssued, absUses
    <3>3. absActive' \in SUBSET Scopes
      BY DEF absActive
    <3>4. Abstract!SubjectsChange
      BY <3>2, <3>3 DEF Abstract!SubjectsChange, absIssued, absUses, absActive
    <3>5. QED
      BY <3>4 DEF Abstract!TicketsNext
  <2>4. CASE Restart
    <3>1. UNCHANGED <<tickets, grants, subjects>>
      BY <2>4 DEF Restart
    <3>2. QED
      BY <3>1, RequestsStutter
  <2>5. QED
    BY <2>1, <2>2, <2>3, <2>4 DEF Next
<1>3. QED
  BY <1>1, <1>2, AuthCorrect, PTL
  DEF Spec, ImplementsTickets, Abstract!TicketsSpec, absIssued, absUses,
      absActive

=============================================================================
