--------------------------- MODULE SessionsProofs ---------------------------
(***************************************************************************)
(* Theorems about Sessions, for every number of sockets and routes: what   *)
(* the session tables hold, that an evicted session is being closed, what  *)
(* the wait group counts, and whom a frame reaches.                        *)
(***************************************************************************)
EXTENDS Sessions, TLAPS

\* The leaves go to Zenon; the ones that need more name their prover.
USE Zenon

-----------------------------------------------------------------------------
(* The invariant *)

LiveAt == {"reading", "parsed", "writing", "exiting"}

\* The handler has been past its registration.
Started(s) == pc[s] \in LiveAt \cup {"removed", "done"}

\* An entry of the table of a role.
EntryOK(role, k, s) ==
  /\ sess[s] # Null
  /\ sess[s].role = role
  /\ deviceKey(sess[s].route) = k
  /\ pc[s] \in LiveAt
  /\ row[sess[s].route] = "active"

TablesOK ==
  \A k \in Keys :
    /\ hosts[k] # Null => EntryOK("host", k, hosts[k])
    /\ devices[k] # Null => EntryOK("device", k, devices[k])
    /\ shuttingDown => hosts[k] = Null /\ devices[k] = Null

\* A handler past authentication has a session.
SessionsOK == \A s \in Sockets : pc[s] # "idle" => sess[s] # Null

FramesOK ==
  \A s \in Sockets : pc[s] = "parsed" =>
    frame[s] # Null /\ validateSenderFrame(s, frame[s])

\* y is of the other role, with the same key, and was registered once.
PeerOf(s, y) ==
  /\ Started(s) /\ Started(y)
  /\ sess[y].role = Peer(sess[s].role)
  /\ deviceKey(sess[y].route) = deviceKey(sess[s].route)

TargetsOK ==
  \A s \in Sockets : pc[s] = "writing" => target[s] # Null /\ PeerOf(s, target[s])

HeardOK == \A s \in Sockets : \A x \in heard[s] : PeerOf(x, s)

\* The sockets whose frames s was sent, or is about to be sent.
Talkers(s) ==
  heard[s] \cup {x \in Sockets : pc[x] = "writing" /\ target[x] = s}

\* A device has one talker, and while it is in the table that one is the host
\* in the table.
OneTalker ==
  \A s \in Sockets : sess[s] # Null /\ sess[s].role = "device" =>
    /\ \A x, y \in Talkers(s) : x = y
    /\ Key(s) \in Keys /\ devices[Key(s)] = s =>
         \A x \in Talkers(s) : hosts[Key(s)] = x

DrainOK ==
  /\ wg = Cardinality({s \in Sockets : Tracked(s)})
  /\ wg = 0 => \A s \in Sockets : ~Tracked(s)
  /\ done => shuttingDown /\ \A s \in Sockets : ~Tracked(s)

SessionsInv ==
  /\ TypeOK /\ SessionsOK /\ TablesOK /\ FramesOK /\ TargetsOK /\ HeardOK
  /\ EvictedIsClosing /\ OneTalker /\ DrainOK

-----------------------------------------------------------------------------
(* Types *)

\* A session has a key, and no member of Session or Frame is mistaken for Null.
LEMMA KeyType == \A r \in Routes : deviceKey(r) \in Keys
  BY DEF Keys

LEMMA SessionForm ==
  ASSUME TypeOK, NEW s \in Sockets, sess[s] # Null
  PROVE  /\ sess[s] \in Session /\ sess[s].role \in Roles
         /\ sess[s].route \in Routes /\ Key(s) \in Keys
  BY KeyType DEF TypeOK, Session, Key

\* The sessions that a registration or a removal takes out are sockets.
LEMMA EvictedType ==
  ASSUME TypeOK, NEW s \in Sockets, sess[s] # Null
  PROVE  /\ Displaced(s) \subseteq Sockets
         /\ DetachedPeer(s) \subseteq Sockets
         /\ \A role \in Roles, k \in Keys : Entry(role, k) \in Sockets \cup {Null}
<1>1. Key(s) \in Keys
  BY SessionForm
<1>2. hosts[Key(s)] \in Sockets \cup {Null} /\ devices[Key(s)] \in Sockets \cup {Null}
  BY <1>1 DEF TypeOK
<1>3. QED
  BY <1>1, <1>2 DEF Displaced, DetachedPeer, Entry, TypeOK

\* What beginShutdown collects.
LEMMA AllEntries ==
  ASSUME NEW x
  PROVE  x \in UNION {{hosts[k], devices[k]} : k \in Keys} <=>
           \E k \in Keys : x = hosts[k] \/ x = devices[k]
<1>1. ASSUME x \in UNION {{hosts[k], devices[k]} : k \in Keys}
      PROVE  \E k \in Keys : x = hosts[k] \/ x = devices[k]
  <2>1. PICK S \in {{hosts[k], devices[k]} : k \in Keys} : x \in S
    BY <1>1
  <2>2. PICK k \in Keys : S = {hosts[k], devices[k]}
    BY <2>1
  <2>3. QED
    BY <2>1, <2>2
<1>2. ASSUME NEW k \in Keys, x = hosts[k] \/ x = devices[k]
      PROVE  x \in UNION {{hosts[j], devices[j]} : j \in Keys}
  <2>1. x \in {hosts[k], devices[k]}
    BY <1>2
  <2>2. {hosts[k], devices[k]} \in {{hosts[j], devices[j]} : j \in Keys}
    OBVIOUS
  <2>3. QED
    BY <2>1, <2>2
<1>3. QED
  BY <1>1, <1>2

\* Every step keeps the types.
LEMMA TypeStep ==
  ASSUME SessionsInv, [Next]_vars
  PROVE  TypeOK'
<1> USE DEF TypeOK
<1>   TypeOK /\ SessionsOK
  BY DEF SessionsInv
<1>1. ASSUME NEW s \in Sockets, NEW role \in Roles, NEW r \in Routes,
             Authenticate(s, role, r)
      PROVE  TypeOK'
  <2>1. [role |-> role, route |-> r] \in Session
    BY DEF Session
  <2>2. QED
    BY <1>1, <2>1 DEF Authenticate, Goto, tables, drain, Points
<1>2. ASSUME NEW s \in Sockets,
             \/ Accept(s) \/ RefuseWebSocket(s) \/ ReadFails(s)
             \/ ReadBadFrame(s) \/ CloseSocket(s) \/ Disconnect(s)
      PROVE  TypeOK'
  BY SMT, <1>2 DEF Accept, RefuseWebSocket, ReadFails, ReadBadFrame,
       CloseSocket, Disconnect, CloseAndExit, Close, Goto, tables, drain, Points
<1>3. ASSUME NEW s \in Sockets, NEW f \in Frame, ReadFrame(s, f)
      PROVE  TypeOK'
  BY <1>3 DEF ReadFrame, Goto, tables, drain, Points
<1>4. ASSUME NEW s \in Sockets, BeginWebSocket(s)
      PROVE  TypeOK'
  <2>1. sess[s] # Null
    BY <1>4 DEF SessionsOK, BeginWebSocket
  <2>2. Key(s) \in Keys /\ Displaced(s) \subseteq Sockets
    BY <2>1, SessionForm, EvictedType
  <2>3. hosts' \in [Keys -> Sockets \cup {Null}]
    BY <1>4 DEF BeginWebSocket
  <2>4. devices' \in [Keys -> Sockets \cup {Null}]
    BY <1>4 DEF BeginWebSocket
  <2>5. QED
    BY SMT, <1>4, <2>2, <2>3, <2>4 DEF BeginWebSocket, WaitGroupAdd, Goto, Points
<1>5. ASSUME NEW s \in Sockets, LookUpTarget(s)
      PROVE  TypeOK'
  <2>1. frame[s] \in Frame
    BY <1>5 DEF LookUpTarget, SessionsInv, FramesOK
  <2>2. deviceKey(frame[s].route) \in Keys
    BY <2>1, KeyType DEF Frame
  <2>3. target' \in [Sockets -> Sockets \cup {Null}]
    BY ZenonT(40), <1>5, <2>2 DEF LookUpTarget, MayRoute
  <2>4. pc' \in [Sockets -> Points] /\ conn' \in [Sockets -> {"none", "open", "closed"}]
    BY SMT, <1>5 DEF LookUpTarget, CloseAndExit, Close, Goto, Points
  <2>5. frame' \in [Sockets -> Frame \cup {Null}]
    BY <1>5 DEF LookUpTarget
  <2>6. UNCHANGED <<hosts, devices, row, sess, closers, wg, shuttingDown, done, heard>>
    BY <1>5 DEF LookUpTarget, tables, drain
  <2>7. QED
    BY <2>3, <2>4, <2>5, <2>6
<1>6. ASSUME NEW s \in Sockets, WriteRaw(s)
      PROVE  TypeOK'
  <2>1. target[s] \in Sockets
    BY <1>6 DEF WriteRaw, SessionsInv, TargetsOK
  <2>2. heard' \in [Sockets -> SUBSET Sockets]
    BY SMT, <1>6, <2>1 DEF WriteRaw
  <2>3. pc' \in [Sockets -> Points] /\ conn' \in [Sockets -> {"none", "open", "closed"}]
    BY SMT, <1>6 DEF WriteRaw, CloseAndExit, Close, Goto, Points
  <2>4. target' \in [Sockets -> Sockets \cup {Null}]
    BY <1>6 DEF WriteRaw
  <2>5. QED
    BY <1>6, <2>2, <2>3, <2>4 DEF WriteRaw, tables, drain
<1>7. ASSUME NEW s \in Sockets, RemoveSession(s)
      PROVE  TypeOK'
  <2>1. sess[s] # Null
    BY <1>7 DEF SessionsOK, RemoveSession
  <2>2. DetachedPeer(s) \subseteq Sockets
    BY <2>1, EvictedType
  <2>3. hosts' \in [Keys -> Sockets \cup {Null}]
    BY <1>7 DEF RemoveSession, tables
  <2>4. devices' \in [Keys -> Sockets \cup {Null}]
    BY <1>7 DEF RemoveSession, tables
  <2>5. QED
    BY <1>7, <2>2, <2>3, <2>4 DEF RemoveSession, Goto, tables, drain, Points
<1>8. ASSUME NEW s \in Sockets, Finish(s)
      PROVE  TypeOK'
  <2>1. wg - 1 \in Nat
    <3>1. Tracked(s)
      BY <1>8 DEF Finish, Tracked
    <3>2. wg # 0
      BY <3>1 DEF SessionsInv, DrainOK
    <3>3. QED
      BY SMT, <3>2
  <2>2. QED
    BY <1>8, <2>1 DEF Finish, Close, Goto, tables, Points
<1>9. ASSUME NEW r \in Routes, Approve(r)
      PROVE  TypeOK'
  BY <1>9 DEF Approve, tables, drain
<1>10. ASSUME NEW r \in Routes, RevokeDevice(r)
       PROVE  TypeOK'
  <2>1. deviceKey(r) \in Keys
    BY KeyType
  <2>2. QED
    BY ZenonT(40), <1>10, <2>1 DEF RevokeDevice, drain
<1>11. ASSUME BeginShutdown
       PROVE  TypeOK'
  <2>1. (UNION {{hosts[k], devices[k]} : k \in Keys}) \ {Null} \subseteq Sockets
    BY SMT, AllEntries
  <2>2. closers' \subseteq Sockets
    BY <1>11, <2>1 DEF BeginShutdown
  <2>3. QED
    BY <1>11, <2>2 DEF BeginShutdown
<1>12. ASSUME WebSocketsDone
       PROVE  TypeOK'
  BY <1>12 DEF WebSocketsDone, tables
<1>13. ASSUME UNCHANGED vars
       PROVE  TypeOK'
  BY <1>13 DEF vars
<1>14. QED
  BY <1>1, <1>2, <1>3, <1>4, <1>5, <1>6, <1>7, <1>8, <1>9, <1>10, <1>11,
     <1>12, <1>13 DEF Next, HandlerStep, RemoteStep

-----------------------------------------------------------------------------
(* Sessions, tables and the wait group *)

\* The steps of one handler that leave the tables, the rows and the wait group
\* alone.
LocalStep(s) ==
  \/ Accept(s) \/ RefuseWebSocket(s)
  \/ ReadFails(s) \/ ReadBadFrame(s)
  \/ \E f \in Frame : ReadFrame(s, f)
  \/ LookUpTarget(s) \/ WriteRaw(s)
  \/ CloseSocket(s) \/ Disconnect(s)

\* Next, in the order of the proofs.
LEMMA StepCases ==
  ASSUME [Next]_vars
  PROVE  \/ \E s \in Sockets, role \in Roles, r \in Routes :
              Authenticate(s, role, r)
         \/ \E s \in Sockets : LocalStep(s)
         \/ \E s \in Sockets : BeginWebSocket(s)
         \/ \E s \in Sockets : RemoveSession(s)
         \/ \E s \in Sockets : Finish(s)
         \/ \E r \in Routes : Approve(r)
         \/ \E r \in Routes : RevokeDevice(r)
         \/ BeginShutdown
         \/ WebSocketsDone
         \/ UNCHANGED vars
  BY DEF Next, HandlerStep, RemoteStep, LocalStep

\* Where a local step takes its handler.
LEMMA LocalEffect ==
  ASSUME TypeOK, NEW s \in Sockets, LocalStep(s)
  PROVE  /\ UNCHANGED <<hosts, devices, row, sess, wg, shuttingDown, done>>
         /\ \A x \in Sockets \ {s} : pc'[x] = pc[x]
         /\ pc[s] \in {"idle", "admitted", "accepted", "removed", "done"} =>
              pc'[s] = pc[s] \/ pc'[s] \in {"accepted", "done"}
         /\ pc[s] \in LiveAt => pc'[s] \in LiveAt
         /\ pc[s] \in {"removed", "done", "idle"} => pc'[s] = pc[s]
<1> USE DEF TypeOK
<1>1. CASE Accept(s) \/ RefuseWebSocket(s)
  BY <1>1 DEF Accept, RefuseWebSocket, Close, Goto, tables, drain, LiveAt
<1>2. CASE ReadFails(s) \/ ReadBadFrame(s) \/ \E f \in Frame : ReadFrame(s, f)
  BY <1>2 DEF ReadFails, ReadBadFrame, ReadFrame, CloseAndExit, Close, Goto,
              tables, drain, LiveAt
<1>3. CASE LookUpTarget(s)
  BY <1>3 DEF LookUpTarget, CloseAndExit, Close, Goto, tables, drain, LiveAt
<1>4. CASE WriteRaw(s)
  BY <1>4 DEF WriteRaw, CloseAndExit, Close, Goto, tables, drain, LiveAt
<1>5. CASE CloseSocket(s) \/ Disconnect(s)
  BY <1>5 DEF CloseSocket, Disconnect, Close, tables, drain, LiveAt
<1>6. QED
  BY <1>1, <1>2, <1>3, <1>4, <1>5 DEF LocalStep

\* A session is for good, and a handler does not go back.
LEMMA SessionKept ==
  ASSUME SessionsInv, [Next]_vars, NEW x \in Sockets
  PROVE  /\ pc[x] # "idle" => sess'[x] = sess[x] /\ pc'[x] # "idle"
         /\ Started(x) => Started(x)'
         /\ pc'[x] # "idle" => sess'[x] # Null
<1> USE DEF TypeOK, Started, LiveAt
<1>   TypeOK /\ SessionsOK
  BY DEF SessionsInv
<1>1. CASE \E s \in Sockets, role \in Roles, r \in Routes :
             Authenticate(s, role, r)
  <2>1. PICK s \in Sockets, role \in Roles, r \in Routes :
          Authenticate(s, role, r)
    BY <1>1
  <2>2. [role |-> role, route |-> r] # Null
    <3>1. [role |-> role, route |-> r] \in Session
      BY DEF Session
    <3>2. QED
      BY <3>1, SessionsConstants
  <2>3. QED
    BY <2>1, <2>2 DEF Authenticate, Goto, SessionsOK
<1>2. ASSUME NEW s \in Sockets, LocalStep(s)
      PROVE  /\ pc[x] # "idle" => sess'[x] = sess[x] /\ pc'[x] # "idle"
             /\ Started(x) => Started(x)'
             /\ pc'[x] # "idle" => sess'[x] # Null
  BY <1>2, LocalEffect DEF SessionsOK, Points
<1>3. ASSUME NEW s \in Sockets,
             BeginWebSocket(s) \/ RemoveSession(s) \/ Finish(s)
      PROVE  /\ pc[x] # "idle" => sess'[x] = sess[x] /\ pc'[x] # "idle"
             /\ Started(x) => Started(x)'
             /\ pc'[x] # "idle" => sess'[x] # Null
  BY <1>3 DEF BeginWebSocket, RemoveSession, Finish, Goto, SessionsOK
<1>4. ASSUME UNCHANGED <<pc, sess>>
      PROVE  /\ pc[x] # "idle" => sess'[x] = sess[x] /\ pc'[x] # "idle"
             /\ Started(x) => Started(x)'
             /\ pc'[x] # "idle" => sess'[x] # Null
  BY <1>4 DEF SessionsOK
<1>5. QED
  BY <1>1, <1>2, <1>3, <1>4, StepCases
  DEF Approve, RevokeDevice, BeginShutdown, WebSocketsDone, vars

LEMMA SessionsOKStep ==
  ASSUME SessionsInv, [Next]_vars
  PROVE  SessionsOK'
  BY SessionKept DEF SessionsOK

\* An entry that stays in its table stays what it was, unless its own handler
\* runs removeSession or its row is revoked.
LEMMA EntryStays ==
  ASSUME SessionsInv, [Next]_vars, NEW role, NEW k, NEW s \in Sockets,
         EntryOK(role, k, s), pc'[s] \in LiveAt,
         row'[sess[s].route] = "active"
  PROVE  EntryOK(role, k, s)'
<1>1. sess'[s] = sess[s]
  BY SessionKept DEF EntryOK, LiveAt
<1>2. QED
  BY <1>1 DEF EntryOK

\* The step that registers s, and what becomes of the entries of key k.
Registers(s, k) ==
  /\ ~shuttingDown /\ ~shuttingDown'
  /\ sess[s] # Null /\ Key(s) \in Keys
  /\ pc[s] = "accepted" /\ pc'[s] = "reading"
  /\ \A x \in Sockets \ {s} : pc'[x] = pc[x]
  /\ UNCHANGED <<row, sess, frame, target, conn, heard>>
  /\ row[sess[s].route] = "active"
  /\ k # Key(s) => hosts'[k] = hosts[k] /\ devices'[k] = devices[k]
  /\ sess[s].role = "host" => hosts'[Key(s)] = s /\ devices'[Key(s)] = Null
  /\ sess[s].role = "device" =>
       hosts'[Key(s)] = hosts[Key(s)] /\ devices'[Key(s)] = s

\* The tables after a registration.
LEMMA BeginTables ==
  ASSUME SessionsInv, NEW s \in Sockets, BeginWebSocket(s), NEW k \in Keys
  PROVE  Registers(s, k)
<1> USE DEF Registers
<1>   TypeOK /\ SessionsOK
  BY DEF SessionsInv
<1>1. sess[s] # Null /\ Key(s) \in Keys
  BY SessionForm DEF SessionsOK, BeginWebSocket
<1>2. /\ ~shuttingDown /\ ~shuttingDown' /\ row[sess[s].route] = "active"
      /\ pc[s] = "accepted" /\ pc'[s] = "reading"
      /\ \A x \in Sockets \ {s} : pc'[x] = pc[x]
      /\ UNCHANGED <<row, sess, frame, target, conn, heard>>
  BY DEF BeginWebSocket, MayRegister, Goto, TypeOK
<1>3. CASE sess[s].role = "host"
  <2>1. hosts' = [hosts EXCEPT ![Key(s)] = s]
    BY <1>3 DEF BeginWebSocket
  <2>2. devices' = [devices EXCEPT ![Key(s)] = Null]
    <3>1. CASE devices[Key(s)] = Null
      <4>1. devices' = devices
        BY <1>3, <3>1 DEF BeginWebSocket, Displaced
      <4>2. QED
        BY <1>1, <3>1, <4>1 DEF TypeOK
    <3>2. CASE devices[Key(s)] # Null
      BY <1>3, <3>2 DEF BeginWebSocket, Displaced
    <3>3. QED
      BY <3>1, <3>2
  <2>3. QED
    BY <1>1, <1>2, <1>3, <2>1, <2>2 DEF TypeOK
<1>4. CASE sess[s].role # "host"
  <2>1. sess[s].role = "device"
    BY <1>1, <1>4, SessionForm DEF Roles
  <2>2. hosts' = hosts /\ devices' = [devices EXCEPT ![Key(s)] = s]
    BY <1>4, <2>1 DEF BeginWebSocket
  <2>3. QED
    BY <1>1, <1>2, <2>1, <2>2 DEF TypeOK
<1>5. QED
  BY <1>3, <1>4

\* x, the entry of a role before the step, may stay in the table.
MayStay(x) == pc'[x] \in LiveAt /\ row'[sess[x].route] = "active"

\* A step that adds no entry, and keeps only such as may stay.
LEMMA TablesShrink ==
  ASSUME SessionsInv, [Next]_vars,
         shuttingDown' = shuttingDown,
         \A k \in Keys :
           /\ hosts'[k] # Null => hosts'[k] = hosts[k] /\ MayStay(hosts[k])
           /\ devices'[k] # Null =>
                devices'[k] = devices[k] /\ MayStay(devices[k])
  PROVE  TablesOK'
<1>   TypeOK /\ TablesOK
  BY DEF SessionsInv
<1> SUFFICES ASSUME NEW k \in Keys
             PROVE  /\ hosts'[k] # Null => EntryOK("host", k, hosts[k])'
                    /\ devices'[k] # Null => EntryOK("device", k, devices[k])'
                    /\ shuttingDown => hosts'[k] = Null /\ devices'[k] = Null
  BY DEF TablesOK
<1>1. ASSUME NEW role, NEW x \in Sockets, EntryOK(role, k, x), MayStay(x)
      PROVE  EntryOK(role, k, x)'
  BY <1>1, EntryStays DEF MayStay
<1>2. PICK h, d : h = hosts[k] /\ d = devices[k]
  OBVIOUS
<1>3. ASSUME hosts'[k] # Null
      PROVE  EntryOK("host", k, hosts[k])'
  <2>1. hosts'[k] = h /\ h \in Sockets /\ EntryOK("host", k, h) /\ MayStay(h)
    BY <1>2, <1>3 DEF TypeOK, TablesOK
  <2>2. EntryOK("host", k, h)'
    BY <1>1, <2>1
  <2>3. QED
    BY <2>1, <2>2 DEF EntryOK
<1>4. ASSUME devices'[k] # Null
      PROVE  EntryOK("device", k, devices[k])'
  <2>1. devices'[k] = d /\ d \in Sockets /\ EntryOK("device", k, d) /\ MayStay(d)
    BY <1>2, <1>4 DEF TypeOK, TablesOK
  <2>2. EntryOK("device", k, d)'
    BY <1>1, <2>1
  <2>3. QED
    BY <2>1, <2>2 DEF EntryOK
<1>5. shuttingDown => hosts'[k] = Null /\ devices'[k] = Null
  BY DEF TablesOK
<1>6. QED
  BY <1>3, <1>4, <1>5

\* A registration adds one entry.
LEMMA TablesGrow ==
  ASSUME SessionsInv, [Next]_vars, NEW s \in Sockets, BeginWebSocket(s)
  PROVE  TablesOK'
<1>0. TypeOK /\ TablesOK
  BY DEF SessionsInv
<1> SUFFICES ASSUME NEW k \in Keys
             PROVE  /\ hosts'[k] # Null => EntryOK("host", k, hosts[k])'
                    /\ devices'[k] # Null => EntryOK("device", k, devices[k])'
                    /\ shuttingDown' => hosts'[k] = Null /\ devices'[k] = Null
  BY DEF TablesOK
<1>1. /\ ~shuttingDown /\ ~shuttingDown'
      /\ sess[s] # Null /\ Key(s) \in Keys
      /\ pc[s] = "accepted" /\ pc'[s] = "reading"
      /\ \A x \in Sockets \ {s} : pc'[x] = pc[x]
      /\ UNCHANGED <<row, sess, frame, target, conn, heard>>
      /\ row[sess[s].route] = "active"
      /\ k # Key(s) => hosts'[k] = hosts[k] /\ devices'[k] = devices[k]
      /\ sess[s].role = "host" => hosts'[Key(s)] = s /\ devices'[Key(s)] = Null
      /\ sess[s].role = "device" =>
           hosts'[Key(s)] = hosts[Key(s)] /\ devices'[Key(s)] = s
  <2>1. Registers(s, k)
    BY BeginTables
  <2>2. QED
    BY <2>1 DEF Registers
<1>2. sess[s].role \in Roles
  BY <1>0, <1>1, SessionForm
<1>3. ASSUME NEW role, k = Key(s), sess[s].role = role
      PROVE  EntryOK(role, k, s)'
  BY <1>1, <1>3 DEF EntryOK, LiveAt, Key
<1>4. ASSUME NEW role, NEW x \in Sockets, EntryOK(role, k, x)
      PROVE  EntryOK(role, k, x)'
  <2>1. x # s /\ pc'[x] = pc[x]
    BY <1>1, <1>4 DEF EntryOK, LiveAt
  <2>2. pc'[x] \in LiveAt /\ row'[sess[x].route] = "active"
    BY <1>1, <1>4, <2>1 DEF EntryOK
  <2>3. QED
    BY <1>4, <2>2, EntryStays
<1>5. PICK h, d : h = hosts[k] /\ d = devices[k]
  OBVIOUS
<1>6. /\ h # Null => h \in Sockets /\ EntryOK("host", k, h)
      /\ d # Null => d \in Sockets /\ EntryOK("device", k, d)
  BY <1>0, <1>5 DEF TypeOK, TablesOK
<1>7. /\ h # Null => EntryOK("host", k, h)'
      /\ d # Null => EntryOK("device", k, d)'
  BY <1>4, <1>6
<1>8. ASSUME hosts'[k] # Null
      PROVE  EntryOK("host", k, hosts[k])'
  <2>1. CASE hosts'[k] = h
    BY <1>7, <1>8, <2>1 DEF EntryOK
  <2>2. CASE hosts'[k] # h
    <3>1. k = Key(s) /\ sess[s].role = "host" /\ hosts'[k] = s
      BY <1>1, <1>2, <1>5, <2>2 DEF Roles
    <3>2. QED
      BY <1>3, <3>1 DEF EntryOK
  <2>3. QED
    BY <2>1, <2>2
<1>9. ASSUME devices'[k] # Null
      PROVE  EntryOK("device", k, devices[k])'
  <2>1. CASE devices'[k] = d
    BY <1>7, <1>9, <2>1 DEF EntryOK
  <2>2. CASE devices'[k] # d
    <3>1. k = Key(s) /\ sess[s].role = "device" /\ devices'[k] = s
      BY <1>1, <1>2, <1>5, <1>9, <2>2 DEF Roles
    <3>2. QED
      BY <1>3, <3>1 DEF EntryOK
  <2>3. QED
    BY <2>1, <2>2
<1>10. QED
  BY <1>1, <1>8, <1>9

\* What removeSession does: both entries of its key go, if it owns one.
LEMMA RemoveTables ==
  ASSUME SessionsInv, NEW s \in Sockets, RemoveSession(s), NEW k \in Keys
  PROVE  /\ sess[s] # Null /\ Key(s) \in Keys
         /\ pc[s] = "exiting" /\ pc'[s] = "removed"
         /\ \A x \in Sockets \ {s} : pc'[x] = pc[x]
         /\ UNCHANGED <<row, sess, shuttingDown>>
         /\ hosts'[k] # Null => hosts'[k] = hosts[k] /\ hosts[k] # s
         /\ devices'[k] # Null => devices'[k] = devices[k] /\ devices[k] # s
<1>   TypeOK /\ SessionsOK /\ TablesOK
  BY DEF SessionsInv
<1>1. sess[s] # Null /\ Key(s) \in Keys /\ sess[s].role \in Roles
  BY SessionForm DEF SessionsOK, RemoveSession
<1>2. /\ pc[s] = "exiting" /\ pc'[s] = "removed"
      /\ \A x \in Sockets \ {s} : pc'[x] = pc[x]
      /\ UNCHANGED <<row, sess, shuttingDown>>
  BY DEF RemoveSession, Goto, TypeOK, drain
<1>3. /\ hosts[k] = s => k = Key(s) /\ Current(s)
      /\ devices[k] = s => k = Key(s) /\ Current(s)
  BY SessionsConstants DEF TablesOK, EntryOK, Current, Entry, Key
<1>4. CASE Current(s)
  <2>1. /\ hosts' = [hosts EXCEPT ![Key(s)] = Null]
        /\ devices' = [devices EXCEPT ![Key(s)] = Null]
    BY <1>4 DEF RemoveSession, OwnsEntry
  <2>2. QED
    BY <1>1, <1>2, <1>3, <2>1 DEF TypeOK
<1>5. CASE ~Current(s)
  <2>1. hosts' = hosts /\ devices' = devices
    BY <1>5 DEF RemoveSession, OwnsEntry, tables
  <2>2. QED
    BY <1>1, <1>2, <1>3, <1>5, <2>1
<1>6. QED
  BY <1>4, <1>5

\* The tables of the next state.
LEMMA TablesOKStep ==
  ASSUME SessionsInv, [Next]_vars
  PROVE  TablesOK'
<1>   TypeOK /\ TablesOK
  BY DEF SessionsInv
<1>1. \A k \in Keys :
        /\ hosts[k] # Null =>
             /\ hosts[k] \in Sockets /\ pc[hosts[k]] \in LiveAt
             /\ sess[hosts[k]].route \in Routes
             /\ row[sess[hosts[k]].route] = "active"
             /\ deviceKey(sess[hosts[k]].route) = k
        /\ devices[k] # Null =>
             /\ devices[k] \in Sockets /\ pc[devices[k]] \in LiveAt
             /\ sess[devices[k]].route \in Routes
             /\ row[sess[devices[k]].route] = "active"
             /\ deviceKey(sess[devices[k]].route) = k
  <2>1. TAKE k \in Keys
  <2>2. /\ hosts[k] # Null => hosts[k] \in Sockets /\ EntryOK("host", k, hosts[k])
        /\ devices[k] # Null =>
             devices[k] \in Sockets /\ EntryOK("device", k, devices[k])
    BY DEF TypeOK, TablesOK
  <2>3. QED
    BY <2>2, SessionForm DEF EntryOK
<1>2. ASSUME UNCHANGED <<hosts, devices, row, shuttingDown>>,
             \A x \in Sockets : pc[x] \in LiveAt => pc'[x] \in LiveAt
      PROVE  TablesOK'
  BY <1>1, <1>2, TablesShrink DEF MayStay
<1>3. ASSUME NEW s \in Sockets, NEW role \in Roles, NEW r \in Routes,
             Authenticate(s, role, r)
      PROVE  TablesOK'
  BY <1>2, <1>3 DEF Authenticate, Goto, tables, drain, TypeOK, LiveAt
<1>4. ASSUME NEW s \in Sockets, LocalStep(s)
      PROVE  TablesOK'
  BY <1>2, <1>4, LocalEffect
<1>5. ASSUME NEW s \in Sockets, BeginWebSocket(s)
      PROVE  TablesOK'
  BY <1>5, TablesGrow
<1>6. ASSUME NEW s \in Sockets, RemoveSession(s)
      PROVE  TablesOK'
  <2>1. ASSUME NEW k \in Keys
        PROVE  /\ hosts'[k] # Null => hosts'[k] = hosts[k] /\ MayStay(hosts[k])
               /\ devices'[k] # Null =>
                    devices'[k] = devices[k] /\ MayStay(devices[k])
    <3>1. /\ \A x \in Sockets \ {s} : pc'[x] = pc[x]
          /\ row' = row
          /\ hosts'[k] # Null => hosts'[k] = hosts[k] /\ hosts[k] # s
          /\ devices'[k] # Null => devices'[k] = devices[k] /\ devices[k] # s
      BY <1>6, RemoveTables
    <3>2. hosts'[k] # Null => hosts'[k] = hosts[k] /\ MayStay(hosts[k])
      BY <1>1, <3>1 DEF MayStay
    <3>3. devices'[k] # Null => devices'[k] = devices[k] /\ MayStay(devices[k])
      BY <1>1, <3>1 DEF MayStay
    <3>4. QED
      BY <3>2, <3>3
  <2>2. shuttingDown' = shuttingDown
    BY <1>6 DEF RemoveSession, drain
  <2>3. QED
    BY <2>1, <2>2, TablesShrink
<1>7. ASSUME NEW s \in Sockets, Finish(s)
      PROVE  TablesOK'
  BY <1>2, <1>7 DEF Finish, Goto, tables, TypeOK, LiveAt
<1>8. ASSUME NEW r \in Routes, Approve(r)
      PROVE  TablesOK'
  <2>1. /\ UNCHANGED <<hosts, devices, pc, shuttingDown>>
        /\ \A q \in Routes : row[q] = "active" => row'[q] = "active"
    BY <1>8 DEF Approve, tables, drain, TypeOK
  <2>2. QED
    BY <1>1, <2>1, TablesShrink DEF MayStay
<1>9. ASSUME NEW r \in Routes, RevokeDevice(r)
      PROVE  TablesOK'
  <2>1. UNCHANGED <<pc, shuttingDown>>
    BY <1>9 DEF RevokeDevice, drain
  <2>2. \A q \in Routes : deviceKey(q) # deviceKey(r) => row'[q] = row[q]
    BY <1>9 DEF RevokeDevice, TypeOK
  <2>3. \A k \in Keys :
          /\ hosts'[k] # Null => hosts'[k] = hosts[k] /\ k # deviceKey(r)
          /\ devices'[k] # Null => devices'[k] = devices[k] /\ k # deviceKey(r)
    BY <1>9 DEF RevokeDevice, TypeOK
  <2>4. QED
    BY ZenonT(40), <1>1, <2>1, <2>2, <2>3, TablesShrink DEF MayStay
<1>10. ASSUME BeginShutdown
       PROVE  TablesOK'
  BY <1>10 DEF BeginShutdown, TablesOK
<1>11. ASSUME WebSocketsDone \/ UNCHANGED vars
       PROVE  TablesOK'
  BY <1>2, <1>11 DEF WebSocketsDone, tables, vars
<1>12. QED
  BY <1>3, <1>4, <1>5, <1>6, <1>7, <1>8, <1>9, <1>10, <1>11, StepCases

-----------------------------------------------------------------------------
(* Frames, targets and talkers *)

\* How a handler comes to hold a frame or a target, and how a socket comes to
\* be heard.
LEMMA WaysIn ==
  ASSUME SessionsInv, [Next]_vars, NEW x \in Sockets, NEW y \in Sockets
  PROVE  /\ pc'[x] = "parsed" =>
              \/ pc[x] = "parsed" /\ frame'[x] = frame[x]
              \/ \E f \in Frame : ReadFrame(x, f)
         /\ pc'[x] = "writing" =>
              \/ pc[x] = "writing" /\ target'[x] = target[x]
              \/ LookUpTarget(x)
         /\ x \in heard'[y] =>
              x \in heard[y] \/ (pc[x] = "writing" /\ target[x] = y)
<1> USE DEF TypeOK
<1>   TypeOK
  BY DEF SessionsInv
<1>1. ASSUME NEW s \in Sockets, NEW role \in Roles, NEW r \in Routes,
             Authenticate(s, role, r)
      PROVE  /\ UNCHANGED <<frame, target, heard>>
             /\ pc'[x] \in {"parsed", "writing"} => pc[x] = pc'[x]
  BY <1>1 DEF Authenticate, Goto
<1>2. ASSUME NEW s \in Sockets,
             \/ Accept(s) \/ RefuseWebSocket(s) \/ ReadFails(s)
             \/ ReadBadFrame(s) \/ CloseSocket(s) \/ Disconnect(s)
             \/ BeginWebSocket(s) \/ RemoveSession(s) \/ Finish(s)
      PROVE  /\ UNCHANGED <<frame, target, heard>>
             /\ pc'[x] \in {"parsed", "writing"} => pc[x] = pc'[x]
  BY <1>2 DEF Accept, RefuseWebSocket, ReadFails, ReadBadFrame,
       CloseSocket, Disconnect, BeginWebSocket, RemoveSession, Finish,
       CloseAndExit, Goto
<1>3. ASSUME NEW s \in Sockets, NEW f \in Frame, ReadFrame(s, f), x # s
      PROVE  /\ pc'[x] = pc[x] /\ frame'[x] = frame[x]
             /\ UNCHANGED <<target, heard>>
  BY <1>3 DEF ReadFrame, Goto
<1>4. ASSUME NEW f \in Frame, ReadFrame(x, f)
      PROVE  pc'[x] = "parsed" /\ UNCHANGED <<target, heard>>
  BY <1>4 DEF ReadFrame, Goto
<1>5. ASSUME NEW s \in Sockets, LookUpTarget(s)
      PROVE  /\ x # s => /\ pc'[x] = pc[x] /\ frame'[x] = frame[x]
                         /\ target'[x] = target[x]
             /\ pc'[s] # "parsed" /\ UNCHANGED heard
  BY <1>5 DEF LookUpTarget, CloseAndExit, Goto
<1>6. ASSUME NEW s \in Sockets, WriteRaw(s)
      PROVE  /\ x # s => pc'[x] = pc[x] /\ target'[x] = target[x]
             /\ pc'[s] \notin {"parsed", "writing"} /\ UNCHANGED frame
             /\ x \in heard'[y] =>
                  x \in heard[y] \/ (x = s /\ pc[s] = "writing" /\ target[s] = y)
  BY SMT, <1>6 DEF WriteRaw, CloseAndExit, Goto
<1>7. ASSUME \/ \E r \in Routes : Approve(r) \/ RevokeDevice(r)
             \/ BeginShutdown \/ WebSocketsDone \/ UNCHANGED vars
      PROVE  UNCHANGED <<frame, target, heard, pc>>
  BY <1>7 DEF Approve, RevokeDevice, BeginShutdown, WebSocketsDone, vars
<1>8. QED
  BY <1>1, <1>2, <1>3, <1>4, <1>5, <1>6, <1>7 DEF Next, HandlerStep, RemoteStep

LEMMA FramesOKStep ==
  ASSUME SessionsInv, [Next]_vars
  PROVE  FramesOK'
<1> SUFFICES ASSUME NEW s \in Sockets, pc'[s] = "parsed"
             PROVE  frame'[s] # Null /\ validateSenderFrame(s, frame[s])'
  BY DEF FramesOK
<1>0. TypeOK /\ FramesOK
  BY DEF SessionsInv
<1>1. CASE pc[s] = "parsed" /\ frame'[s] = frame[s]
  BY <1>0, <1>1, SessionKept DEF FramesOK, validateSenderFrame
<1>2. CASE \E f \in Frame : ReadFrame(s, f)
  BY SMT, <1>0, <1>2, SessionsConstants DEF ReadFrame, validateSenderFrame, TypeOK
<1>3. QED
  BY <1>1, <1>2, WaysIn

\* The socket that routeFrame finds for the frame it has read is the current
\* session of the other role, and the sender is current itself.
LEMMA LookedUp ==
  ASSUME SessionsInv, NEW s \in Sockets, LookUpTarget(s), pc'[s] = "writing"
  PROVE  /\ sess[s] # Null /\ Key(s) \in Keys /\ sess[s].role \in Roles
         /\ Current(s)
         /\ target'[s] = Entry(Peer(sess[s].role), Key(s))
         /\ target'[s] \in Sockets /\ target'[s] # Null
         /\ UNCHANGED <<tables, sess, heard>>
         /\ \A x \in Sockets \ {s} : pc'[x] = pc[x] /\ target'[x] = target[x]
<1>   TypeOK /\ SessionsOK /\ FramesOK
  BY DEF SessionsInv
<1>1. pc[s] = "parsed"
  BY DEF LookUpTarget
<1>2. /\ sess[s] # Null /\ Key(s) \in Keys /\ sess[s].role \in Roles
      /\ frame[s].route = sess[s].route
      /\ sess[s].role = "host" => frame[s].direction = "windows_to_mobile"
      /\ sess[s].role = "device" => frame[s].direction = "mobile_to_windows"
  BY <1>1, SessionForm DEF SessionsOK, FramesOK, validateSenderFrame
<1>3. /\ Entry(sess[s].role, Key(s)) = s
      /\ target' = [target EXCEPT ![s] = Entry(Peer(sess[s].role), Key(s))]
      /\ Entry(Peer(sess[s].role), Key(s)) # Null
      /\ Goto(s, "writing")
  <2>1. ~Goto(s, "exiting")
    BY DEF Goto, TypeOK
  <2>2. CASE sess[s].role = "host"
    BY <1>2, <2>1, <2>2 DEF LookUpTarget, MayRoute, CloseAndExit, Key, Entry, Peer
  <2>3. CASE sess[s].role = "device"
    BY <1>2, <2>1, <2>3 DEF LookUpTarget, MayRoute, CloseAndExit, Key, Entry, Peer
  <2>4. QED
    BY <1>2, <2>2, <2>3 DEF Roles
<1>4. Entry(Peer(sess[s].role), Key(s)) \in Sockets
  BY <1>2, <1>3 DEF Entry, TypeOK
<1>5. UNCHANGED <<tables, sess, heard>>
  BY DEF LookUpTarget
<1>6. \A x \in Sockets \ {s} : pc'[x] = pc[x] /\ target'[x] = target[x]
  BY <1>3 DEF Goto, TypeOK
<1>7. target'[s] = Entry(Peer(sess[s].role), Key(s))
  BY <1>3 DEF TypeOK
<1>8. QED
  BY <1>2, <1>3, <1>4, <1>5, <1>6, <1>7 DEF Current

\* Peers stay peers.
LEMMA PeersStay ==
  ASSUME SessionsInv, [Next]_vars, NEW s \in Sockets, NEW y \in Sockets,
         PeerOf(s, y)
  PROVE  PeerOf(s, y)'
<1>1. Started(s) /\ Started(y)
  BY DEF PeerOf
<1>2. pc[s] # "idle" /\ pc[y] # "idle"
  BY <1>1 DEF Started, LiveAt
<1>3. sess'[s] = sess[s] /\ sess'[y] = sess[y] /\ Started(s)' /\ Started(y)'
  BY <1>1, <1>2, SessionKept
<1>4. QED
  BY <1>3 DEF PeerOf

LEMMA TargetsOKStep ==
  ASSUME SessionsInv, [Next]_vars
  PROVE  TargetsOK'
<1> SUFFICES ASSUME NEW s \in Sockets, pc'[s] = "writing"
             PROVE  target'[s] # Null /\ PeerOf(s, target[s])'
  BY DEF TargetsOK
<1>0. TypeOK /\ TargetsOK /\ TablesOK
  BY DEF SessionsInv
<1>1. CASE pc[s] = "writing" /\ target'[s] = target[s]
  <2>1. PICK t : t = target[s]
    OBVIOUS
  <2>2. t \in Sockets /\ t # Null /\ PeerOf(s, t)
    BY <1>0, <1>1, <2>1, SessionsConstants DEF TargetsOK, TypeOK
  <2>3. PeerOf(s, t)'
    BY <2>2, PeersStay
  <2>4. QED
    BY <1>1, <2>1, <2>2, <2>3 DEF PeerOf, Started
<1>2. CASE LookUpTarget(s)
  <2>1. /\ sess[s] # Null /\ Key(s) \in Keys /\ sess[s].role \in Roles
        /\ target'[s] = Entry(Peer(sess[s].role), Key(s))
        /\ target'[s] \in Sockets /\ target'[s] # Null
    BY <1>2, LookedUp
  <2>2. PICK t : t = Entry(Peer(sess[s].role), Key(s))
    OBVIOUS
  <2>3. EntryOK(Peer(sess[s].role), Key(s), t)
    BY <1>0, <2>1, <2>2 DEF TablesOK, Entry, Peer, Roles
  <2>4. PeerOf(s, t)
    <3>1. Started(t)
      BY <2>3 DEF EntryOK, Started
    <3>2. Started(s)
      BY <1>2 DEF LookUpTarget, Started, LiveAt
    <3>3. QED
      BY <2>3, <3>1, <3>2 DEF PeerOf, EntryOK, Key
  <2>5. PeerOf(s, t)'
    BY <2>1, <2>2, <2>4, PeersStay
  <2>6. QED
    BY <2>1, <2>2, <2>5 DEF PeerOf, Started
<1>3. QED
  BY <1>1, <1>2, WaysIn

LEMMA HeardOKStep ==
  ASSUME SessionsInv, [Next]_vars
  PROVE  HeardOK'
<1>0. TypeOK /\ TargetsOK /\ HeardOK /\ TypeOK'
  BY TypeStep DEF SessionsInv
<1> SUFFICES ASSUME NEW s \in Sockets, NEW x \in heard'[s]
             PROVE  PeerOf(x, s)'
  BY DEF HeardOK
<1>1. x \in Sockets
  BY <1>0 DEF TypeOK
<1>2. x \in heard[s] \/ (pc[x] = "writing" /\ target[x] = s)
  BY <1>1, WaysIn
<1>3. PeerOf(x, s)
  BY <1>0, <1>1, <1>2 DEF HeardOK, TargetsOK
<1>4. QED
  BY <1>1, <1>3, PeersStay

\* A device in the table keeps the host it has there; another host's
\* registration takes the device out.
LEMMA DeviceKeepsHost ==
  ASSUME SessionsInv, [Next]_vars, NEW k \in Keys, NEW d \in Sockets,
         devices'[k] = d
  PROVE  (devices[k] = d /\ hosts'[k] = hosts[k]) \/ BeginWebSocket(d)
<1>   TypeOK /\ d # Null
  BY SessionsConstants DEF SessionsInv
<1>1. ASSUME NEW s \in Sockets, BeginWebSocket(s)
      PROVE  (devices[k] = d /\ hosts'[k] = hosts[k]) \/ BeginWebSocket(d)
  <2>1. /\ sess[s] # Null /\ Key(s) \in Keys
        /\ k # Key(s) => hosts'[k] = hosts[k] /\ devices'[k] = devices[k]
        /\ sess[s].role = "host" => hosts'[Key(s)] = s /\ devices'[Key(s)] = Null
        /\ sess[s].role = "device" =>
             hosts'[Key(s)] = hosts[Key(s)] /\ devices'[Key(s)] = s
    <3>1. Registers(s, k)
      BY <1>1, BeginTables
    <3>2. QED
      BY <3>1 DEF Registers
  <2>2. sess[s].role \in {"host", "device"}
    BY <2>1, SessionForm DEF Roles
  <2>3. CASE k = Key(s)
    BY <1>1, <2>1, <2>2, <2>3
  <2>4. CASE k # Key(s)
    BY <2>1, <2>4
  <2>5. QED
    BY <2>3, <2>4
<1>2. ASSUME NEW s \in Sockets, RemoveSession(s)
      PROVE  devices[k] = d /\ hosts'[k] = hosts[k]
  <2>1. sess[s] # Null /\ Key(s) \in Keys
    BY <1>2, SessionForm DEF SessionsInv, SessionsOK, RemoveSession
  <2>2. QED
    BY <1>2, <2>1 DEF RemoveSession, tables, TypeOK
<1>3. ASSUME NEW r \in Routes, RevokeDevice(r)
      PROVE  devices[k] = d /\ hosts'[k] = hosts[k]
  BY <1>3 DEF RevokeDevice, TypeOK
<1>4. ASSUME BeginShutdown
      PROVE  FALSE
  BY <1>4 DEF BeginShutdown
<1>5. ASSUME UNCHANGED tables
      PROVE  devices[k] = d /\ hosts'[k] = hosts[k]
  BY <1>5 DEF tables
<1>6. ASSUME NEW s \in Sockets, LocalStep(s)
      PROVE  UNCHANGED tables
  BY <1>6, LocalEffect DEF tables
<1>7. QED
  BY <1>1, <1>2, <1>3, <1>4, <1>5, <1>6, StepCases
  DEF Authenticate, Finish, Approve, WebSocketsDone, vars, tables

\* A talker is an old one, or has just looked its device up.
LEMMA NewTalker ==
  ASSUME SessionsInv, [Next]_vars, NEW s \in Sockets, NEW x \in Talkers(s)'
  PROVE  /\ x \in Sockets
         /\ \/ x \in Talkers(s)
            \/ LookUpTarget(x) /\ pc'[x] = "writing" /\ target'[x] = s
<1>1. x \in Sockets
  BY TypeStep DEF Talkers, TypeOK
<1>2. QED
  BY <1>1, WaysIn DEF Talkers

\* Whoever has a talker is past its registration.
LEMMA TalkedTo ==
  ASSUME SessionsInv, NEW s \in Sockets, NEW x \in Talkers(s)
  PROVE  x \in Sockets /\ PeerOf(x, s)
  BY DEF SessionsInv, Talkers, HeardOK, TargetsOK, TypeOK

LEMMA OneTalkerStep ==
  ASSUME SessionsInv, [Next]_vars
  PROVE  OneTalker'
<1>   TypeOK /\ TablesOK /\ OneTalker
  BY DEF SessionsInv
<1> SUFFICES ASSUME NEW s \in Sockets, sess'[s] # Null, sess'[s].role = "device"
             PROVE  /\ \A x, y \in Talkers(s)' : x = y
                    /\ Key(s)' \in Keys /\ devices'[Key(s)'] = s =>
                         \A x \in Talkers(s)' : hosts'[Key(s)'] = x
  BY DEF OneTalker, Keys
<1>1. CASE Talkers(s)' \subseteq Talkers(s)
  <2> SUFFICES ASSUME NEW w \in Talkers(s)
               PROVE  /\ \A x, y \in Talkers(s)' : x = y
                      /\ Key(s)' \in Keys /\ devices'[Key(s)'] = s =>
                           \A x \in Talkers(s)' : hosts'[Key(s)'] = x
    BY <1>1
  <2>1. Started(s)
    BY TalkedTo DEF PeerOf
  <2>2. pc[s] # "idle" /\ pc[s] # "accepted"
    BY <2>1 DEF Started, LiveAt
  <2>3. sess'[s] = sess[s] /\ Key(s)' = Key(s)
    BY <2>2, SessionKept DEF Key
  <2>4. /\ \A x, y \in Talkers(s) : x = y
        /\ Key(s) \in Keys /\ devices[Key(s)] = s =>
             \A x \in Talkers(s) : hosts[Key(s)] = x
    BY <2>3 DEF OneTalker
  <2>5. ASSUME Key(s) \in Keys, devices'[Key(s)] = s
        PROVE  devices[Key(s)] = s /\ hosts'[Key(s)] = hosts[Key(s)]
    <3>1. ~BeginWebSocket(s)
      BY <2>2 DEF BeginWebSocket
    <3>2. QED
      BY <2>5, <3>1, DeviceKeepsHost
  <2>6. QED
    BY <1>1, <2>3, <2>4, <2>5
<1>2. ASSUME NEW z \in Sockets, LookUpTarget(z), pc'[z] = "writing",
             target'[z] = s
      PROVE  /\ \A x, y \in Talkers(s)' : x = y
             /\ Key(s)' \in Keys /\ devices'[Key(s)'] = s =>
                  \A x \in Talkers(s)' : hosts'[Key(s)'] = x
  <2>1. /\ sess[z] # Null /\ Key(z) \in Keys /\ sess[z].role \in Roles
        /\ Entry(sess[z].role, Key(z)) = z
        /\ s = Entry(Peer(sess[z].role), Key(z))
        /\ s # Null
        /\ UNCHANGED <<hosts, devices, sess>>
        /\ \A x \in Sockets \ {z} : pc'[x] = pc[x]
    BY <1>2, LookedUp DEF Current, tables
  <2>2. EntryOK(Peer(sess[z].role), Key(z), s)
    BY <2>1 DEF TablesOK, Entry, Peer, Roles
  <2>3. sess[z].role = "host" /\ Key(s) = Key(z)
    BY <2>1, <2>2 DEF EntryOK, Peer, Key, Roles
  <2>4. hosts[Key(z)] = z /\ devices[Key(z)] = s
    BY <2>1, <2>3 DEF Entry, Peer
  <2>5. \A x \in Talkers(s) : x = z
    BY <2>1, <2>3, <2>4 DEF OneTalker
  <2>6. ASSUME NEW x \in Talkers(s)'
        PROVE  x = z
    <3>1. CASE x \in Talkers(s)
      BY <2>5, <3>1
    <3>2. CASE LookUpTarget(x) /\ pc'[x] = "writing" /\ x \in Sockets
      BY <2>1, <3>2 DEF LookUpTarget
    <3>3. QED
      BY <2>6, <3>1, <3>2, NewTalker
  <2>7. Key(s)' = Key(z)
    BY <2>1, <2>3 DEF Key
  <2>8. QED
    BY <2>1, <2>4, <2>6, <2>7
<1>3. QED
  BY <1>1, <1>2, NewTalker

-----------------------------------------------------------------------------
(* Evicted sessions *)

ReadingAt == {"reading", "parsed", "writing"}

\* A close that is on its way stays so until it is done, and no connection of
\* a registered session opens again.
LEMMA ClosingStays ==
  ASSUME SessionsInv, [Next]_vars, NEW x \in Sockets, pc[x] \in ReadingAt
  PROVE  conn[x] # "open" \/ x \in closers => conn'[x] # "open" \/ x \in closers'
<1> USE DEF TypeOK, ReadingAt
<1>   TypeOK
  BY DEF SessionsInv
<1>1. ASSUME NEW s \in Sockets,
             \/ \E role \in Roles, r \in Routes : Authenticate(s, role, r)
             \/ \E f \in Frame : ReadFrame(s, f)
             \/ ReadFails(s)
      PROVE  UNCHANGED <<conn, closers>>
  BY <1>1 DEF Authenticate, ReadFrame, ReadFails
<1>2. ASSUME NEW s \in Sockets, Accept(s)
      PROVE  x # s /\ conn'[x] = conn[x] /\ UNCHANGED closers
  BY <1>2 DEF Accept
<1>3. ASSUME NEW s \in Sockets,
             \/ RefuseWebSocket(s) \/ ReadBadFrame(s) \/ Finish(s)
             \/ Disconnect(s) \/ LookUpTarget(s) \/ WriteRaw(s)
      PROVE  UNCHANGED closers /\ (conn'[x] = conn[x] \/ conn'[x] = "closed")
  BY <1>3 DEF RefuseWebSocket, ReadBadFrame, Finish, Disconnect,
       LookUpTarget, WriteRaw, CloseAndExit, Close
<1>4. ASSUME NEW s \in Sockets, CloseSocket(s)
      PROVE  conn'[x] # "open" \/ x \in closers' \/ (x \notin closers /\ conn'[x] = conn[x])
  BY <1>4 DEF CloseSocket, Close
<1>5. ASSUME \/ \E s \in Sockets : BeginWebSocket(s) \/ RemoveSession(s)
             \/ \E r \in Routes : Approve(r) \/ RevokeDevice(r)
             \/ BeginShutdown \/ WebSocketsDone \/ UNCHANGED vars
      PROVE  UNCHANGED conn /\ closers \subseteq closers'
  BY <1>5 DEF BeginWebSocket, RemoveSession, Approve, RevokeDevice,
       BeginShutdown, WebSocketsDone, vars
<1>6. QED
  BY <1>1, <1>2, <1>3, <1>4, <1>5 DEF Next, HandlerStep, RemoteStep

\* An entry leaves its table only by its own removeSession, or into closers.
LEMMA LeavesToClose ==
  ASSUME SessionsInv, [Next]_vars, NEW role \in Roles, NEW k \in Keys,
         NEW e \in Sockets, Entry(role, k) = e, Entry(role, k)' # e
  PROVE  e \in closers' \/ RemoveSession(e)
<1>   TypeOK /\ TablesOK /\ SessionsOK /\ e # Null
  BY SessionsConstants DEF SessionsInv
<1>1. (role = "host" /\ hosts[k] = e /\ hosts'[k] # e)
        \/ (role = "device" /\ devices[k] = e /\ devices'[k] # e)
  BY DEF Entry, Roles
<1>2. ASSUME UNCHANGED tables
      PROVE  FALSE
  BY <1>1, <1>2 DEF tables
<1>3. ASSUME NEW s \in Sockets, LocalStep(s)
      PROVE  UNCHANGED tables
  BY <1>3, LocalEffect DEF tables
<1>4. ASSUME NEW s \in Sockets, BeginWebSocket(s)
      PROVE  e \in closers'
  <2>1. /\ sess[s] # Null /\ Key(s) \in Keys
        /\ k # Key(s) => hosts'[k] = hosts[k] /\ devices'[k] = devices[k]
        /\ sess[s].role = "device" => hosts'[Key(s)] = hosts[Key(s)]
    <3>1. Registers(s, k)
      BY <1>4, BeginTables
    <3>2. QED
      BY <3>1 DEF Registers
  <2>2. k = Key(s) /\ (sess[s].role = "host" \/ role = "device")
    BY <1>1, <2>1, SessionForm DEF Roles
  <2>3. e \in Displaced(s)
    BY <1>1, <2>2 DEF Displaced
  <2>4. QED
    BY <1>4, <2>3 DEF BeginWebSocket
<1>5. ASSUME NEW s \in Sockets, RemoveSession(s)
      PROVE  e \in closers' \/ e = s
  <2>1. sess[s] # Null /\ Key(s) \in Keys /\ sess[s].role \in {"host", "device"}
    BY <1>5, SessionForm DEF SessionsOK, RemoveSession, Roles
  <2>2. OwnsEntry(s)
    BY <1>2, <1>5 DEF RemoveSession
  <2>3. k = Key(s)
    BY <1>1, <1>5, <2>2 DEF RemoveSession, TypeOK
  <2>4. CASE sess[s].role = role
    BY <2>2, <2>3, <2>4 DEF OwnsEntry, Current
  <2>5. CASE sess[s].role # role
    <3>1. Peer(sess[s].role) = role
      BY <2>1, <2>5 DEF Peer, Roles
    <3>2. e \in DetachedPeer(s)
      BY <2>3, <3>1 DEF DetachedPeer
    <3>3. QED
      BY <1>5, <2>2, <3>2 DEF RemoveSession
  <2>6. QED
    BY <2>4, <2>5
<1>6. ASSUME NEW r \in Routes, RevokeDevice(r)
      PROVE  e \in closers'
  <2>1. k = deviceKey(r)
    BY <1>1, <1>6 DEF RevokeDevice, TypeOK
  <2>2. QED
    BY <1>1, <1>6, <2>1 DEF RevokeDevice
<1>7. ASSUME BeginShutdown
      PROVE  e \in closers'
  <2>1. e \in UNION {{hosts[j], devices[j]} : j \in Keys}
    BY <1>1, AllEntries
  <2>2. QED
    BY <1>7, <2>1 DEF BeginShutdown
<1>8. QED
  BY <1>2, <1>3, <1>4, <1>5, <1>6, <1>7, StepCases
  DEF Authenticate, Finish, Approve, WebSocketsDone, vars, tables

\* A handler reads only after its registration.
LEMMA ReadingSince ==
  ASSUME SessionsInv, [Next]_vars, NEW x \in Sockets, pc'[x] \in ReadingAt
  PROVE  pc[x] \in ReadingAt \/ BeginWebSocket(x)
<1> USE DEF TypeOK, ReadingAt
<1>   TypeOK
  BY DEF SessionsInv
<1>1. ASSUME NEW s \in Sockets,
             \/ \E role \in Roles, r \in Routes : Authenticate(s, role, r)
             \/ Accept(s) \/ RefuseWebSocket(s) \/ ReadFails(s)
             \/ ReadBadFrame(s) \/ RemoveSession(s) \/ Finish(s)
      PROVE  pc[x] \in ReadingAt
  BY ZenonT(40), <1>1 DEF Authenticate, Accept, RefuseWebSocket, ReadFails,
       ReadBadFrame, RemoveSession, Finish, CloseAndExit, Goto
<1>2. ASSUME NEW s \in Sockets,
             (\E f \in Frame : ReadFrame(s, f)) \/ LookUpTarget(s) \/ WriteRaw(s)
      PROVE  pc[x] \in ReadingAt
  BY <1>2 DEF ReadFrame, LookUpTarget, WriteRaw, CloseAndExit, Goto
<1>3. ASSUME NEW s \in Sockets, BeginWebSocket(s)
      PROVE  pc[x] \in ReadingAt \/ x = s
  BY <1>3 DEF BeginWebSocket, Goto
<1>4. ASSUME \/ \E s \in Sockets : CloseSocket(s) \/ Disconnect(s)
             \/ \E r \in Routes : Approve(r) \/ RevokeDevice(r)
             \/ BeginShutdown \/ WebSocketsDone \/ UNCHANGED vars
      PROVE  pc[x] \in ReadingAt
  BY <1>4 DEF CloseSocket, Disconnect, Approve, RevokeDevice, BeginShutdown,
       WebSocketsDone, vars
<1>5. QED
  BY <1>1, <1>2, <1>3, <1>4 DEF Next, HandlerStep, RemoteStep

LEMMA EvictedStep ==
  ASSUME SessionsInv, [Next]_vars
  PROVE  EvictedIsClosing'
<1>   TypeOK /\ SessionsOK /\ EvictedIsClosing
  BY DEF SessionsInv
<1> SUFFICES ASSUME NEW s \in Sockets, pc'[s] \in ReadingAt, ~Current(s)'
             PROVE  conn'[s] # "open" \/ s \in closers'
  BY DEF EvictedIsClosing, ReadingAt
<1>1. ~BeginWebSocket(s)
  <2> SUFFICES ASSUME BeginWebSocket(s)
               PROVE  FALSE
    OBVIOUS
  <2>1. sess[s] # Null /\ Key(s) \in Keys
    BY SessionForm DEF SessionsOK, BeginWebSocket
  <2>2. /\ sess' = sess
        /\ sess[s].role = "host" => hosts'[Key(s)] = s
        /\ sess[s].role = "device" => devices'[Key(s)] = s
    <3>1. Registers(s, Key(s))
      BY <2>1, BeginTables
    <3>2. QED
      BY <3>1 DEF Registers
  <2>3. sess[s].role \in {"host", "device"}
    BY <2>1, SessionForm DEF Roles
  <2>4. QED
    BY <2>2, <2>3 DEF Current, Entry, Key
<1>2. pc[s] \in ReadingAt
  BY <1>1, ReadingSince
<1>3. /\ sess[s] # Null /\ sess'[s] = sess[s] /\ sess[s].role \in Roles
      /\ Key(s) \in Keys
  BY <1>2, SessionKept, SessionForm DEF SessionsOK, ReadingAt
<1>4. CASE Current(s)
  <2>1. PICK role, k : role = sess[s].role /\ k = Key(s)
    OBVIOUS
  <2>2. Entry(role, k) = s
    BY <1>4, <2>1 DEF Current
  <2>3. Entry(role, k)' # s
    BY <1>3, <2>1 DEF Current, Key, Entry
  <2>4. ~RemoveSession(s)
    BY <1>2 DEF RemoveSession, ReadingAt
  <2>5. QED
    BY <1>3, <2>1, <2>2, <2>3, <2>4, LeavesToClose
<1>5. CASE ~Current(s)
  <2>1. conn[s] # "open" \/ s \in closers
    BY <1>2, <1>5 DEF EvictedIsClosing, ReadingAt
  <2>2. QED
    BY <1>2, <2>1, ClosingStays
<1>6. QED
  BY <1>4, <1>5

-----------------------------------------------------------------------------
(* The wait group *)

Joined == {s \in Sockets : Tracked(s)}

\* Which handlers the wait group counts, before and after a step.
LEMMA JoinedStep ==
  ASSUME SessionsInv, [Next]_vars
  PROVE  \/ Joined' = Joined /\ wg' = wg
         \/ /\ \E s \in Sockets \ Joined : Joined' = Joined \cup {s}
            /\ wg' = wg + 1 /\ ~shuttingDown
         \/ /\ \E s \in Joined : Joined' = Joined \ {s}
            /\ wg' = wg - 1
<1> USE DEF TypeOK
<1>   TypeOK
  BY DEF SessionsInv
<1>1. ASSUME \A x \in Sockets : Tracked(x)' <=> Tracked(x)
      PROVE  Joined' = Joined
  BY <1>1 DEF Joined
<1>2. ASSUME NEW s \in Sockets, NEW role \in Roles, NEW r \in Routes,
             Authenticate(s, role, r)
      PROVE  wg' = wg /\ \A x \in Sockets : Tracked(x)' <=> Tracked(x)
  BY <1>2 DEF Authenticate, Goto, drain, Tracked
<1>3. ASSUME NEW s \in Sockets, LocalStep(s)
      PROVE  wg' = wg /\ \A x \in Sockets : Tracked(x)' <=> Tracked(x)
  BY <1>3, LocalEffect DEF Tracked, LiveAt, Points
<1>4. ASSUME NEW s \in Sockets, BeginWebSocket(s)
      PROVE  /\ s \notin Joined /\ Joined' = Joined \cup {s}
             /\ wg' = wg + 1 /\ ~shuttingDown
  <2>1. ~Tracked(s) /\ Tracked(s)' /\ \A x \in Sockets \ {s} : Tracked(x)' <=> Tracked(x)
    BY <1>4 DEF BeginWebSocket, Goto, Tracked
  <2>2. QED
    BY <1>4, <2>1 DEF BeginWebSocket, WaitGroupAdd, MayRegister, Joined
<1>5. ASSUME NEW s \in Sockets, RemoveSession(s)
      PROVE  wg' = wg /\ \A x \in Sockets : Tracked(x)' <=> Tracked(x)
  BY <1>5 DEF RemoveSession, Goto, drain, Tracked
<1>6. ASSUME NEW s \in Sockets, Finish(s)
      PROVE  s \in Joined /\ Joined' = Joined \ {s} /\ wg' = wg - 1
  <2>1. Tracked(s) /\ ~Tracked(s)' /\ \A x \in Sockets \ {s} : Tracked(x)' <=> Tracked(x)
    BY <1>6 DEF Finish, Goto, Tracked
  <2>2. QED
    BY <1>6, <2>1 DEF Finish, Joined
<1>7. ASSUME \/ \E r \in Routes : Approve(r) \/ RevokeDevice(r)
             \/ BeginShutdown \/ WebSocketsDone \/ UNCHANGED vars
      PROVE  wg' = wg /\ \A x \in Sockets : Tracked(x)' <=> Tracked(x)
  BY <1>7 DEF Approve, RevokeDevice, BeginShutdown, WebSocketsDone, vars, drain,
              Tracked
<1>8. QED
  BY <1>1, <1>2, <1>3, <1>4, <1>5, <1>6, <1>7, StepCases DEF Joined

-----------------------------------------------------------------------------
INSTANCE FiniteSetTheorems

\* The counter, and the channel that closes at zero.
LEMMA DrainStep ==
  ASSUME SessionsInv, [Next]_vars
  PROVE  DrainOK'
<1>   TypeOK /\ DrainOK /\ wg \in Nat
  BY DEF SessionsInv, TypeOK
<1>1. wg = Cardinality(Joined) /\ (done => shuttingDown /\ Joined = {})
  BY DEF DrainOK, Joined
<1>2. IsFiniteSet(Joined) /\ IsFiniteSet(Joined')
  BY SessionsConstants, FS_Subset DEF Joined
<1>3. wg' = Cardinality(Joined')
  <2>1. ASSUME NEW s \in Sockets \ Joined, Joined' = Joined \cup {s}, wg' = wg + 1
        PROVE  wg' = Cardinality(Joined')
    BY <1>1, <1>2, <2>1, FS_AddElement
  <2>2. ASSUME NEW s \in Joined, Joined' = Joined \ {s}, wg' = wg - 1
        PROVE  wg' = Cardinality(Joined')
    BY <1>1, <1>2, <2>2, FS_RemoveElement
  <2>3. QED
    BY <1>1, <2>1, <2>2, JoinedStep
<1>4. shuttingDown => shuttingDown'
  <2>1. ASSUME NEW s \in Sockets, LocalStep(s)
        PROVE  shuttingDown' = shuttingDown
    BY <2>1, LocalEffect
  <2>2. QED
    BY <2>1, StepCases
    DEF Authenticate, BeginWebSocket, RemoveSession, Finish, Approve,
        RevokeDevice, BeginShutdown, WebSocketsDone, vars, drain
<1>5. ASSUME done
      PROVE  shuttingDown' /\ Joined' = {}
  BY <1>1, <1>4, <1>5, JoinedStep
<1>6. ASSUME ~done, done'
      PROVE  shuttingDown' /\ Joined' = {}
  <2>1. ASSUME NEW s \in Sockets, LocalStep(s)
        PROVE  done' = done
    BY <2>1, LocalEffect
  <2>2. WebSocketsDone
    BY <1>6, <2>1, StepCases
    DEF Authenticate, BeginWebSocket, RemoveSession, Finish, Approve,
        RevokeDevice, BeginShutdown, vars, drain
  <2>3. shuttingDown /\ wg = 0 /\ Joined' = Joined
    BY <2>2 DEF WebSocketsDone, WaitReturns, Joined, Tracked
  <2>4. Joined = {}
    BY <2>3 DEF DrainOK, Joined
  <2>5. QED
    BY <1>4, <2>3, <2>4
<1>7. ASSUME wg' = 0
      PROVE  Joined' = {}
  BY <1>2, <1>3, <1>7, FS_EmptySet
<1>8. QED
  BY <1>3, <1>5, <1>6, <1>7 DEF DrainOK, Joined

-----------------------------------------------------------------------------
(* The theorems *)

LEMMA SessionsInit == Init => SessionsInv
<1> SUFFICES ASSUME Init
             PROVE  SessionsInv
  OBVIOUS
<1>1. TypeOK
  BY DEF Init, TypeOK, Points
<1>2. /\ SessionsOK /\ TablesOK /\ FramesOK /\ TargetsOK /\ HeardOK
      /\ EvictedIsClosing
  BY DEF Init, SessionsOK, TablesOK, FramesOK, TargetsOK, HeardOK, EvictedIsClosing
<1>3. OneTalker
  BY DEF Init, OneTalker
<1>4. {s \in Sockets : Tracked(s)} = {}
  BY DEF Init, Tracked
<1>5. DrainOK
  BY <1>4, FS_EmptySet DEF Init, DrainOK
<1>6. QED
  BY <1>1, <1>2, <1>3, <1>5 DEF SessionsInv

LEMMA SessionsStep == SessionsInv /\ [Next]_vars => SessionsInv'
  BY TypeStep, SessionsOKStep, TablesOKStep, FramesOKStep, TargetsOKStep,
     HeardOKStep, EvictedStep, OneTalkerStep, DrainStep DEF SessionsInv

\* The relay keeps its types and the inductive invariant of this module.
THEOREM SessionsCorrect == Spec => [](TypeOK /\ SessionsInv)
<1>1. SessionsInv => TypeOK
  BY DEF SessionsInv
<1>2. QED
  BY <1>1, SessionsInit, SessionsStep, PTL DEF Spec

\* The tables hold only live sessions of the right role and key, whatever
\* registrations, removals, revocations and a shutdown interleave
\* (addSessionWithLifecycle, removeSession, revokeDevice, beginShutdown).
THEOREM EveryEntryIsLive == Spec => [](EntriesAreLive /\ RegisteredIsActive)
<1>1. SessionsInv => EntriesAreLive /\ RegisteredIsActive
  BY ZenonT(40) DEF SessionsInv, TablesOK, EntryOK, EntriesAreLive, RegisteredIsActive,
         Entry, Roles, Key, LiveAt
<1>2. QED
  BY <1>1, SessionsInit, SessionsStep, PTL DEF Spec

\* No path that takes a session out of the tables forgets its socket.
THEOREM EveryEvictedIsClosing == Spec => []EvictedIsClosing
<1>1. SessionsInv => EvictedIsClosing
  BY DEF SessionsInv
<1>2. QED
  BY <1>1, SessionsInit, SessionsStep, PTL DEF Spec

\* A step adds no entry for a handler that is past its registration: only
\* addSessionWithLifecycle adds one, and a handler calls it once.
LEMMA NoneComesBack ==
  ASSUME SessionsInv, [Next]_vars, NEW x \in Sockets, Tracked(x), NEW k \in Keys
  PROVE  /\ hosts'[k] = x => hosts[k] = x
         /\ devices'[k] = x => devices[k] = x
<1>   TypeOK /\ x # Null
  BY SessionsConstants DEF SessionsInv
<1>1. ASSUME NEW s \in Sockets, LocalStep(s)
      PROVE  UNCHANGED <<hosts, devices>>
  BY <1>1, LocalEffect
<1>2. ASSUME NEW s \in Sockets, BeginWebSocket(s)
      PROVE  /\ hosts'[k] = x => hosts[k] = x
             /\ devices'[k] = x => devices[k] = x
  <2>1. Registers(s, k)
    BY <1>2, BeginTables
  <2>2. x # s
    BY <2>1 DEF Registers, Tracked
  <2>3. sess[s].role = "host" \/ sess[s].role = "device"
    BY <2>1, SessionForm DEF Registers, Roles
  <2>4. QED
    BY <2>1, <2>2, <2>3 DEF Registers
<1>3. ASSUME NEW s \in Sockets, RemoveSession(s)
      PROVE  /\ hosts'[k] = x => hosts[k] = x
             /\ devices'[k] = x => devices[k] = x
  BY SMT, <1>3, RemoveTables
<1>4. ASSUME NEW r \in Routes, RevokeDevice(r)
      PROVE  /\ hosts'[k] = x => hosts[k] = x
             /\ devices'[k] = x => devices[k] = x
  BY <1>4 DEF RevokeDevice, TypeOK
<1>5. QED
  BY <1>1, <1>2, <1>3, <1>4, StepCases
  DEF Authenticate, Finish, Approve, BeginShutdown, WebSocketsDone, vars, tables

\* A session that was taken out of the tables never gets back into them, and
\* its handler looks up no further target (addSessionWithLifecycle,
\* routeFrame), for every number of sockets and whatever they do.
THEOREM EveryEvictionIsFinal == Spec => EvictionIsFinal
<1>1. ASSUME SessionsInv, [Next]_vars, NEW s \in Sockets, Tracked(s), ~Current(s)
      PROVE  ~Current(s)' /\ (pc[s] # "writing" => pc'[s] # "writing")
  <2>1. pc[s] # "idle" /\ TypeOK /\ SessionsOK
    BY <1>1 DEF Tracked, SessionsInv
  <2>2. sess[s] # Null /\ sess'[s] = sess[s]
    BY <1>1, <2>1, SessionKept DEF SessionsOK
  <2>3. Key(s) \in Keys
    BY <2>1, <2>2, SessionForm
  <2>4. ~Current(s)'
    BY <1>1, <2>2, <2>3, NoneComesBack DEF Current, Entry, Key
  <2>5. ASSUME pc[s] # "writing", pc'[s] = "writing"
        PROVE  FALSE
    <3>1. LookUpTarget(s)
      BY <1>1, <2>5, WaysIn
    <3>2. QED
      BY <1>1, <2>5, <3>1, LookedUp
  <2>6. QED
    BY <2>4, <2>5
<1>2. SessionsInv /\ [Next]_vars =>
        [\A s \in Sockets :
           Tracked(s) /\ ~Current(s) =>
             /\ ~Current(s)'
             /\ pc[s] # "writing" => pc'[s] # "writing"]_vars
  BY <1>1
<1>3. QED
  BY <1>2, SessionsInit, SessionsStep, PTL DEF Spec, EvictionIsFinal

\* One connection of a device is sent frames of one connection of the host
\* only, although routeFrame writes after it has dropped s.mu.
THEOREM EveryDeviceHearsOneHost == Spec => []DeviceHearsOneHost
<1>1. SessionsInv => DeviceHearsOneHost
  BY DEF SessionsInv, OneTalker, Talkers, DeviceHearsOneHost
<1>2. QED
  BY <1>1, SessionsInit, SessionsStep, PTL DEF Spec

\* The wait group counts the handlers, and webSocketsDone closes only when
\* none is left (serve waits for it before it returns).
THEOREM TheDrainIsSound == Spec => [](WaitGroupCounts /\ DoneMeansDrained)
<1>1. SessionsInv => WaitGroupCounts /\ DoneMeansDrained
  BY DEF SessionsInv, DrainOK, TablesOK, WaitGroupCounts, DoneMeansDrained, Entry
<1>2. QED
  BY <1>1, SessionsInit, SessionsStep, PTL DEF Spec

\* For all ids: a frame reaches only a session of the other role that has its
\* sender's key, although routeFrame writes to a target that may be stale.
THEOREM EveryFrameStaysOnKey == Spec => []FramesStayOnKey
<1>1. SessionsInv => FramesStayOnKey
  BY DEF SessionsInv, HeardOK, PeerOf, FramesStayOnKey, Key
<1>2. QED
  BY <1>1, SessionsInit, SessionsStep, PTL DEF Spec

=============================================================================
