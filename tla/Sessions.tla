------------------------------ MODULE Sessions -------------------------------
(***************************************************************************)
(* The WebSocket half of the relay: the tables of the sessions that are    *)
(* current for each route, the handler goroutine of each socket, device    *)
(* revocation, and the drain at shutdown.                                  *)
(*                                                                         *)
(* A step is what a handler does between two points where another          *)
(* goroutine can run: a critical section of s.mu, a read, a write, or a    *)
(* close.  closeSessions starts one goroutine per socket, kept in closers  *)
(* until it runs; a socket that is closed stays closed, so the close codes *)
(* (4001, 4004, 4008, 4009), of which the first wins, are left out.        *)
(* routeFrame drops s.mu before it writes, so the target it writes to may  *)
(* have left the table, or have been closed, in between.                   *)
(***************************************************************************)
EXTENDS Naturals, FiniteSets, Sequences

CONSTANTS
  Sockets,   \* upgraded connections; each has its own handler goroutine
  Routes,    \* triples <<tenant id, host id, device id>> of strings, a
             \* string being the sequence of its characters
  Granted,   \* triples <<socket, role, route>>: the tickets that the client
             \* of a socket may come with
  Null

\* The key of both session tables.  An id may contain a slash, so two routes
\* may have the same key.
deviceKey(r) == r[1] \o <<"/">> \o r[2] \o <<"/">> \o r[3]

Keys == {deviceKey(r) : r \in Routes}

Roles == {"host", "device"}

Session == [role : Roles, route : Routes]

\* What routing depends on in a protocol.RelayFrame.
Frame ==
  [route : Routes, direction : {"windows_to_mobile", "mobile_to_windows"}]

ASSUME SessionsConstants ==
  Null \notin Sockets \cup Session \cup Frame /\ IsFiniteSet(Sockets)

Peer(role) == IF role = "host" THEN "device" ELSE "host"

Points ==
  {"idle", "admitted", "accepted", "reading", "parsed", "writing", "exiting",
   "removed", "done"}

VARIABLES
  hosts, devices,   \* s.hosts and s.devices: key -> socket or Null
  row,              \* the device row of a route, as GetDevice sees it
  sess,             \* the session of a socket
  pc,               \* where the handler of a socket is
  frame,            \* the frame that the handler of a socket has read
  target,           \* the socket routeFrame is about to write to
  conn,             \* the connection of a socket
  closers,          \* the sockets a goroutine of closeSessions is to close
  wg,               \* the counter of s.webSocketWG
  shuttingDown,
  done,             \* s.webSocketsDone is closed
  heard             \* history: the sockets whose frames a socket was sent

vars == <<hosts, devices, row, sess, pc, frame, target, conn, closers, wg,
          shuttingDown, done, heard>>

TypeOK ==
  /\ hosts \in [Keys -> Sockets \cup {Null}]
  /\ devices \in [Keys -> Sockets \cup {Null}]
  /\ row \in [Routes -> {"absent", "active", "revoked"}]
  /\ sess \in [Sockets -> Session \cup {Null}]
  /\ pc \in [Sockets -> Points]
  /\ frame \in [Sockets -> Frame \cup {Null}]
  /\ target \in [Sockets -> Sockets \cup {Null}]
  /\ conn \in [Sockets -> {"none", "open", "closed"}]
  /\ closers \subseteq Sockets
  /\ wg \in Nat
  /\ shuttingDown \in BOOLEAN
  /\ done \in BOOLEAN
  /\ heard \in [Sockets -> SUBSET Sockets]

Init ==
  /\ hosts = [k \in Keys |-> Null]
  /\ devices = [k \in Keys |-> Null]
  /\ row \in [Routes -> {"absent", "active"}]
  /\ sess = [s \in Sockets |-> Null]
  /\ pc = [s \in Sockets |-> "idle"]
  /\ frame = [s \in Sockets |-> Null]
  /\ target = [s \in Sockets |-> Null]
  /\ conn = [s \in Sockets |-> "none"]
  /\ closers = {}
  /\ wg = 0
  /\ shuttingDown = FALSE
  /\ done = FALSE
  /\ heard = [s \in Sockets |-> {}]

tables == <<hosts, devices>>

drain == <<wg, shuttingDown, done>>

-----------------------------------------------------------------------------
(* Helpers *)

Key(s) == deviceKey(sess[s].route)

Entry(role, k) == IF role = "host" THEN hosts[k] ELSE devices[k]

\* Whether s is the session its table holds for its key.
Current(s) == Entry(sess[s].role, Key(s)) = s

Goto(s, point) == pc' = [pc EXCEPT ![s] = point]

Close(s) == conn' = [conn EXCEPT ![s] = "closed"]

\* closeSocket and return from the read loop of s.
CloseAndExit(s) ==
  /\ Close(s)
  /\ Goto(s, "exiting")

\* The handler has added itself to the wait group and not yet left it.
Tracked(s) ==
  pc[s] \in {"reading", "parsed", "writing", "exiting", "removed"}

-----------------------------------------------------------------------------
(* A connection comes up *)

\* sessionFromRequest and authenticateSession: the ticket of a device is
\* accepted only while its row is active; that of a host names a device but
\* does not depend on it.
Authenticate(s, role, r) ==
  /\ pc[s] = "idle"
  /\ <<s, role, r>> \in Granted
  /\ role = "device" => row[r] = "active"
  /\ sess' = [sess EXCEPT ![s] = [role |-> role, route |-> r]]
  /\ Goto(s, "admitted")
  /\ UNCHANGED <<tables, row, frame, target, conn, closers, drain, heard>>

\* websocket.Accept succeeds, or fails and ends the handler.
Accept(s) ==
  /\ pc[s] = "admitted"
  /\ \/ /\ conn' = [conn EXCEPT ![s] = "open"]
        /\ Goto(s, "accepted")
     \/ Goto(s, "done") /\ UNCHANGED conn
  /\ UNCHANGED <<tables, row, sess, frame, target, closers, drain, heard>>

MutKeepDevice(s) == {Entry(sess[s].role, Key(s))} \ {Null}

\* The sessions a registration pushes out: a host also pushes out the
\* device that talked to the previous host.
Displaced(s) ==
  (IF sess[s].role = "host" THEN {hosts[Key(s)], devices[Key(s)]}
                            ELSE {devices[Key(s)]}) \ {Null}

MutAdmitRevoked(s) == ~shuttingDown

\* The test that starts the critical section of addSessionWithLifecycle.
MayRegister(s) == ~shuttingDown /\ row[sess[s].route] = "active"

\* The registration is refused: the handler was never tracked, and returns.
RefuseWebSocket(s) ==
  /\ pc[s] = "accepted"
  /\ ~MayRegister(s)
  /\ Close(s)
  /\ Goto(s, "done")
  /\ UNCHANGED <<tables, row, sess, frame, target, closers, drain, heard>>

\* webSocketWG.Add(1), for trackLifecycle.
WaitGroupAdd == wg + 1

\* addSessionWithLifecycle with trackLifecycle.
BeginWebSocket(s) ==
  /\ pc[s] = "accepted"
  /\ MayRegister(s)
  /\ hosts' = IF sess[s].role = "host" THEN [hosts EXCEPT ![Key(s)] = s]
                                       ELSE hosts
  /\ devices' =
       IF sess[s].role = "device" THEN [devices EXCEPT ![Key(s)] = s]
       ELSE IF devices[Key(s)] \in Displaced(s)
            THEN [devices EXCEPT ![Key(s)] = Null]
            ELSE devices
  /\ closers' = closers \cup Displaced(s)
  /\ wg' = WaitGroupAdd
  /\ Goto(s, "reading")
  /\ UNCHANGED <<row, sess, frame, target, conn, shuttingDown, done, heard>>

-----------------------------------------------------------------------------
(* The read loop *)

\* conn.Read fails once the connection is closed, by either side.
ReadFails(s) ==
  /\ pc[s] = "reading"
  /\ conn[s] # "open"
  /\ Goto(s, "exiting")
  /\ UNCHANGED <<tables, row, sess, frame, target, conn, closers, drain, heard>>

\* A message that is not text or does not parse, and a frame of another
\* route or of the wrong direction (validateSenderFrame).
ReadBadFrame(s) ==
  /\ pc[s] = "reading"
  /\ conn[s] = "open"
  /\ CloseAndExit(s)
  /\ UNCHANGED <<tables, row, sess, frame, target, closers, drain, heard>>

MutAnyDirection(s, f) == f.route = sess[s].route

\* A frame is of its sender's own route and goes the way of its role.
validateSenderFrame(s, f) ==
  /\ f.route = sess[s].route
  /\ sess[s].role = "host" => f.direction = "windows_to_mobile"
  /\ sess[s].role = "device" => f.direction = "mobile_to_windows"

\* A frame that parses and passes validateSenderFrame.
ReadFrame(s, f) ==
  /\ pc[s] = "reading"
  /\ conn[s] = "open"
  /\ validateSenderFrame(s, f)
  /\ frame' = [frame EXCEPT ![s] = f]
  /\ Goto(s, "parsed")
  /\ UNCHANGED <<tables, row, sess, target, conn, closers, drain, heard>>

MutAnySession(s, key, receiver) == receiver # Null

\* The sender is still the session of its table, and has a peer to write to.
MayRoute(s, key, receiver) ==
  Entry(sess[s].role, key) = s /\ receiver # Null

\* routeFrame up to s.mu.RUnlock, and the early returns.  Key and target
\* are those of the frame; only the table looked in depends on the sender.
LookUpTarget(s) ==
  /\ pc[s] = "parsed"
  /\ LET key == deviceKey(frame[s].route)
         receiver == IF frame[s].direction = "windows_to_mobile"
                     THEN devices[key] ELSE hosts[key]
     IN \/ /\ ~MayRoute(s, key, receiver)
           /\ CloseAndExit(s)
           /\ UNCHANGED target
        \/ /\ MayRoute(s, key, receiver)
           /\ target' = [target EXCEPT ![s] = receiver]
           /\ Goto(s, "writing")
           /\ UNCHANGED conn
  /\ frame' = [frame EXCEPT ![s] = Null]
  /\ UNCHANGED <<tables, row, sess, closers, drain, heard>>

\* target.writeRaw, outside s.mu.
WriteRaw(s) ==
  /\ pc[s] = "writing"
  /\ target' = [target EXCEPT ![s] = Null]
  /\ \/ /\ conn[target[s]] = "open"
        /\ heard' = [heard EXCEPT ![target[s]] = @ \cup {s}]
        /\ Goto(s, "reading")
        /\ UNCHANGED conn
     \/ /\ conn[target[s]] # "open"
        /\ CloseAndExit(s)
        /\ UNCHANGED heard
  /\ UNCHANGED <<tables, row, sess, closers, drain, frame>>

-----------------------------------------------------------------------------
(* A connection goes down *)

MutRemoveAny(s) == Entry(sess[s].role, Key(s)) # Null

\* Only the session that the table holds takes its entry, and its peer's,
\* out: the handler of a replaced session must leave its successor alone.
OwnsEntry(s) == Current(s)

MutLeavePeerOpen(s) == {}

\* The peer that removeSession takes out and closes.
DetachedPeer(s) == {Entry(Peer(sess[s].role), Key(s))} \ {Null}

\* The deferred removeSession.
RemoveSession(s) ==
  /\ pc[s] = "exiting"
  /\ IF OwnsEntry(s)
     THEN /\ hosts' = [hosts EXCEPT ![Key(s)] = Null]
          /\ devices' = [devices EXCEPT ![Key(s)] = Null]
          /\ closers' = closers \cup DetachedPeer(s)
     ELSE UNCHANGED <<tables, closers>>
  /\ Goto(s, "removed")
  /\ UNCHANGED <<row, sess, frame, target, conn, drain, heard>>

\* The rest of the deferred function: closeSocket and webSocketWG.Done.
Finish(s) ==
  /\ pc[s] = "removed"
  /\ Close(s)
  /\ wg' = wg - 1
  /\ Goto(s, "done")
  /\ UNCHANGED <<tables, row, sess, frame, target, closers, shuttingDown, done,
                 heard>>

\* A goroutine of closeSessions runs.
CloseSocket(s) ==
  /\ s \in closers
  /\ Close(s)
  /\ closers' = closers \ {s}
  /\ UNCHANGED <<tables, row, sess, pc, frame, target, drain, heard>>

\* The remote end or the network closes the connection, a write to it times
\* out, or the library closes it because of an oversized message.
Disconnect(s) ==
  /\ conn[s] = "open"
  /\ Close(s)
  /\ UNCHANGED <<tables, row, sess, pc, frame, target, closers, drain, heard>>

-----------------------------------------------------------------------------
(* Bindings and shutdown *)

\* ApproveClaim creates the device row or makes it active again.
Approve(r) ==
  /\ row[r] # "active"
  /\ row' = [row EXCEPT ![r] = "active"]
  /\ UNCHANGED <<tables, sess, pc, frame, target, conn, closers, drain, heard>>

\* revokeDevice: the row and both sessions change in one critical section.
RevokeDevice(r) ==
  /\ row[r] = "active"
  /\ row' = [row EXCEPT ![r] = "revoked"]
  /\ hosts' = [hosts EXCEPT ![deviceKey(r)] = Null]
  /\ devices' = [devices EXCEPT ![deviceKey(r)] = Null]
  /\ closers' = closers \cup
       ({hosts[deviceKey(r)], devices[deviceKey(r)]} \ {Null})
  /\ UNCHANGED <<sess, pc, frame, target, conn, drain, heard>>

\* The body of shutdownOnce.
BeginShutdown ==
  /\ ~shuttingDown
  /\ shuttingDown' = TRUE
  /\ hosts' = [k \in Keys |-> Null]
  /\ devices' = [k \in Keys |-> Null]
  /\ closers' = closers \cup
       ((UNION {{hosts[k], devices[k]} : k \in Keys}) \ {Null})
  /\ UNCHANGED <<row, sess, pc, frame, target, conn, wg, done, heard>>

\* The goroutine that beginShutdown starts: Wait, then close the channel.
WaitReturns == shuttingDown /\ ~done /\ wg = 0

WebSocketsDone ==
  /\ WaitReturns
  /\ done' = TRUE
  /\ UNCHANGED <<tables, row, sess, pc, frame, target, conn, closers, wg,
                 shuttingDown, heard>>

-----------------------------------------------------------------------------
(* The specification *)

\* The steps that a handler takes without waiting for its remote end.
HandlerStep(s) ==
  \/ RefuseWebSocket(s)
  \/ BeginWebSocket(s)
  \/ ReadFails(s)
  \/ LookUpTarget(s)
  \/ WriteRaw(s)
  \/ RemoveSession(s)
  \/ Finish(s)

RemoteStep(s) ==
  \/ \E role \in Roles, r \in Routes : Authenticate(s, role, r)
  \/ Accept(s)
  \/ ReadBadFrame(s)
  \/ \E f \in Frame : ReadFrame(s, f)
  \/ Disconnect(s)

Next ==
  \/ \E s \in Sockets : HandlerStep(s) \/ RemoteStep(s) \/ CloseSocket(s)
  \/ \E r \in Routes : Approve(r) \/ RevokeDevice(r)
  \/ BeginShutdown
  \/ WebSocketsDone

Spec == Init /\ [][Next]_vars

\* Go runs every goroutine that is not blocked.  Nothing is assumed of the
\* remote ends, of revocation, or of a shutdown being requested.
Fairness ==
  /\ \A s \in Sockets : WF_vars(HandlerStep(s)) /\ WF_vars(CloseSocket(s))
  /\ WF_vars(WebSocketsDone)

FairSpec == Spec /\ Fairness

-----------------------------------------------------------------------------
(* Properties *)

\* The tables hold only sessions of the right role and key whose handler has
\* yet to run its removeSession: an entry never outlives its handler.
EntriesAreLive ==
  \A role \in Roles, k \in Keys :
    LET s == Entry(role, k) IN
      s # Null => /\ sess[s] # Null
                  /\ sess[s].role = role
                  /\ Key(s) = k
                  /\ pc[s] \in {"reading", "parsed", "writing", "exiting"}

\* A registered session, of the host or of the device, has an active device
\* row: neither a handler that consumed its ticket before revokeDevice and
\* registers after it, nor a peer of the device, stays in the tables.
RegisteredIsActive ==
  \A role \in Roles, k \in Keys :
    LET s == Entry(role, k) IN s # Null => row[sess[s].route] = "active"

\* A handler that still reads while the table no longer holds its session
\* has a closed connection or a close on its way: no path that takes a
\* session out of the tables forgets to close its socket.
EvictedIsClosing ==
  \A s \in Sockets :
    pc[s] \in {"reading", "parsed", "writing"} /\ ~Current(s) =>
      conn[s] # "open" \/ s \in closers

\* A handler whose session was taken out of the tables is never put back and
\* looks up no other target, whatever replaces it and however often its
\* device is revoked and approved again: at most the frame that routeFrame is
\* about to write still goes out.
EvictionIsFinal ==
  [][\A s \in Sockets :
       Tracked(s) /\ ~Current(s) =>
         /\ ~Current(s)'
         /\ pc[s] # "writing" => pc'[s] # "writing"]_vars

\* One connection of a device receives frames of at most one connection of
\* the host, although routeFrame writes to a target that may be stale: the
\* registration of a host pushes out the device of its predecessor.
DeviceHearsOneHost ==
  \A s \in Sockets :
    sess[s] # Null /\ sess[s].role = "device" =>
      \A x, y \in heard[s] : x = y

\* A frame reaches only a session of the other role whose deviceKey is that
\* of its sender, through every replacement, revocation and stale target, and
\* whatever the ids contain.
FramesStayOnKey ==
  \A s \in Sockets : \A x \in heard[s] :
    Key(s) = Key(x) /\ sess[s].role = Peer(sess[x].role)

\* A frame reaches only the very route that its sender was authenticated for:
\* "A device ID bound under one tenant or host must not resolve under another
\* tenant or host" (pairing-v1.md).  The tables are keyed by deviceKey, which
\* does not tell all routes apart.
FramesStayOnRoute ==
  \A s \in Sockets : \A x \in heard[s] : sess[s].route = sess[x].route

\* The wait group counts the handlers between registration and their last
\* deferred call.
WaitGroupCounts == wg = Cardinality({s \in Sockets : Tracked(s)})

\* Once webSocketsDone is closed no handler is left that it was to wait for,
\* none can join, and no session is registered.
DoneMeansDrained ==
  done => /\ \A s \in Sockets : ~Tracked(s)
          /\ \A role \in Roles, k \in Keys : Entry(role, k) = Null

\* Handlers whose session was replaced, revoked or detached.
Leaving == {s \in Sockets : Tracked(s) /\ ~Current(s)}

\* Every eviction and every shutdown completes, whatever the handlers were
\* doing and even if no remote end ever answers: again and again there is a
\* moment when no evicted handler is left and, after beginShutdown,
\* webSocketsDone is closed.  (A handler that has ended never comes back.)
EvictionsComplete == []<>(Leaving = {} /\ (shuttingDown => done))

=============================================================================
