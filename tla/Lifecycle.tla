------------------------------ MODULE Lifecycle ------------------------------
(***************************************************************************)
(* The life of a relay process around its sessions: one serve goroutine    *)
(* per listener with its http.Server, the shutdown that a signal or a      *)
(* failing listener sets off, its timeout, serveBoth, and the close of the *)
(* database when Serve has returned.                                       *)
(*                                                                         *)
(* http.Server is external.  Its Shutdown closes the listener and waits    *)
(* for the requests that are being handled, but not for connections that   *)
(* websocket.Accept has taken over; those the relay closes and waits for   *)
(* itself (Sessions).  A request of handleWebSocket is of the first kind   *)
(* until Accept, and of the second from then on.                           *)
(***************************************************************************)
EXTENDS Sessions

CONSTANTS
  Listeners,    \* the public listener, or it and the internal one
  MaxRequests   \* bound on the plain HTTP requests that a listener handles

ASSUME LifecycleConstants ==
  /\ Null \notin Listeners
  /\ IsFiniteSet(Listeners) /\ Cardinality(Listeners) \in {1, 2}
  /\ MaxRequests \in Nat

\* Where the shutdown goroutine of a serve call is.
Stages ==
  {"waiting", "begun", "closing", "drain", "drained", "failed", "returned"}

VARIABLES
  via,         \* the listener that the request of a socket came through
  http,        \* the requests that a listener handles, WebSockets aside
  accepting,   \* the listeners that are open
  serving,     \* the listeners that may have connections, and so requests
  broken,      \* the listeners whose Accept has failed
  stage,
  late,        \* the serve calls whose shutdown timeout has expired
  cancelled,   \* the context of Serve is cancelled
  results,     \* what the serve calls have returned, in order
  result,      \* what Serve has returned; the database is then closed
  misused      \* history: a handler has used the database after that

life == <<via, http, accepting, serving, broken, stage, late, cancelled,
          results, result, misused>>

lifeVars == <<vars, life>>

LifeTypeOK ==
  /\ via \in [Sockets -> Listeners \cup {Null}]
  /\ http \in [Listeners -> 0 .. MaxRequests]
  /\ \A set \in {accepting, serving, broken, late} : set \subseteq Listeners
  /\ stage \in [Listeners -> Stages]
  /\ cancelled \in BOOLEAN
  /\ results \in Seq({"nil", "error"}) /\ Len(results) <= Cardinality(Listeners)
  /\ result \in {"none", "nil", "error"}
  /\ misused \in BOOLEAN

LifeInit ==
  /\ Init
  /\ via = [s \in Sockets |-> Null]
  /\ http = [l \in Listeners |-> 0]
  /\ accepting = Listeners /\ serving = Listeners /\ broken = {}
  /\ stage = [l \in Listeners |-> "waiting"]
  /\ late = {}
  /\ cancelled = FALSE
  /\ results = <<>>
  /\ result = "none"
  /\ misused = FALSE

shutdownVars == <<accepting, serving, broken, stage, late, cancelled, results,
                  result>>

StoreClosed == result # "none"

\* A step that reads or writes the database.
UsesStore == misused' = (misused \/ StoreClosed)

StageIs(l, s) == stage' = [stage EXCEPT ![l] = s]

-----------------------------------------------------------------------------
(* Requests *)

\* A request to /v1/remote/ws, up to authenticateSession.
ArriveWebSocket(s, l) ==
  /\ pc[s] = "idle" /\ via[s] = Null
  /\ l \in serving
  /\ via' = [via EXCEPT ![s] = l]
  /\ UNCHANGED <<vars, http, shutdownVars, misused>>

AuthenticateRequest(s, role, r) ==
  /\ via[s] # Null
  /\ Authenticate(s, role, r)
  /\ UsesStore
  /\ UNCHANGED <<via, http, shutdownVars>>

\* The request does not parse, or authenticateSession refuses it.
RefuseRequest(s) ==
  /\ pc[s] = "idle" /\ via[s] # Null
  /\ via' = [via EXCEPT ![s] = Null]
  /\ UNCHANGED misused \/ UsesStore
  /\ UNCHANGED <<vars, http, shutdownVars>>

MutReadRowFirst(s) ==
  /\ BeginWebSocket(s) \/ RefuseWebSocket(s)
  /\ UsesStore
  /\ UNCHANGED <<via, http, shutdownVars>>

\* The registration reads the device row, unless the relay is shutting down:
\* the test of shuttingDown comes first.
RegisterOrRefuse(s) ==
  /\ BeginWebSocket(s) \/ RefuseWebSocket(s)
  /\ IF shuttingDown THEN UNCHANGED misused ELSE UsesStore
  /\ UNCHANGED <<via, http, shutdownVars>>

\* The steps of a handler that do not touch the database.
QuietStep(s) ==
  /\ \/ Accept(s)
     \/ ReadFails(s) \/ ReadBadFrame(s)
     \/ \E f \in Frame : ReadFrame(s, f)
     \/ LookUpTarget(s) \/ WriteRaw(s)
     \/ RemoveSession(s) \/ Finish(s)
     \/ CloseSocket(s) \/ Disconnect(s)
  /\ UNCHANGED life

ArriveHTTP(l) ==
  /\ l \in serving
  /\ http[l] < MaxRequests
  /\ http' = [http EXCEPT ![l] = @ + 1]
  /\ UNCHANGED <<vars, via, shutdownVars, misused>>

\* A plain request does its work, which may approve or revoke a device.
HandleHTTP(l) ==
  /\ http[l] > 0
  /\ http' = [http EXCEPT ![l] = @ - 1]
  /\ \/ \E r \in Routes : Approve(r) \/ RevokeDevice(r)
     \/ UNCHANGED vars
  /\ UsesStore
  /\ UNCHANGED <<via, shutdownVars>>

-----------------------------------------------------------------------------
(* Shutdown *)

\* SIGINT or SIGTERM.
Signal ==
  /\ ~cancelled
  /\ cancelled' = TRUE
  /\ UNCHANGED <<vars, via, http, accepting, serving, broken, stage, late,
                 results, result, misused>>

\* httpServer.Serve returns with an error, and serve cancels its context.
ListenerFails(l) ==
  /\ l \in accepting
  /\ accepting' = accepting \ {l}
  /\ broken' = broken \cup {l}
  /\ UNCHANGED <<vars, via, http, serving, stage, late, cancelled, results,
                 result, misused>>

\* What the goroutine of serve waits for.
ContextDone(l) == cancelled \/ l \in broken

\* shutdown starts its timer and calls beginShutdown, whose body runs once.
StartShutdown(l) ==
  /\ stage[l] = "waiting"
  /\ ContextDone(l)
  /\ IF shuttingDown THEN UNCHANGED vars ELSE BeginShutdown
  /\ StageIs(l, "begun")
  /\ UNCHANGED <<via, http, accepting, serving, broken, late, cancelled,
                 results, result, misused>>

\* httpServer.Shutdown closes the listener; httpServer.Serve returns.
CloseListener(l) ==
  /\ stage[l] = "begun"
  /\ accepting' = accepting \ {l}
  /\ StageIs(l, "closing")
  /\ UNCHANGED <<vars, via, http, serving, broken, late, cancelled, results,
                 result, misused>>

\* The requests of l that http.Server knows of.
Handling(l) ==
  http[l] > 0 \/ \E s \in Sockets : via[s] = l /\ pc[s] \in {"idle", "admitted"}

\* httpServer.Shutdown returns: it has closed every connection of l that it
\* knows of, or it gives up and leaves them.
ShutdownReturns(l) ==
  /\ stage[l] = "closing"
  /\ \/ /\ ~Handling(l)
        /\ serving' = serving \ {l}
        /\ StageIs(l, "drain")
     \/ /\ l \in late
        /\ UNCHANGED serving
        /\ StageIs(l, "failed")
  /\ UNCHANGED <<vars, via, http, accepting, broken, late, cancelled, results,
                 result, misused>>

MutNoDrain(l) ==
  /\ stage[l] = "drain"
  /\ StageIs(l, "drained")
  /\ UNCHANGED <<vars, via, http, accepting, serving, broken, late, cancelled,
                 results, result, misused>>

MutNoDeadline(l) ==
  /\ stage[l] = "drain"
  /\ done /\ StageIs(l, "drained")
  /\ UNCHANGED <<vars, via, http, accepting, serving, broken, late, cancelled,
                 results, result, misused>>

\* The select of shutdown: webSocketsDone or the deadline.
AwaitWebSockets(l) ==
  /\ stage[l] = "drain"
  /\ \/ done /\ StageIs(l, "drained")
     \/ l \in late /\ StageIs(l, "failed")
  /\ UNCHANGED <<vars, via, http, accepting, serving, broken, late, cancelled,
                 results, result, misused>>

Timeout(l) ==
  /\ stage[l] \in {"begun", "closing", "drain"}
  /\ l \notin late
  /\ late' = late \cup {l}
  /\ UNCHANGED <<vars, via, http, accepting, serving, broken, stage,
                 cancelled, results, result, misused>>

\* The error of the listener goes before that of the shutdown.
ServeResult(l) ==
  IF l \in broken \/ stage[l] = "failed" THEN "error" ELSE "nil"

\* serve returns, and with the first result serveBoth cancels the context.
ServeReturns(l) ==
  /\ stage[l] \in {"drained", "failed"}
  /\ results' = Append(results, ServeResult(l))
  /\ cancelled' = TRUE
  /\ StageIs(l, "returned")
  /\ UNCHANGED <<vars, via, http, accepting, serving, broken, late, result,
                 misused>>

MutFirstResult == results[1]

\* first if it is an error, second otherwise.
BothResult == IF results[1] # "nil" THEN results[1] ELSE results[Len(results)]

\* Serve returns, and runServe closes the database.
Return ==
  /\ Len(results) = Cardinality(Listeners)
  /\ result = "none"
  /\ result' = BothResult
  /\ UNCHANGED <<vars, via, http, accepting, serving, broken, stage, late,
                 cancelled, results, misused>>

-----------------------------------------------------------------------------
(* The specification *)

ServeStep(l) ==
  \/ StartShutdown(l)
  \/ CloseListener(l)
  \/ ShutdownReturns(l)
  \/ AwaitWebSockets(l)
  \/ ServeReturns(l)

LifeNext ==
  \/ \E s \in Sockets :
       \/ \E l \in Listeners : ArriveWebSocket(s, l)
       \/ \E role \in Roles, r \in Routes : AuthenticateRequest(s, role, r)
       \/ RefuseRequest(s)
       \/ RegisterOrRefuse(s)
       \/ QuietStep(s)
  \/ \E l \in Listeners :
       \/ ArriveHTTP(l)
       \/ HandleHTTP(l)
       \/ ListenerFails(l)
       \/ ServeStep(l)
       \/ Timeout(l)
  \/ Signal
  \/ WebSocketsDone /\ UNCHANGED life
  \/ Return

LifeSpec == LifeInit /\ [][LifeNext]_lifeVars

\* The goroutines of serve run, and time passes.  Nothing is assumed of the
\* handlers, of the remote ends, or of a signal.
LifeFairness ==
  /\ \A l \in Listeners :
       WF_lifeVars(ServeStep(l)) /\ WF_lifeVars(Timeout(l))
  /\ WF_lifeVars(Return)

FairLifeSpec == LifeSpec /\ LifeFairness

-----------------------------------------------------------------------------
(* Properties *)

\* When Serve returns without an error, no listener is open, no request is
\* being handled on either of them, no session is registered and none can be
\* any more.  The only handlers that may be left, and the only ones with an
\* open connection, are those that websocket.Accept has just returned to and
\* that have not called beginWebSocket: neither http.Server nor the wait
\* group knows of them.
CleanStopIsQuiet ==
  result = "nil" =>
    /\ accepting = {}
    /\ \A l \in Listeners : http[l] = 0
    /\ \A s \in Sockets : via[s] # Null => pc[s] \in {"accepted", "done"}
    /\ \A s \in Sockets : conn[s] = "open" => pc[s] = "accepted"
    /\ \A k \in Keys : hosts[k] = Null /\ devices[k] = Null
    /\ shuttingDown

\* The database is closed under a handler only if a timeout has expired,
\* although a WebSocket handler between Accept and its registration is
\* known neither to http.Server nor to the wait group.
StoreOutlivesHandlers == misused => late # {}

\* An error of a listener or of a shutdown is not lost between the two serve
\* calls, and the ports are free when Serve returns.
ErrorsSurface ==
  result # "none" =>
    /\ accepting = {}
    /\ result = "error" <=>
         broken # {} \/ \E i \in DOMAIN results : results[i] = "error"

\* A signal, or the failure of one of two listeners, ends the process, even
\* if handlers hang and no remote end answers.
StopsInTheEnd == (cancelled \/ broken # {}) ~> (result # "none")

=============================================================================
