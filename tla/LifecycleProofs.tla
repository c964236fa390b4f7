-------------------------- MODULE LifecycleProofs ---------------------------
(***************************************************************************)
(* Theorems about Lifecycle, which adds the process around the sessions:   *)
(* what holds of the sessions holds in a relay with one or two listeners,  *)
(* which comes to rest before Serve returns without an error, loses no     *)
(* error, and closes the database under a handler only after a timeout.    *)
(***************************************************************************)
EXTENDS Lifecycle, SessionsProofs

\* The leaves go to Zenon; the ones that need more name their prover.
USE Zenon

-----------------------------------------------------------------------------
(* The process keeps what its sessions promise *)

\* What a step does to the sessions is a step of Sessions.
LEMMA LifeStepCases ==
  ASSUME LifeNext
  PROVE  \/ UNCHANGED vars
         \/ \E s \in Sockets, role \in Roles, r \in Routes :
              AuthenticateRequest(s, role, r)
         \/ \E s \in Sockets : RegisterOrRefuse(s)
         \/ \E s \in Sockets : QuietStep(s)
         \/ \E l \in Listeners : HandleHTTP(l)
         \/ \E l \in Listeners : StartShutdown(l)
         \/ WebSocketsDone
  BY DEF LifeNext, ServeStep, ArriveWebSocket, RefuseRequest, ArriveHTTP,
         ListenerFails, CloseListener, ShutdownReturns, AwaitWebSockets,
         ServeReturns, Timeout, Signal, Return

LEMMA LifeStepIsStep ==
  ASSUME [LifeNext]_lifeVars
  PROVE  [Next]_vars
<1>1. CASE UNCHANGED lifeVars
  BY <1>1 DEF lifeVars
<1>2. ASSUME NEW s \in Sockets, NEW role \in Roles, NEW r \in Routes,
             AuthenticateRequest(s, role, r)
      PROVE  Next
  BY <1>2 DEF AuthenticateRequest, Next, RemoteStep
<1>3. ASSUME NEW s \in Sockets, RegisterOrRefuse(s)
      PROVE  Next
  BY <1>3 DEF RegisterOrRefuse, Next, HandlerStep
<1>4. ASSUME NEW s \in Sockets, QuietStep(s)
      PROVE  Next
  BY <1>4 DEF QuietStep, Next, HandlerStep, RemoteStep
<1>5. ASSUME NEW l \in Listeners, HandleHTTP(l)
      PROVE  [Next]_vars
  BY <1>5 DEF HandleHTTP, Next
<1>6. ASSUME NEW l \in Listeners, StartShutdown(l)
      PROVE  [Next]_vars
  BY <1>6 DEF StartShutdown, Next
<1>7. QED
  BY <1>1, <1>2, <1>3, <1>4, <1>5, <1>6, LifeStepCases DEF Next

LEMMA ProcessIsSessions == LifeSpec => Spec
<1>1. LifeInit => Init
  BY DEF LifeInit
<1>2. QED
  BY <1>1, LifeStepIsStep, PTL DEF LifeSpec, Spec

\* What holds of the sessions alone holds of them in the process, whatever its
\* listeners, its timeouts and a failing listener do: the tables hold live
\* sessions of active devices, an evicted session is being closed and stays
\* out, a device hears one host, and webSocketsDone closes after the last
\* handler.
THEOREM TheProcessKeepsSessions ==
  LifeSpec => /\ [](EntriesAreLive /\ RegisteredIsActive)
              /\ []EvictedIsClosing
              /\ EvictionIsFinal
              /\ []DeviceHearsOneHost
              /\ [](WaitGroupCounts /\ DoneMeansDrained)
  BY ProcessIsSessions, EveryEntryIsLive, EveryEvictedIsClosing,
     EveryEvictionIsFinal, EveryDeviceHearsOneHost, TheDrainIsSound, PTL

-----------------------------------------------------------------------------
(* The invariant *)

\* No connection of l is left that may bring or hold a request.
Closed(l) == l \notin serving /\ ~Handling(l)

HasError == \E i \in DOMAIN results : results[i] = "error"

StageOK(l) ==
  /\ stage[l] \notin {"waiting", "begun"} => l \notin accepting
  /\ stage[l] \in {"drain", "drained"} => Closed(l)
  /\ stage[l] = "drained" => done
  /\ stage[l] = "failed" => l \in late
  /\ stage[l] = "returned" =>
       /\ l \in late \/ (Closed(l) /\ done)
       /\ HasError \/ (Closed(l) /\ done /\ l \notin broken)

Returned == {l \in Listeners : stage[l] = "returned"}

ResultOK ==
  result # "none" => Returned = Listeners /\ result = BothResult

\* A handler past authentication came through a listener, and its connection
\* is open only between Accept and its last step.
HandlersOK ==
  \A s \in Sockets :
    /\ pc[s] = "admitted" => via[s] # Null
    /\ conn[s] = "open" => pc[s] \notin {"idle", "admitted", "done"}

LifeInv ==
  /\ LifeTypeOK
  /\ HandlersOK
  /\ \A l \in Listeners : StageOK(l)
  /\ Len(results) = Cardinality(Returned)
  /\ ResultOK
  /\ StoreOutlivesHandlers

-----------------------------------------------------------------------------
(* Requests *)

\* The steps that leave the shutdown alone.
RequestStep ==
  \/ \E s \in Sockets :
       \/ \E l \in Listeners : ArriveWebSocket(s, l)
       \/ \E role \in Roles, r \in Routes : AuthenticateRequest(s, role, r)
       \/ RefuseRequest(s)
       \/ RegisterOrRefuse(s)
       \/ QuietStep(s)
  \/ \E l \in Listeners : ArriveHTTP(l) \/ HandleHTTP(l)
  \/ WebSocketsDone /\ UNCHANGED life
  \/ UNCHANGED lifeVars

\* The steps of the serve calls leave the requests alone.
ServerStep ==
  \/ \E l \in Listeners : ListenerFails(l) \/ ServeStep(l) \/ Timeout(l)
  \/ Signal
  \/ Return

LEMMA LifeCases ==
  ASSUME [LifeNext]_lifeVars
  PROVE  RequestStep \/ ServerStep
  BY DEF LifeNext, RequestStep, ServerStep

LEMMA RequestFrame ==
  ASSUME RequestStep
  PROVE  UNCHANGED <<accepting, serving, broken, stage, late, cancelled,
                     results, result>>
  BY DEF RequestStep, ArriveWebSocket, AuthenticateRequest, RefuseRequest,
         RegisterOrRefuse, QuietStep, ArriveHTTP, HandleHTTP, life, lifeVars,
         shutdownVars

LEMMA ServerFrame ==
  ASSUME ServerStep
  PROVE  UNCHANGED <<via, http, misused>>
  BY DEF ServerStep, ServeStep, ListenerFails, StartShutdown, CloseListener,
         ShutdownReturns, AwaitWebSockets, ServeReturns, Timeout, Signal, Return

\* A handler is known to http.Server only before its Accept.
LEMMA EarlySince ==
  ASSUME SessionsInv, [Next]_vars, NEW x \in Sockets,
         pc'[x] \in {"idle", "admitted"}
  PROVE  pc[x] \in {"idle", "admitted"}
<1> USE DEF TypeOK
<1>   TypeOK
  BY DEF SessionsInv
<1>1. ASSUME NEW s \in Sockets, NEW role \in Roles, NEW r \in Routes,
             Authenticate(s, role, r)
      PROVE  pc[x] \in {"idle", "admitted"}
  BY <1>1 DEF Authenticate, Goto
<1>2. ASSUME NEW s \in Sockets, LocalStep(s)
      PROVE  pc[x] \in {"idle", "admitted"}
  BY <1>2, LocalEffect DEF LiveAt, Points
<1>3. ASSUME NEW s \in Sockets,
             BeginWebSocket(s) \/ RemoveSession(s) \/ Finish(s)
      PROVE  pc[x] \in {"idle", "admitted"}
  BY <1>3 DEF BeginWebSocket, RemoveSession, Finish, Goto
<1>4. ASSUME UNCHANGED pc
      PROVE  pc[x] \in {"idle", "admitted"}
  BY <1>4
<1>5. QED
  BY <1>1, <1>2, <1>3, <1>4, StepCases
  DEF Approve, RevokeDevice, BeginShutdown, WebSocketsDone, vars

LEMMA DoneStays ==
  ASSUME SessionsInv, [Next]_vars, done
  PROVE  done'
<1>1. ASSUME NEW s \in Sockets, LocalStep(s)
      PROVE  done' = done
  BY <1>1, LocalEffect DEF SessionsInv
<1>2. QED
  BY <1>1, StepCases
  DEF Authenticate, BeginWebSocket, RemoveSession, Finish, Approve,
      RevokeDevice, BeginShutdown, WebSocketsDone, vars, drain

\* A request comes only through a listener that still serves.
LEMMA RequestEffect ==
  ASSUME LifeTypeOK, RequestStep, NEW l \in Listeners, l \notin serving
  PROVE  /\ http'[l] <= http[l]
         /\ \A s \in Sockets : via'[s] = l => via[s] = l
<1> USE DEF LifeTypeOK
<1>1. ASSUME NEW s \in Sockets, NEW m \in Listeners, ArriveWebSocket(s, m)
      PROVE  http' = http /\ \A x \in Sockets : via'[x] = l => via[x] = l
  BY <1>1 DEF ArriveWebSocket
<1>2. ASSUME NEW s \in Sockets, RefuseRequest(s)
      PROVE  http' = http /\ \A x \in Sockets : via'[x] = l => via[x] = l
  BY <1>2, LifecycleConstants DEF RefuseRequest
<1>3. ASSUME NEW m \in Listeners, ArriveHTTP(m)
      PROVE  via' = via /\ http'[l] = http[l]
  BY <1>3 DEF ArriveHTTP
<1>4. ASSUME NEW m \in Listeners, HandleHTTP(m)
      PROVE  via' = via /\ http'[l] <= http[l]
  BY SMT, <1>4 DEF HandleHTTP
<1>5. ASSUME \/ \E s \in Sockets :
                  \/ \E role \in Roles, r \in Routes : AuthenticateRequest(s, role, r)
                  \/ RegisterOrRefuse(s)
                  \/ QuietStep(s)
             \/ WebSocketsDone /\ UNCHANGED life
             \/ UNCHANGED lifeVars
      PROVE  via' = via /\ http' = http
  BY <1>5 DEF AuthenticateRequest, RegisterOrRefuse, QuietStep, life, lifeVars
<1>6. http[l] \in Nat
  BY SMT, LifecycleConstants
<1>7. QED
  BY SMT, <1>1, <1>2, <1>3, <1>4, <1>5, <1>6 DEF RequestStep

\* What is closed stays closed.
LEMMA ClosedStays ==
  ASSUME SessionsInv, LifeTypeOK, [LifeNext]_lifeVars, NEW l \in Listeners,
         Closed(l)
  PROVE  Closed(l)'
<1>   [Next]_vars /\ http[l] \in Nat /\ http[l] = 0
  BY SMT, LifeStepIsStep, LifecycleConstants DEF Closed, Handling, LifeTypeOK
<1>1. l \notin serving'
  <2>1. CASE RequestStep
    BY <2>1, RequestFrame DEF Closed
  <2>2. CASE ServerStep
    BY <2>2 DEF Closed, ServerStep, ServeStep, ListenerFails, StartShutdown,
         CloseListener, ShutdownReturns, AwaitWebSockets, ServeReturns, Timeout,
         Signal, Return
  <2>3. QED
    BY <2>1, <2>2, LifeCases
<1>2. ~(http'[l] > 0) /\ \A s \in Sockets : via'[s] = l => via[s] = l
  <2>1. CASE RequestStep
    <3>1. http'[l] <= http[l] /\ \A s \in Sockets : via'[s] = l => via[s] = l
      BY <2>1, RequestEffect DEF Closed
    <3>2. http'[l] \in Int
      <4>1. http' = http \/ \E m \in Listeners :
              http' = [http EXCEPT ![m] = @ + 1] \/ http' = [http EXCEPT ![m] = @ - 1]
        BY <2>1 DEF RequestStep, ArriveWebSocket, AuthenticateRequest,
             RefuseRequest, RegisterOrRefuse, QuietStep, ArriveHTTP, HandleHTTP,
             life, lifeVars, shutdownVars
      <4>2. QED
        BY SMT, <4>1, LifecycleConstants DEF LifeTypeOK
    <3>3. QED
      BY SMT, <3>1, <3>2
  <2>2. CASE ServerStep
    BY SMT, <2>2, ServerFrame
  <2>3. QED
    BY <2>1, <2>2, LifeCases
<1>3. \A s \in Sockets : pc'[s] \in {"idle", "admitted"} =>
        pc[s] \in {"idle", "admitted"}
  BY EarlySince
<1>4. QED
  BY <1>1, <1>2, <1>3 DEF Closed, Handling

-----------------------------------------------------------------------------
(* Types and results *)

\* The types, but for the bound on the number of results.
LifeTypes ==
  /\ via \in [Sockets -> Listeners \cup {Null}]
  /\ http \in [Listeners -> 0 .. MaxRequests]
  /\ accepting \subseteq Listeners /\ serving \subseteq Listeners
  /\ broken \subseteq Listeners /\ late \subseteq Listeners
  /\ stage \in [Listeners -> Stages]
  /\ cancelled \in BOOLEAN
  /\ results \in Seq({"nil", "error"})
  /\ result \in {"none", "nil", "error"}
  /\ misused \in BOOLEAN

LEMMA TypesOfLife == LifeTypeOK => LifeTypes
  BY DEF LifeTypeOK, LifeTypes

\* What Serve returns, for one listener and for two.
LEMMA BothResultIs ==
  ASSUME LifeTypes, Len(results) = Cardinality(Listeners)
  PROVE  /\ BothResult \in {"nil", "error"}
         /\ BothResult = "error" <=> HasError
<1>1. Len(results) = 1 \/ Len(results) = 2
  BY LifecycleConstants
<1>   DOMAIN results = 1 .. Len(results) /\ \A i \in DOMAIN results : results[i] \in {"nil", "error"}
  BY SMT DEF LifeTypes
<1>3. CASE Len(results) = 1
  BY SMT, <1>3 DEF BothResult, HasError
<1>4. CASE Len(results) = 2
  <2>1. DOMAIN results = {1, 2}
    BY SMT, <1>4
  <2>2. QED
    BY <1>4, <2>1 DEF BothResult, HasError
<1>5. QED
  BY <1>1, <1>3, <1>4

LEMMA RequestTypes ==
  ASSUME LifeTypes, RequestStep
  PROVE  LifeTypes'
<1> USE DEF LifeTypes
<1>1. via' \in [Sockets -> Listeners \cup {Null}]
  BY DEF RequestStep, ArriveWebSocket, AuthenticateRequest, RefuseRequest,
         RegisterOrRefuse, QuietStep, ArriveHTTP, HandleHTTP, life, lifeVars
<1>2. http' \in [Listeners -> 0 .. MaxRequests]
  <2>1. http' = http
          \/ (\E m \in Listeners : http[m] < MaxRequests /\ http' = [http EXCEPT ![m] = @ + 1])
          \/ (\E m \in Listeners : http[m] > 0 /\ http' = [http EXCEPT ![m] = @ - 1])
    BY DEF RequestStep, ArriveWebSocket, AuthenticateRequest, RefuseRequest,
         RegisterOrRefuse, QuietStep, ArriveHTTP, HandleHTTP, life, lifeVars
  <2>2. QED
    BY SMT, <2>1, LifecycleConstants
<1>3. misused' \in BOOLEAN
  <2>1. misused' = misused \/ UsesStore
    BY DEF RequestStep, ArriveWebSocket, AuthenticateRequest, RefuseRequest,
         RegisterOrRefuse, QuietStep, ArriveHTTP, HandleHTTP, life, lifeVars
  <2>2. QED
    BY <2>1 DEF UsesStore
<1>4. QED
  BY <1>1, <1>2, <1>3, RequestFrame

LEMMA ServerTypes ==
  ASSUME LifeTypes, ServerStep, Return => Len(results) = Cardinality(Listeners)
  PROVE  LifeTypes'
<1> USE DEF LifeTypes
<1>   UNCHANGED <<via, http, misused>>
  BY ServerFrame
<1>2. ASSUME NEW l \in Listeners, ListenerFails(l) \/ Timeout(l)
      PROVE  LifeTypes'
  BY <1>2 DEF ListenerFails, Timeout
<1>3. ASSUME NEW l \in Listeners,
             \/ StartShutdown(l) \/ CloseListener(l)
             \/ ShutdownReturns(l) \/ AwaitWebSockets(l)
      PROVE  LifeTypes'
  BY <1>3 DEF StartShutdown, CloseListener, ShutdownReturns,
       AwaitWebSockets, StageIs, Stages
<1>4. ASSUME NEW l \in Listeners, ServeReturns(l)
      PROVE  LifeTypes'
  <2>1. ServeResult(l) \in {"nil", "error"}
    BY DEF ServeResult
  <2>2. results' \in Seq({"nil", "error"})
    BY SMT, <1>4, <2>1 DEF ServeReturns
  <2>3. QED
    BY <1>4, <2>2 DEF ServeReturns, StageIs, Stages
<1>5. ASSUME Signal
      PROVE  LifeTypes'
  BY <1>5 DEF Signal
<1>6. ASSUME Return
      PROVE  LifeTypes'
  <2>1. result' \in {"nil", "error"}
    BY <1>6, BothResultIs DEF Return
  <2>2. QED
    BY <1>6, <2>1 DEF Return
<1>7. QED
  BY <1>2, <1>3, <1>4, <1>5, <1>6 DEF ServerStep, ServeStep

LEMMA ReturnedFinite ==
  IsFiniteSet(Returned) /\ Cardinality(Returned) \in Nat
    /\ Cardinality(Returned) <= Cardinality(Listeners)
    /\ (Cardinality(Returned) = Cardinality(Listeners) => Returned = Listeners)
<1>1. Returned \subseteq Listeners
  BY DEF Returned
<1>2. QED
  BY <1>1, LifecycleConstants, FS_Subset, FS_CardinalityType

\* A step of the shutdown moves one serve call, or none.
LEMMA ReturnedStep ==
  ASSUME LifeTypes, [LifeNext]_lifeVars
  PROVE  \/ Returned' = Returned /\ results' = results
         \/ \E l \in Listeners \ Returned :
              ServeReturns(l) /\ Returned' = Returned \cup {l}
<1> USE DEF LifeTypes
<1>1. CASE RequestStep
  BY <1>1, RequestFrame DEF Returned
<1>2. ASSUME NEW l \in Listeners,
             \/ StartShutdown(l) \/ CloseListener(l)
             \/ ShutdownReturns(l) \/ AwaitWebSockets(l)
      PROVE  Returned' = Returned /\ results' = results
  <2>1. results' = results
    BY <1>2 DEF StartShutdown, CloseListener, ShutdownReturns, AwaitWebSockets
  <2>2. \A m \in Listeners : stage'[m] = "returned" <=> stage[m] = "returned"
    BY <1>2 DEF StartShutdown, CloseListener, ShutdownReturns,
         AwaitWebSockets, StageIs
  <2>3. QED
    BY <2>1, <2>2 DEF Returned
<1>3. ASSUME NEW l \in Listeners, ServeReturns(l)
      PROVE  l \notin Returned /\ Returned' = Returned \cup {l}
  BY <1>3 DEF ServeReturns, StageIs, Returned
<1>4. ASSUME \/ \E l \in Listeners : ListenerFails(l) \/ Timeout(l)
             \/ Signal \/ Return
      PROVE  Returned' = Returned /\ results' = results
  BY <1>4 DEF ListenerFails, Timeout, Signal, Return, Returned
<1>5. QED
  BY <1>1, <1>2, <1>3, <1>4, LifeCases DEF ServerStep, ServeStep

LEMMA CountStep ==
  ASSUME LifeInv, [LifeNext]_lifeVars
  PROVE  LifeTypeOK' /\ Len(results') = Cardinality(Returned')
<1>   LifeTypes /\ Len(results) = Cardinality(Returned)
  BY TypesOfLife DEF LifeInv
<1>1. LifeTypes'
  BY LifeCases, RequestTypes, ServerTypes DEF Return
<1>2. Len(results') = Cardinality(Returned')
  <2>1. ASSUME NEW l \in Listeners \ Returned, ServeReturns(l),
               Returned' = Returned \cup {l}
        PROVE  Len(results') = Cardinality(Returned')
    <3>1. Cardinality(Returned') = Cardinality(Returned) + 1
      BY <2>1, ReturnedFinite, FS_AddElement
    <3>2. Len(results') = Len(results) + 1
      <4>1. results' = Append(results, ServeResult(l)) /\ ServeResult(l) \in {"nil", "error"}
        BY <2>1 DEF ServeReturns, ServeResult
      <4>2. QED
        BY SMT, <4>1 DEF LifeTypes
    <3>3. QED
      BY <3>1, <3>2
  <2>2. QED
    BY <2>1, ReturnedStep
<1>3. Cardinality(Returned') <= Cardinality(Listeners)
  <2>1. Returned' \subseteq Listeners
    BY DEF Returned
  <2>2. QED
    BY <2>1, LifecycleConstants, FS_Subset
<1>4. QED
  BY <1>1, <1>2, <1>3 DEF LifeTypes, LifeTypeOK

-----------------------------------------------------------------------------
(* The stages of a serve call *)

\* Results are only added.
LEMMA ErrorStays ==
  ASSUME LifeTypes, [LifeNext]_lifeVars, HasError
  PROVE  HasError'
<1>1. PICK i \in DOMAIN results : results[i] = "error"
  BY DEF HasError
<1>2. ASSUME NEW l \in Listeners, ServeReturns(l)
      PROVE  HasError'
  <2>1. results' = Append(results, ServeResult(l)) /\ ServeResult(l) \in {"nil", "error"}
    BY <1>2 DEF ServeReturns, ServeResult
  <2>2. i \in DOMAIN results' /\ results'[i] = results[i]
    BY SMT, <1>1, <2>1 DEF LifeTypes
  <2>3. QED
    BY <1>1, <2>2 DEF HasError
<1>3. QED
  BY <1>2, ReturnedStep DEF HasError

\* A serve call that does not move keeps what its stage promises.
LEMMA StageStays ==
  ASSUME SessionsInv, LifeInv, [LifeNext]_lifeVars, NEW l \in Listeners,
         stage'[l] = stage[l], accepting' \subseteq accepting,
         late \subseteq late',
         l \in broken' => l \in broken \/ stage[l] # "returned"
  PROVE  StageOK(l)'
<1>   StageOK(l) /\ LifeTypeOK /\ LifeTypes /\ [Next]_vars
  BY TypesOfLife, LifeStepIsStep DEF LifeInv
<1>2. Closed(l) => Closed(l)'
  BY ClosedStays
<1>3. done => done'
  BY DoneStays
<1>4. HasError => HasError'
  BY ErrorStays
<1>5. QED
  BY <1>2, <1>3, <1>4 DEF StageOK

LEMMA StagesStep ==
  ASSUME SessionsInv, LifeInv, [LifeNext]_lifeVars, NEW l \in Listeners
  PROVE  StageOK(l)'
<1> USE DEF LifeTypes
<1>   /\ StageOK(l) /\ LifeTypeOK /\ LifeTypes /\ [Next]_vars
      /\ \A x \in Listeners : StageOK(x)
  BY TypesOfLife, LifeStepIsStep DEF LifeInv
<1>1. CASE RequestStep
  <2>1. UNCHANGED <<stage, accepting, late, broken>>
    BY <1>1, RequestFrame
  <2>2. QED
    BY <2>1, StageStays
<1>2. ASSUME NEW m \in Listeners, ListenerFails(m)
      PROVE  StageOK(l)'
  <2>1. /\ stage' = stage /\ late' = late /\ accepting' \subseteq accepting
        /\ broken' = broken \cup {m} /\ m \in accepting
    BY <1>2 DEF ListenerFails
  <2>2. stage[m] # "returned"
    BY <2>1 DEF StageOK
  <2>3. QED
    BY <2>1, <2>2, StageStays
<1>3. ASSUME Signal \/ Return \/ \E m \in Listeners : Timeout(m)
      PROVE  StageOK(l)'
  <2>1. /\ stage' = stage /\ late \subseteq late' /\ accepting' = accepting
        /\ broken' = broken
    BY <1>3 DEF Signal, Return, Timeout
  <2>2. QED
    BY <2>1, StageStays
<1>4. ASSUME NEW m \in Listeners, ServeStep(m)
      PROVE  /\ late' = late /\ accepting' \subseteq accepting
             /\ broken' = broken
             /\ l # m => stage'[l] = stage[l]
  BY <1>4 DEF ServeStep, StartShutdown, CloseListener, ShutdownReturns,
       AwaitWebSockets, ServeReturns, StageIs
<1>5. ASSUME NEW m \in Listeners, ServeStep(m), m # l
      PROVE  StageOK(l)'
  BY <1>4, <1>5, StageStays
<1>6. CASE StartShutdown(l)
  BY <1>6 DEF StartShutdown, StageIs, StageOK
<1>7. CASE CloseListener(l)
  BY <1>7 DEF CloseListener, StageIs, StageOK
<1>8. CASE ShutdownReturns(l)
  <2>1. l \notin accepting /\ accepting' = accepting /\ late' = late
    BY <1>8 DEF ShutdownReturns, StageOK
  <2>2. CASE ~Handling(l) /\ serving' = serving \ {l} /\ StageIs(l, "drain")
    <3>1. UNCHANGED <<http, via, pc>>
      BY <1>8 DEF ShutdownReturns, vars
    <3>2. Closed(l)'
      BY <2>2, <3>1 DEF Closed, Handling
    <3>3. QED
      BY <2>1, <2>2, <3>2 DEF StageIs, StageOK
  <2>3. CASE l \in late /\ StageIs(l, "failed")
    BY <2>1, <2>3 DEF StageIs, StageOK
  <2>4. QED
    BY <1>8, <2>2, <2>3 DEF ShutdownReturns
<1>9. CASE AwaitWebSockets(l)
  <2>   /\ l \notin accepting /\ accepting' = accepting /\ late' = late
        /\ Closed(l)
    BY <1>9 DEF AwaitWebSockets, StageOK
  <2>2. Closed(l)' /\ (done => done')
    BY ClosedStays, DoneStays
  <2>3. CASE done /\ StageIs(l, "drained")
    BY <2>2, <2>3 DEF StageIs, StageOK
  <2>4. CASE l \in late /\ StageIs(l, "failed")
    BY <2>4 DEF StageIs, StageOK
  <2>5. QED
    BY <1>9, <2>3, <2>4 DEF AwaitWebSockets
<1>10. CASE ServeReturns(l)
  <2>   /\ stage'[l] = "returned" /\ l \notin accepting' /\ late' = late
        /\ broken' = broken /\ stage[l] \in {"drained", "failed"}
        /\ results' = Append(results, ServeResult(l))
        /\ ServeResult(l) \in {"nil", "error"}
    BY <1>10 DEF ServeReturns, StageIs, StageOK, ServeResult
  <2>2. Closed(l) /\ done => Closed(l)' /\ done'
    BY ClosedStays, DoneStays
  <2>3. ServeResult(l) = "error" => HasError'
    <3>1. Len(results) + 1 \in DOMAIN results' /\ results'[Len(results) + 1] = ServeResult(l)
      BY SMT
    <3>2. QED
      BY <3>1 DEF HasError
  <2>4. CASE stage[l] = "drained"
    BY <2>2, <2>3, <2>4 DEF StageOK, ServeResult
  <2>5. CASE stage[l] = "failed"
    BY <2>3, <2>5 DEF StageOK, ServeResult
  <2>6. QED
    BY <2>4, <2>5
<1>11. QED
  BY <1>1, <1>2, <1>3, <1>5, <1>6, <1>7, <1>8, <1>9, <1>10, LifeCases
  DEF ServerStep, ServeStep

-----------------------------------------------------------------------------
(* The result, and the database *)

LEMMA ResultStep ==
  ASSUME LifeInv, [LifeNext]_lifeVars
  PROVE  ResultOK'
<1>   /\ LifeTypes /\ ResultOK /\ Len(results) = Cardinality(Returned)
  BY TypesOfLife DEF LifeInv
<1> SUFFICES ASSUME result' # "none"
             PROVE  Returned' = Listeners /\ result' = BothResult'
  BY DEF ResultOK
<1>1. CASE Return
  <2>1. Returned' = Returned /\ results' = results /\ result' = BothResult
    BY <1>1 DEF Return, Returned
  <2>2. Returned = Listeners
    BY <1>1, ReturnedFinite DEF Return
  <2>3. QED
    BY <2>1, <2>2 DEF BothResult
<1>2. CASE ~Return
  <2>1. result' = result
    <3>1. CASE RequestStep
      BY <3>1, RequestFrame
    <3>2. CASE ServerStep
      BY <1>2, <3>2 DEF ServerStep, ServeStep, ListenerFails, StartShutdown,
           CloseListener, ShutdownReturns, AwaitWebSockets, ServeReturns,
           Timeout, Signal
    <3>3. QED
      BY <3>1, <3>2, LifeCases
  <2>2. Returned = Listeners /\ result = BothResult
    BY <2>1 DEF ResultOK
  <2>3. Returned' = Returned /\ results' = results
    BY <2>2, ReturnedStep
  <2>4. QED
    BY <2>1, <2>2, <2>3 DEF BothResult
<1>3. QED
  BY <1>1, <1>2

\* Once every serve call has returned in time, no request is left that could
\* use the database.
LEMMA NobodyLeft ==
  ASSUME SessionsInv, LifeInv, StoreClosed, late = {}
  PROVE  done /\ shuttingDown /\ \A l \in Listeners : ~Handling(l)
<1>1. Returned = Listeners
  BY DEF LifeInv, ResultOK, StoreClosed
<1>2. ASSUME NEW l \in Listeners
      PROVE  ~Handling(l) /\ done
  BY <1>1 DEF LifeInv, StageOK, Returned, Closed
<1>3. \E l \in Listeners : TRUE
  <2>1. Listeners # {}
    BY SMT, LifecycleConstants, FS_EmptySet
  <2>2. QED
    BY <2>1
<1>4. QED
  BY <1>2, <1>3 DEF SessionsInv, DrainOK

LEMMA StoreStep ==
  ASSUME SessionsInv, LifeInv, [LifeNext]_lifeVars
  PROVE  StoreOutlivesHandlers'
<1> SUFFICES ASSUME misused'
             PROVE  late' # {}
  BY DEF StoreOutlivesHandlers
<1>   LifeTypes /\ (misused => late # {})
  BY TypesOfLife DEF LifeInv, StoreOutlivesHandlers
<1>1. late \subseteq late'
  <2>1. CASE RequestStep
    BY <2>1, RequestFrame
  <2>2. CASE ServerStep
    BY <2>2 DEF ServerStep, ServeStep, ListenerFails, StartShutdown,
         CloseListener, ShutdownReturns, AwaitWebSockets, ServeReturns,
         Timeout, Signal, Return
  <2>3. QED
    BY <2>1, <2>2, LifeCases
<1> SUFFICES ASSUME ~misused, late = {}
             PROVE  FALSE
  BY <1>1
<1>2. RequestStep
  BY LifeCases, ServerFrame
<1>3. ASSUME UsesStore
      PROVE  done /\ shuttingDown /\ \A l \in Listeners : ~Handling(l)
  BY <1>3, NobodyLeft DEF UsesStore
<1>4. ASSUME NEW s \in Sockets, NEW role \in Roles, NEW r \in Routes,
             AuthenticateRequest(s, role, r)
      PROVE  FALSE
  <2>1. UsesStore /\ via[s] # Null /\ pc[s] = "idle"
    BY <1>4 DEF AuthenticateRequest, Authenticate
  <2>2. via[s] \in Listeners
    BY <2>1 DEF LifeTypes
  <2>3. QED
    BY <1>3, <2>1, <2>2 DEF Handling
<1>5. ASSUME NEW s \in Sockets, RefuseRequest(s)
      PROVE  FALSE
  <2>1. UsesStore /\ via[s] # Null /\ pc[s] = "idle"
    BY <1>5 DEF RefuseRequest
  <2>2. via[s] \in Listeners
    BY <2>1 DEF LifeTypes
  <2>3. QED
    BY <1>3, <2>1, <2>2 DEF Handling
<1>6. ASSUME NEW s \in Sockets, RegisterOrRefuse(s)
      PROVE  FALSE
  <2>1. ~shuttingDown /\ UsesStore
    BY <1>6 DEF RegisterOrRefuse
  <2>2. QED
    BY <1>3, <2>1
<1>7. ASSUME NEW l \in Listeners, HandleHTTP(l)
      PROVE  FALSE
  <2>1. UsesStore /\ http[l] > 0
    BY <1>7 DEF HandleHTTP
  <2>2. QED
    BY <1>3, <2>1 DEF Handling
<1>8. ASSUME \/ \E s \in Sockets :
                  (\E l \in Listeners : ArriveWebSocket(s, l)) \/ QuietStep(s)
             \/ \E l \in Listeners : ArriveHTTP(l)
             \/ WebSocketsDone /\ UNCHANGED life
             \/ UNCHANGED lifeVars
      PROVE  FALSE
  BY <1>8 DEF ArriveWebSocket, QuietStep, ArriveHTTP, life, lifeVars
<1>9. QED
  BY <1>2, <1>4, <1>5, <1>6, <1>7, <1>8 DEF RequestStep

-----------------------------------------------------------------------------
(* The handlers *)

\* Where the connection of a handler is open.
LEMMA OpenStep ==
  ASSUME SessionsInv, [Next]_vars, NEW x \in Sockets,
         conn[x] = "open" => pc[x] \notin {"idle", "admitted", "done"},
         conn'[x] = "open"
  PROVE  pc'[x] \notin {"idle", "admitted", "done"}
<1> USE DEF TypeOK
<1>   TypeOK
  BY DEF SessionsInv
<1>1. ASSUME NEW s \in Sockets,
             \/ \E role \in Roles, r \in Routes : Authenticate(s, role, r)
             \/ Accept(s) \/ RefuseWebSocket(s)
      PROVE  pc'[x] \notin {"idle", "admitted", "done"}
  BY <1>1 DEF Authenticate, Accept, RefuseWebSocket, Close, Goto
<1>2. ASSUME NEW s \in Sockets,
             \/ ReadFails(s) \/ ReadBadFrame(s)
             \/ \E f \in Frame : ReadFrame(s, f)
             \/ LookUpTarget(s) \/ WriteRaw(s)
      PROVE  pc'[x] \notin {"idle", "admitted", "done"}
  BY <1>2 DEF ReadFails, ReadBadFrame, ReadFrame, LookUpTarget, WriteRaw,
       CloseAndExit, Close, Goto
<1>3. ASSUME NEW s \in Sockets, CloseSocket(s) \/ Disconnect(s)
      PROVE  pc'[x] \notin {"idle", "admitted", "done"}
  BY <1>3 DEF CloseSocket, Disconnect, Close
<1>4. ASSUME NEW s \in Sockets,
             BeginWebSocket(s) \/ RemoveSession(s) \/ Finish(s)
      PROVE  pc'[x] \notin {"idle", "admitted", "done"}
  BY <1>4 DEF BeginWebSocket, RemoveSession, Finish, Close, Goto
<1>5. ASSUME UNCHANGED <<pc, conn>>
      PROVE  pc'[x] \notin {"idle", "admitted", "done"}
  BY <1>5
<1>6. QED
  BY <1>1, <1>2, <1>3, <1>4, <1>5, StepCases
  DEF LocalStep, Approve, RevokeDevice, BeginShutdown, WebSocketsDone, vars

\* A handler is admitted only with a request, which it then keeps.
LEMMA AdmittedStep ==
  ASSUME SessionsInv, LifeTypes, [LifeNext]_lifeVars, NEW x \in Sockets,
         pc[x] = "admitted" => via[x] # Null,
         pc'[x] = "admitted"
  PROVE  via'[x] # Null
<1> USE DEF TypeOK, LifeTypes
<1>   TypeOK /\ [Next]_vars /\ pc[x] \in {"idle", "admitted"}
  BY EarlySince, LifeStepIsStep DEF SessionsInv
<1>1. ASSUME NEW s \in Sockets, NEW role \in Roles, NEW r \in Routes,
             AuthenticateRequest(s, role, r)
      PROVE  via'[x] # Null
  BY <1>1 DEF AuthenticateRequest, Authenticate, Goto
<1>2. CASE pc[x] = "admitted"
  <2>1. ASSUME NEW s \in Sockets, NEW l \in Listeners, ArriveWebSocket(s, l)
        PROVE  via'[x] # Null
    BY <1>2, <2>1 DEF ArriveWebSocket
  <2>2. ASSUME NEW s \in Sockets, RefuseRequest(s)
        PROVE  via'[x] # Null
    BY <1>2, <2>2 DEF RefuseRequest
  <2>3. CASE via' = via
    BY <1>2, <2>3
  <2>4. via' = via \/ (\E s \in Sockets : RefuseRequest(s))
          \/ (\E s \in Sockets, l \in Listeners : ArriveWebSocket(s, l))
    <3>1. CASE RequestStep
      BY <3>1 DEF RequestStep, AuthenticateRequest, RegisterOrRefuse, QuietStep,
           ArriveHTTP, HandleHTTP, life, lifeVars
    <3>2. QED
      BY <3>1, LifeCases, ServerFrame
  <2>5. QED
    BY <2>1, <2>2, <2>3, <2>4
<1>3. CASE pc[x] = "idle"
  <2>1. \E s \in Sockets, role \in Roles, r \in Routes :
          AuthenticateRequest(s, role, r)
    <3>1. ASSUME NEW s \in Sockets, RegisterOrRefuse(s)
          PROVE  FALSE
      BY <1>3, <3>1 DEF RegisterOrRefuse, BeginWebSocket, RefuseWebSocket, Goto
    <3>2. ASSUME NEW s \in Sockets, QuietStep(s)
          PROVE  FALSE
      <4>1. LocalStep(s) \/ RemoveSession(s) \/ Finish(s)
        BY <3>2 DEF QuietStep, LocalStep
      <4>2. QED
        BY <1>3, <4>1, LocalEffect DEF RemoveSession, Finish, Goto
    <3>3. ASSUME UNCHANGED pc
          PROVE  FALSE
      BY <1>3, <3>3
    <3>4. ASSUME NEW l \in Listeners, HandleHTTP(l) \/ StartShutdown(l)
          PROVE  UNCHANGED pc
      BY <3>4 DEF HandleHTTP, StartShutdown, Approve, RevokeDevice, BeginShutdown, vars
    <3>5. QED
      BY <3>1, <3>2, <3>3, <3>4, LifeStepCases DEF WebSocketsDone, vars, lifeVars
  <2>2. QED
    BY <1>1, <2>1
<1>4. QED
  BY <1>2, <1>3

LEMMA HandlersStep ==
  ASSUME SessionsInv, LifeInv, [LifeNext]_lifeVars
  PROVE  HandlersOK'
<1>1. LifeTypes /\ [Next]_vars /\ HandlersOK
  BY TypesOfLife, LifeStepIsStep DEF LifeInv
<1>2. QED
  BY <1>1, OpenStep, AdmittedStep DEF HandlersOK

-----------------------------------------------------------------------------
(* The theorems *)

LEMMA LifeInitOK == LifeInit => SessionsInv /\ LifeInv
<1> SUFFICES ASSUME LifeInit
             PROVE  SessionsInv /\ LifeInv
  OBVIOUS
<1>1. SessionsInv
  BY SessionsInit DEF LifeInit
<1>2. Returned = {} /\ Len(results) = 0
  BY DEF LifeInit, Returned
<1>3. Len(results) = Cardinality(Returned)
  BY <1>2, FS_EmptySet
<1>4. LifeTypeOK
  <2>1. LifeTypes
    <3>1. /\ via \in [Sockets -> Listeners \cup {Null}]
          /\ http \in [Listeners -> 0 .. MaxRequests]
          /\ stage \in [Listeners -> Stages]
      BY SMT, LifecycleConstants DEF LifeInit, Stages
    <3>2. results \in Seq({"nil", "error"})
      BY SMT DEF LifeInit
    <3>3. QED
      BY <3>1, <3>2 DEF LifeInit, LifeTypes
  <2>2. QED
    BY SMT, <1>2, <2>1, LifecycleConstants DEF LifeTypes, LifeTypeOK
<1>5. \A l \in Listeners : StageOK(l)
  BY DEF LifeInit, StageOK
<1>6. ResultOK /\ StoreOutlivesHandlers
  BY DEF LifeInit, ResultOK, StoreOutlivesHandlers
<1>7. HandlersOK
  BY DEF LifeInit, Init, HandlersOK
<1>8. QED
  BY <1>1, <1>3, <1>4, <1>5, <1>6, <1>7 DEF LifeInv

LEMMA LifeStep ==
  SessionsInv /\ LifeInv /\ [LifeNext]_lifeVars => SessionsInv' /\ LifeInv'
<1> SUFFICES ASSUME SessionsInv, LifeInv, [LifeNext]_lifeVars
             PROVE  SessionsInv' /\ LifeInv'
  OBVIOUS
<1>1. SessionsInv'
  BY LifeStepIsStep, SessionsStep
<1>2. LifeTypeOK' /\ Len(results') = Cardinality(Returned')
  BY CountStep
<1>3. (\A l \in Listeners : StageOK(l))'
  BY StagesStep
<1>4. ResultOK' /\ StoreOutlivesHandlers'
  BY ResultStep, StoreStep
<1>5. HandlersOK'
  BY HandlersStep
<1>6. QED
  BY <1>1, <1>2, <1>3, <1>4, <1>5 DEF LifeInv

\* A process keeps its types: serve returns once for each listener.
THEOREM LifecycleTypeCorrect == LifeSpec => []LifeTypeOK
<1>1. LifeInv => LifeTypeOK
  BY DEF LifeInv
<1>2. QED
  BY <1>1, LifeInitOK, LifeStep, PTL DEF LifeSpec

\* runServe closes the database under a handler only if the timeout of a
\* shutdown has expired.
THEOREM TheStoreOutlivesHandlers == LifeSpec => []StoreOutlivesHandlers
<1>1. LifeInv => StoreOutlivesHandlers
  BY DEF LifeInv
<1>2. QED
  BY <1>1, LifeInitOK, LifeStep, PTL DEF LifeSpec

\* When Serve has returned, its result and the results of its serve calls say
\* the same.
LEMMA Stopped ==
  ASSUME LifeInv, result # "none"
  PROVE  /\ \A l \in Listeners : stage[l] = "returned" /\ StageOK(l)
         /\ accepting = {}
         /\ result = "error" <=> HasError
         /\ result \in {"nil", "error"}
<1>   LifeTypes /\ Returned = Listeners /\ result = BothResult
  BY TypesOfLife DEF LifeInv, ResultOK
<1>1. \A l \in Listeners : stage[l] = "returned" /\ StageOK(l)
  BY DEF LifeInv, Returned
<1>2. accepting = {}
  BY <1>1 DEF StageOK, LifeTypes
<1>3. Len(results) = Cardinality(Listeners)
  BY DEF LifeInv
<1>4. QED
  BY <1>1, <1>2, <1>3, BothResultIs

\* serveBoth loses no error, of either listener or of a shutdown.
THEOREM EveryErrorSurfaces == LifeSpec => []ErrorsSurface
<1>1. LifeInv => ErrorsSurface
  <2> SUFFICES ASSUME LifeInv, result # "none"
               PROVE  /\ accepting = {}
                      /\ result = "error" <=>
                           broken # {} \/ \E i \in DOMAIN results : results[i] = "error"
    BY DEF ErrorsSurface
  <2>1. broken # {} => HasError
    BY Stopped, TypesOfLife DEF StageOK, LifeInv, LifeTypes
  <2>2. QED
    BY <2>1, Stopped DEF HasError
<1>2. QED
  BY <1>1, LifeInitOK, LifeStep, PTL DEF LifeSpec

\* Serve returns nil only when no request and no session is left, and no
\* handler but one that is between Accept and beginWebSocket.
THEOREM EveryCleanStopIsQuiet == LifeSpec => []CleanStopIsQuiet
<1>1. SessionsInv /\ LifeInv => CleanStopIsQuiet
  <2> SUFFICES ASSUME SessionsInv, LifeInv, result = "nil"
               PROVE  CleanStopIsQuiet
    BY DEF CleanStopIsQuiet
  <2>1. /\ accepting = {}
        /\ \A l \in Listeners : ~Handling(l) /\ done
    BY Stopped DEF StageOK, Closed
  <2>2. \E l \in Listeners : TRUE
    <3>1. Listeners # {}
      BY SMT, LifecycleConstants, FS_EmptySet
    <3>2. QED
      BY <3>1
  <2>3. done /\ shuttingDown /\ \A s \in Sockets : ~Tracked(s)
    BY <2>1, <2>2 DEF SessionsInv, DrainOK
  <2>4. \A l \in Listeners : http[l] = 0
    <3>1. \A l \in Listeners : http[l] \in 0 .. MaxRequests
      BY DEF LifeInv, LifeTypeOK
    <3>2. QED
      BY SMT, <2>1, <3>1, LifecycleConstants DEF Handling
  <2>5. ASSUME NEW s \in Sockets
        PROVE  /\ via[s] # Null => pc[s] \in {"accepted", "done"}
               /\ conn[s] = "open" => pc[s] = "accepted"
    <3>1. via[s] \in Listeners \cup {Null} /\ HandlersOK
      BY DEF LifeInv, LifeTypeOK
    <3>2. pc[s] \in {"idle", "admitted", "accepted", "done"}
      BY <2>3 DEF Tracked, SessionsInv, TypeOK, Points
    <3>3. QED
      BY <2>1, <3>1, <3>2 DEF Handling, HandlersOK
  <2>6. \A k \in Keys : hosts[k] = Null /\ devices[k] = Null
    BY <2>3 DEF SessionsInv, TablesOK
  <2>7. QED
    BY <2>1, <2>3, <2>4, <2>5, <2>6 DEF CleanStopIsQuiet
<1>2. QED
  BY <1>1, LifeInitOK, LifeStep, PTL DEF LifeSpec

=============================================================================
