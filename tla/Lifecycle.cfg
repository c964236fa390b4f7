\* Two listeners with a plain request each, and one WebSocket; the process may
\* stop for good.
SPECIFICATION FairLifeSpec
CONSTANTS
  Sockets = {s1}
  Routes <- OneRoute
  Granted <- AnyTicket
  Null = Null
  Listeners = {public, internal}
  MaxRequests = 1
INVARIANTS
  CleanStopIsQuiet
  StoreOutlivesHandlers
  ErrorsSurface
PROPERTIES
  StopsInTheEnd
CHECK_DEADLOCK FALSE
