------------------------------- MODULE Startup -------------------------------
(***************************************************************************)
(* The processes on one state path, from their start: Identity composed    *)
(* with Migration.  "serve" opens the store, which may migrate it, then    *)
(* loads or creates the identity, and listens last.  The other commands    *)
(* open the store, read it or write to the tenants, and exit.  Nothing but *)
(* the port keeps two processes apart.                                     *)
(***************************************************************************)
EXTENDS Identity

CONSTANTS Legacy, Rows   \* see Migration

VARIABLES
  schema, rows, backup, copying, old, written, raced,
  store   \* how far a process is in opening the store

DB == INSTANCE Migration WITH pc <- store

ASSUME StartupConstants ==
  /\ Legacy # {} /\ Legacy \cap Rows = {}
  /\ Absent \notin DB!Backup

dbVars == <<schema, rows, backup, copying, store, old, written, raced>>

startupVars == <<dbVars, identityVars>>

StartupTypeOK == DB!TypeOK /\ IdentityTypeOK

StartupInit == DB!Init /\ IdentityInit

\* store.Open, which every process begins with.
OpenStore(p) == DB!OpenStep(p) /\ UNCHANGED identityVars

\* The rest of runServe.  When Serve returns, or the process is killed, the
\* store is closed.
Serve(p) ==
  /\ store[p] = "open"
  /\ RelayStep(p)
  /\ IF phase'[p] = "down" THEN DB!Close(p) ELSE UNCHANGED dbVars

\* A relay that serves enrols a host or pairs a device.  The other commands
\* write to the tenants only.
Use(p, r) ==
  /\ phase[p] = "serving"
  /\ DB!Write(p, r)
  /\ UNCHANGED identityVars

\* A command other than serve exits.
Exit(p) ==
  /\ phase[p] = "down"
  /\ DB!Close(p)
  /\ UNCHANGED identityVars

StartupNext ==
  \/ \E p \in Processes :
       \/ OpenStore(p)
       \/ Serve(p)
       \/ \E r \in Rows : Use(p, r)
       \/ Exit(p)
  \/ Flush /\ UNCHANGED dbVars
  \/ PowerLoss /\ DB!PowerLoss

StartupSpec == StartupInit /\ [][StartupNext]_startupVars

-----------------------------------------------------------------------------
(* Properties, beside those of Identity *)

\* No row of the old schema is lost (see Migration).
LegacyIsKept == DB!LegacyIsKept

\* No row of the current schema is lost (see Migration).
CurrentRowsSurvive == DB!CurrentRowsSurvive

=============================================================================
