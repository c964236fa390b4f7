------------------------------ MODULE MCCommands -----------------------------
(***************************************************************************)
(* Setup and TenantCommands for model checking.  The files that "local     *)
(* init" and "configure" write and the tables that the tenant commands     *)
(* write have nothing in common, so a behaviour is one of either: "part"   *)
(* says which, and the variables of the other stay as they are.            *)
(***************************************************************************)
EXTENDS Setup, TenantCommands, TLC

VARIABLE part

MCInit ==
  /\ part \in {"files", "tenants"}
  /\ SetupInit
  /\ CommandsInit
  /\ part = "files" => pairOK

MCNext ==
  \/ part = "files" /\ SetupNext /\ UNCHANGED <<part, commandVars>>
  \/ part = "tenants" /\ CommandsNext /\ UNCHANGED <<part, setupVars>>

MCSpec == MCInit /\ [][MCNext]_<<part, setupVars, commandVars>>

\* Processes and Commands are the same values, and so are Generations and
\* TenantIds: no part has both.
MCSymmetry ==
  Permutations(Processes) \cup Permutations(TenantIds)
    \cup Permutations(Identities) \cup Permutations(Requests)

=============================================================================
