------------------------------- MODULE Tickets -------------------------------
(***************************************************************************)
(* What authentication promises to the handlers that ask for a ticket: a   *)
(* ticket is made for one scope, authorises one request that needs exactly *)
(* that scope, and only while the subject of the scope is active.          *)
(***************************************************************************)
EXTENDS Naturals

CONSTANTS Ids, TicketScopes, NotIssued

VARIABLES
  issued,   \* the scope of a ticket
  uses,     \* how many requests a ticket has authorised
  active    \* the scopes whose subject is active

TicketsInit ==
  /\ issued = [t \in Ids |-> NotIssued]
  /\ uses = [t \in Ids |-> 0]
  /\ active \subseteq TicketScopes

Issue(t, scope) ==
  /\ issued[t] = NotIssued
  /\ issued' = [issued EXCEPT ![t] = scope]
  /\ UNCHANGED <<uses, active>>

Spend(t, scope) ==
  /\ issued[t] = scope
  /\ scope \in active
  /\ uses[t] = 0
  /\ uses' = [uses EXCEPT ![t] = 1]
  /\ UNCHANGED <<issued, active>>

SubjectsChange ==
  /\ active' \in SUBSET TicketScopes
  /\ UNCHANGED <<issued, uses>>

TicketsNext ==
  \/ \E t \in Ids, scope \in TicketScopes : Issue(t, scope) \/ Spend(t, scope)
  \/ SubjectsChange

TicketsSpec == TicketsInit /\ [][TicketsNext]_<<issued, uses, active>>

=============================================================================
