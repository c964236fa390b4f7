----------------------------- MODULE Invitation -----------------------------
(***************************************************************************)
(* What the pairing service promises about an invite, without claims in    *)
(* the making, clocks, devices or transactions: an invite is opened once,  *)
(* and an open invite is either closed or won by one claim, for good.  One *)
(* step of the service may close any number of invites (expiry is swept    *)
(* over the whole table by every operation) and, besides, settle one.      *)
(***************************************************************************)
CONSTANTS Invites, Claims

VARIABLES
  state,    \* of every invite: "none", "open", "closed" or "won"
  winners   \* of every invite: the claims that have won it

InvitationInit ==
  /\ state = [i \in Invites |-> "none"]
  /\ winners = [i \in Invites |-> {}]

Open(i) ==
  /\ state[i] = "none"
  /\ state' = [state EXCEPT ![i] = "open"]
  /\ UNCHANGED winners

\* Some open invites are closed; all others stay as they are.
Close ==
  /\ \A i \in Invites :
       state'[i] = state[i] \/ (state[i] = "open" /\ state'[i] = "closed")
  /\ UNCHANGED winners

\* Claim c wins the open invite i, and other open invites may be closed.
Win(i, c) ==
  /\ state[i] = "open"
  /\ state'[i] = "won"
  /\ \A j \in Invites \ {i} :
       state'[j] = state[j] \/ (state[j] = "open" /\ state'[j] = "closed")
  /\ \A j \in Invites : c \notin winners[j]
  /\ winners' = [winners EXCEPT ![i] = {c}]

InvitationNext ==
  \/ \E i \in Invites : Open(i)
  \/ Close
  \/ \E i \in Invites, c \in Claims : Win(i, c)

InvitationSpec ==
  InvitationInit /\ [][InvitationNext]_<<state, winners>>
=============================================================================
