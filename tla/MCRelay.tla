------------------------------- MODULE MCRelay -------------------------------
(* The symmetry of the id sets of Relay. *)
EXTENDS Relay, TLC

IdSymmetry ==
  Permutations(InviteIds) \cup Permutations(ClaimIds)
    \cup Permutations(DeviceIds) \cup Permutations(Keys)
    \cup Permutations(TicketIds) \cup Permutations(Requests)

=============================================================================
