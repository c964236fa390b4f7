------------------------------ MODULE MCPairing ------------------------------
(* Values for the constants of Pairing, and the symmetry of its id sets. *)
EXTENDS Pairing, TLC

IdSymmetry ==
  Permutations(Hosts) \cup Permutations(InviteIds) \cup Permutations(ClaimIds)
    \cup Permutations(DeviceIds) \cup Permutations(Keys)
    \cup Permutations(Payloads)
=============================================================================
