------------------------------- MODULE MCAuth --------------------------------
(* Instances of Auth for model checking. *)
EXTENDS Auth, TLC

CONSTANTS hostKey, deviceKey

\* Hosts sign with one key, devices with another.
RoleKeys ==
  [s \in Tenants \X Hosts \X (Hosts \cup Devices) |->
     IF s[3] \in Hosts THEN hostKey ELSE deviceKey]

IdSymmetry ==
  Permutations(ChallengeIds) \cup Permutations(TicketIds)
    \cup Permutations(Requests)

=============================================================================
