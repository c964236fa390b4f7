------------------------------ MODULE MCStartup ------------------------------
(* The symmetry of Startup. *)
EXTENDS Startup, TLC

StartupSymmetry ==
  Permutations(Processes) \cup Permutations(IdentityKeys)
    \cup Permutations(Legacy) \cup Permutations(Rows)

=============================================================================
