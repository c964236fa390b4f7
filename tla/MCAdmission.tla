----------------------------- MODULE MCAdmission -----------------------------
(***************************************************************************)
(* Limiter and Frames for model checking.  The limit on challenges and the *)
(* checks on a message share no state, so a behaviour is one of either:    *)
(* "part" says which, and the variables of the other stay as they are.     *)
(***************************************************************************)
EXTENDS MCFrames, Limiter, TLC

VARIABLE part

MCInit ==
  /\ part \in {"limiter", "frames"}
  /\ LimiterInit
  /\ Init
  /\ part = "limiter" => configured = 0 /\ role = "host"

MCNext ==
  \/ part = "limiter" /\ LimiterNext /\ UNCHANGED <<part, vars>>
  \/ part = "frames" /\ Next /\ UNCHANGED <<part, limiterVars>>

MCSpec == MCInit /\ [][MCNext]_<<part, limiterVars, vars>>

SourceSymmetry == Permutations(Sources)

=============================================================================
