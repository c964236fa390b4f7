------------------------------ MODULE MCFrames -------------------------------
(* Constants of Frames for model checking. *)
EXTENDS Frames

\* Quotas around zero and around the maximum.  With the tag of 16 bytes, 0, 1
\* and 2 leave every remainder that Base64Url groups of three bytes can leave.
MCConfigured ==
  {-1, 0, 1, 2, MaxBusinessPlaintextBytes, MaxBusinessPlaintextBytes + 1}

NegativeQuota == {-1}

MCRests == {Overhead, Overhead + 1}

=============================================================================
