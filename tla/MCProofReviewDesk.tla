------------------------- MODULE MCProofReviewDesk -------------------------
(* A small instance of ProofReviewDesk for TLC. *)
EXTENDS ProofReviewDesk, MCProofMission
=============================================================================
