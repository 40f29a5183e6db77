--------------------------- MODULE MCProofMission ---------------------------
(* Small instances of ProofMission for TLC. *)
EXTENDS ProofMission, TLC

CONSTANTS m1, m2, p1, p2, r1, r2, h1, h2, c1, human, owner, reviewer, w1, w2

\* Every pull request in one repository.
OneRepository == [p \in Pull |-> r1]

\* One list with a machine and a human criterion; a second one without machine.
OneInput == {{c1, human}}
TwoInputs == {{c1}, {human}}

HeadSymmetry == Permutations(Head)
RequestSymmetry == Permutations(Head) \cup Permutations(Request)
=============================================================================
