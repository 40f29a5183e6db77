--------------------------- MODULE MCInstallation ---------------------------
(* Small instances of Installation for TLC. *)
EXTENDS Installation, TLC

CONSTANTS u1, u2, r1, r2, a1, a2, w1, w2

InstallationSymmetry ==
    Permutations(User) \cup Permutations(Repository)
        \cup Permutations(Attempt) \cup Permutations(Request)
=============================================================================
