----------------------------- MODULE MCAccounts -----------------------------
(* Small instances of Accounts for TLC. *)
EXTENDS Accounts, TLC

CONSTANTS u1, u2, e1, pw1, pw2, i1, w1, w2, reviewer

OneEmail == [u \in Member |-> e1]
OneIdentityEmail == [i \in Identity |-> e1]
=============================================================================
